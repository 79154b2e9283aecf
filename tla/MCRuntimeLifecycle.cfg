CONSTANTS
  Processes = {p1, p2}
  Crashes = {p1}
SPECIFICATION LFairSpec
INVARIANT HolderIsNamed
INVARIANT ResourcesFollowTheState
PROPERTY CallsEnd
CHECK_DEADLOCK FALSE
