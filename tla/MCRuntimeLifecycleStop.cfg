CONSTANTS
  Processes = {p1}
  Crashes = {}
SPECIFICATION LFairSpec
PROPERTY StoppedIsFinal
CHECK_DEADLOCK FALSE
