CONSTANTS
  Jobs = {j1}
  Priorities = {0}
  AttemptBudgets = {2, 3}
  Calls = {c1}
  MaxCrashes = 0
SPECIFICATION OFairSpec
INVARIANTS
  NetworkWaitsAreMarked
PROPERTIES
  NetworkWaitsEnd
