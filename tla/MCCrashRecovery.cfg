CONSTANTS
  Jobs = {j1}
  Priorities = {0}
  AttemptBudgets = {1, 2}
  Sessions = {s1, s2, s3}
  MaxRuns = 3
  MaxFailures = 1
SPECIFICATION RFairSpec
INVARIANTS
  ResultFromLatestClaim
  OneOpenSessionWhenServing
  ReconciledSessionsLeaveNoWork
  ServingMeansReconciled
PROPERTIES
  LapsedLeaseIsRecovered
  InterruptedWorkIsRecovered
