CONSTANTS
  Jobs = {j1, j2}
  Priorities = {0, 1}
  AttemptBudgets = {1, 2}
SPECIFICATION Spec
SYMMETRY Symmetry
INVARIANTS
  LeaseIsLatestClaim
  AttemptsWithinBudget
  AcyclicDependencies
  StartedAfterPrerequisites
  RequestsNotInherited
PROPERTIES
  CheckpointsNeverRegress
  ImplementsWorkQueue
CHECK_DEADLOCK FALSE
