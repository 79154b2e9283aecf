CONSTANTS
  Jobs = {j1, j2}
  Priorities = {0}
  AttemptBudgets = {1}
  Calls = {c1}
  MaxCrashes = 1
SPECIFICATION OSpec
SYMMETRY Symmetry

  
PROPERTIES
  SettledJobsStaySettled
  RunningJobsUndisturbed
