CONSTANTS
  Jobs = {j1}
  Grants = {g1, g2}
  Approvals = {a1}
  MaxProcesses = 2
SPECIFICATION ASpec
SYMMETRY Symmetry
INVARIANTS
  GrantsAreProcessBound
  EnteredAtMostOnce
  LedgerIsTruthful
  
PROPERTIES
  ImplementsWarrants
