CONSTANTS
  Paths = {p1}
  NumRegions = 2
  Ops = {o1}
  Tickets = {t1, t2}
  Calls = {c1, c2}
  MaxCommits = 4
  MaxEdits = 1
SPECIFICATION VSpec
SYMMETRY Symmetry
INVARIANT VTypeOK
INVARIANT ConfirmedIsApplied
INVARIANT OneCommitPerConfirmation
 
INVARIANT StateIsEarned
CHECK_DEADLOCK FALSE
