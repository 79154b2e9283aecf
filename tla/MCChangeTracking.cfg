CONSTANTS
  Paths = {p1}
  Sessions = {s1, s2}
  Calls = {c1, c2}
  MaxWrites = 2
  MaxProcesses = 2
SPECIFICATION CSpec
SYMMETRY Symmetry
INVARIANTS
  OneActiveSession
  CompletedWorkIsNotHuman
PROPERTIES
  UnknownIsSticky
