CONSTANTS
  Paths = {p1}
  Sessions = {s1}
  Calls = {c1, c2}
  MaxWrites = 1
  MaxProcesses = 1
SPECIFICATION CSpec
INVARIANTS
  AttributionSurvivesOverlap
