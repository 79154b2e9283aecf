CONSTANTS
  Events = {e1}
  Publications = {k1, k2}
  MaxListeners = 2
  MaxId = 4
SPECIFICATION BSpec
SYMMETRY Symmetry
INVARIANT OnceMeansOnce
PROPERTY NobodyIsLeftOver
PROPERTY CalledWhileSubscribed
CHECK_DEADLOCK FALSE
