CONSTANTS
  Producers = {p1, p2}
  Cells = 2
  MaxEmits = 4
  MaxFlushes = 2
  Bytes = {0, 1, 255}
  Lanes = 2
  MaxTrace = 4
SPECIFICATION Spec
INVARIANTS
  HoldsTheLastSignals
  StatsAreOfTheWholeTrace
