\* Three threads, which the bound of the search (MaxRes) exceeds by one.
CONSTANTS
  MaxRes = 4
  Threads = {0, 1, 2}
  Resources = {1, 2, 3}
SPECIFICATION Spec
INVARIANTS
  TypeOK
  NoDeadlock
  WaitsAreRecorded
