\* As many threads as the table has entries.
CONSTANTS
  MaxRes = 3
  Threads = {0, 1, 2}
  Resources = {0, 1, 2}
SPECIFICATION Spec
INVARIANTS
  NoDeadlock
