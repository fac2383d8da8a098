\* Two threads and two resources in a larger table.
CONSTANTS
  MaxRes = 4
  Threads = {0, 1}
  Resources = {0, 1}
SPECIFICATION Spec
PROPERTIES
  NoFalseAlarm
