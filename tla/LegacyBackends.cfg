\* See MCLegacyBackends for the sources.  A run ends, so TLC finds no successor.
CONSTANTS
  Sources <- MCSources
  MaxInt = 1024
SPECIFICATION Spec
INVARIANTS
  
  NeverMisdecodes
PROPERTIES
  ImplementsProgram
CHECK_DEADLOCK FALSE
