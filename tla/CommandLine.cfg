CONSTANTS
  Names = {"a", "b"}
  LibDirs = {"lib", "vendor"}
  DefaultLibDir = "lib"
  MaxSaves = 2
  DefaultOut = "output.elf"
  DefaultBuildOut = "out.elf"
  Outputs = {"output.elf", "out.elf", "o1"}
  NoValue = "none"
  TempFile = "temp"
  Sessions <- MCSessions
SPECIFICATION Spec
INVARIANTS
  TempIsRemoved
  
  ParsersAgree
  GoodBuildsAreComplete
PROPERTIES
  DryRunTouchesNothing
  SavedSourcesAreKept
CHECK_DEADLOCK FALSE
