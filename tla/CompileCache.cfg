\* Two invocations, seconds of two ticks, two seconds, two saves that keep the size, one fault.
CONSTANTS
  Procs = {p, q}
  Policies = {"launcher", "fast", "strict", "off"}
  Modes = {elf, bin}
  InitialMode = elf
  InitialSize = 1
  Sizes = {1}
  Formats = {"v2", "hash"}
  TicksPerSecond = 2
  MaxTime = 3
  MaxVersion = 2
  MaxFaults = 1
SPECIFICATION Spec
SYMMETRY Symmetry
INVARIANTS
  TypeOK
  StaleOnlyInWindow
  MissOnlyWhenNeeded
  RecordedHitsHaveMode
PROPERTY
  TornHitsHaveACause
