\* Every fault, in every build.
SPECIFICATION SetUpSpec
CONSTANTS
  Chips = {0, 3}
  ResetCauses = {"power"}
  SerialBoots = {TRUE}
  Routines = {"init_plls"}
  Straps = {{}}
  Width = 3
  Size = 16
  Granularity = 2
  Unit = 16777216
  Configs <- Searched
  SYS_MEM_MAX_SIZE = 32
  Faults <- AllFaults
  Builds = {"uncached", "write-back", "write-through"}
  Ways = 2
  LoadAt = {2}
INVARIANTS
  GoodIsSound
  ImageIsSafe
  TakenAsHeld
  MemoryAsSwept
  WiringVerified
  WordsAgree
PROPERTIES
  ImplementsSearch
CHECK_DEADLOCK FALSE
