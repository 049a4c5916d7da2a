\* Every fault.
SPECIFICATION SetUpSpec
CONSTANTS
  Chips = {0}
  ResetCauses = {"power"}
  SerialBoots = {TRUE}
  Routines = {"init_plls"}
  Straps = {{}}
  Width = 3
  Size = 16
  Granularity = 2
  Unit = 16777216
  Configs <- Searched
  SYS_MEM_MAX_SIZE = 32
  Faults <- AllFaults
  Builds = {"uncached"}
  Ways = 2
  LoadAt = {2}
INVARIANTS
  ControllerHeld
CHECK_DEADLOCK FALSE
