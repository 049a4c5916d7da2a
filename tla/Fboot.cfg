\* The whole of main(), and init_pll alone.
SPECIFICATION FbootSpec
CONSTANTS
  Chips <- SomeChips
  ResetCauses = {"power", "soft"}
  SerialBoots = {TRUE, FALSE}
  Divisors <- RomDivisors
  Leftover = {0}
  MAX_UBOOT_SIZE = 1
  MaxLength = 2
  Routines = {"init_plls", "init_pll", "init_plls_words"}
  Straps <- BothStraps
  Width = 3
  Size = 8
  Granularity = 2
  Configs <- Searched
  Unit = 33554432
  SYS_MEM_MAX_SIZE = 16
  Faults <- SomeFaults
  Builds = {"uncached", "write-back"}
  Undefined <- AfterReset
  PRId <- Identity
  Config <- Configurations
  Config1 <- Geometry
  AtReset <- Configs0to3
  DEBUG_LEVEL = 3
  Ways = 1
  LoadAt = {0}
INVARIANTS
  NotInterrupted
  FbootTypeOK
  ConsoleReadable
  SecondIsSecond
  BusIsProgrammed
  RoutinesAgree
  OutOfResetIsClocked
PROPERTIES
  MainIsEntered
  PllsKept
  ControlKept
  PllsReturn
  SoundMemoryLoads
CHECK_DEADLOCK FALSE
