\* A serial boot after a soft reset.
SPECIFICATION Spec
CONSTANTS
  Divisors <- RomDivisors
  Chips <- GatewayChips
  ResetCauses = {"soft"}
  Leftover = {0, 3}
  MAX_UBOOT_SIZE = 2
  MaxLength = 3
  SerialBoots = {TRUE}
INVARIANTS
  ClockSet
CHECK_DEADLOCK FALSE
