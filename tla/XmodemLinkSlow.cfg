\* Every kind of damage, a sender slower than the receiver, and a file long
\* enough for the block number to wrap.
SPECIFICATION LinkSpec
CONSTANTS
  ByteMod = 8
  DataLen = 1
  SOH = 1
  EOT = 4
  ACK = ACK
  NAK = NAK
  None = None
  gSysClock = 1
  MaxBlocks = 9
  LoseAt = {"SOH", "EOT", "body"}
  ChangeAt = {"SOH", "EOT", "body"}
  AnswerFaults = {"lose", "change"}
  MaxFaults = 2
  SlowSender = TRUE
  MaxAnswers = 3
  File <- NineBlocks
  Pending <- NoneWaiting
INVARIANTS
  MemoryIsPrefix
  LinkTypeOK
  NumberMatchesMemory
PROPERTIES
  AckNamesLastBlock
  MemoryOnlyGrows
CHECK_DEADLOCK FALSE
