\* Four damages anywhere but a changed SOH, a file too short to need block EOT.
SPECIFICATION LinkFairSpec
CONSTANTS
  ByteMod = 8
  DataLen = 2
  SOH = 1
  EOT = 4
  ACK = ACK
  NAK = NAK
  None = None
  gSysClock = 1
  MaxBlocks = 4
  LoseAt = {"SOH", "EOT", "body"}
  ChangeAt = {"EOT", "body"}
  AnswerFaults = {"lose"}
  MaxFaults = 4
  SlowSender = FALSE
  MaxAnswers = 1
  File <- ThreeBlocks
  Pending <- Noise
PROPERTIES
  NakInPause
  FramesSpec
  ReceiverReturns
CHECK_DEADLOCK FALSE
