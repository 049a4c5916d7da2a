\* Every loss and every garbling, without bound, on a file of twelve blocks.
SPECIFICATION Spec
CONSTANTS
  ByteMod = 2
  Block = {"a", "b", "c"}
  NoData = NoData
  File <- SmallFile
INVARIANTS
  IInv
  AckedIsStored
PROPERTIES
  TransferSpec
CHECK_DEADLOCK FALSE
