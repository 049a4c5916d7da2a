\* A move of a block that a power cut left half done.
SPECIFICATION FairSpec
CONSTANTS
  NumPebs = 7
  NumPages = 2
  MapSize = 3
  Behind = 1
  Lnums = {0, 1, 2, 3}
  UBI_MAX_VOLUMES = 4
  LAYOUT_VOLUMEID = 99
  Erased = "erased"
  Blank = "blank"
  Loader = "loader"
  VolumeNames <- UbootFirst
  Content <- Images
  Data <- Contents
  Boards <- Moved
INVARIANTS
  AllBlocksMapped
CHECK_DEADLOCK FALSE
