\* A 2KB part with an unformatted block on it, nothing damaged.
SPECIFICATION FairSpec
CONSTANTS
  NumPebs = 7
  NumPages = 2
  MapSize = 3
  Behind = 1
  Lnums = {0, 1, 2, 3}
  UBI_MAX_VOLUMES = 4
  LAYOUT_VOLUMEID = 99
  Erased = "erased"
  Blank = "blank"
  Loader = "loader"
  VolumeNames <- UbootFirst
  Content <- Images
  Data <- Contents
  Boards <- Sound2KB
PROPERTIES
  EndReached
CHECK_DEADLOCK FALSE
