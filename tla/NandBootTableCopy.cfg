\* The primary volume is not the first of the table.
SPECIFICATION FairSpec
CONSTANTS
  NumPebs = 7
  NumPages = 2
  MapSize = 3
  Behind = 1
  Lnums = {0, 1, 2, 3}
  UBI_MAX_VOLUMES = 4
  LAYOUT_VOLUMEID = 99
  Erased = "erased"
  Blank = "blank"
  Loader = "loader"
  VolumeNames <- UbootLast
  Content <- Images
  Data <- Contents
  Boards <- OneDamage
INVARIANTS
  VolumeIdNamed
CHECK_DEADLOCK FALSE
