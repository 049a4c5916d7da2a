\* 4KB and 2KB parts, every placement of the blocks, one or two damages; and volumes
\* that fill the map or reach behind it.
SPECIFICATION FairSpec
CONSTANTS
  NumPebs = 7
  NumPages = 2
  MapSize = 3
  Behind = 1
  Lnums = {0, 1, 2, 3}
  UBI_MAX_VOLUMES = 4
  LAYOUT_VOLUMEID = 99
  Erased = "erased"
  Blank = "blank"
  Loader = "loader"
  VolumeNames <- UbootFirst
  Content <- Images
  Data <- Contents
  Boards <- Damaged
INVARIANTS
  VolumeRead
  BootedImage
  PrimaryPreferred
  MapInBounds
PROPERTIES
  SomeVolumeBoots
CHECK_DEADLOCK FALSE
