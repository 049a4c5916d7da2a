\* The header tool with the real CRC; every command line of up to three options.
SPECIFICATION Spec
CONSTANTS
  WIDTH = 32
  ByteBits = 8
  POLYNOMIAL <- Polynomial
  dwpoly <- Mirrored
  CommandLines <- AnyCommandLine
  Programs <- SomePrograms
  Missing = Missing
  Chunk = 4
  NAND_MAGIC <- Magic
  SPI_BOOT_SIG <- Signature
  LMEM <- StartOfLmem
INVARIANTS
  TypeOK
  OutputIsSound
  NoOptionLost
  RoutinesAgree
  CrcsAreChecks
CHECK_DEADLOCK FALSE
