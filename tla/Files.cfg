SPECIFICATION Spec
CONSTANTS
  Procs = {p1, p2}
  MAX_FILES = 3
  MAX_OPEN_FILES = 1
  PGSIZE = 3
  INT_SIZE = 1
  WORD = 16
  Names = {"f", "g"}
  LONG = "long"
  Archives <- MCArchives
  MAGIC = 8
  HDR = 60
  RADIX = 2
  Counts = {2}
  MAX_POS = 3
INVARIANT TypeOK
INVARIANT ArchiveUnpacked
INVARIANT UniqueNames
INVARIANT ListingAccurate
INVARIANT ReadsEndAtSize
SYMMETRY Symmetry
