SPECIFICATION MemSpec
CONSTANTS
  MAX_TASKS = 3
  MAX_OPEN_FILES = 1
  OPEN_LIMIT = 1
  ORPHANS = TRUE
  NPAGES = 10
  MAX_FILES = 1
  MAX_FAILED = 2
INVARIANT NoDoubleFree
