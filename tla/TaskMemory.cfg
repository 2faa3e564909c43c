SPECIFICATION MemSpec
CONSTANTS
  MAX_TASKS = 3
  MAX_OPEN_FILES = 1
  OPEN_LIMIT = 2
  ORPHANS = TRUE
  NPAGES = 10
  MAX_FILES = 1
  MAX_FAILED = 1
INVARIANT MemTypeOK
INVARIANT PagesDisjoint
INVARIANT NoLeak
INVARIANT CpuOnOwnPages
CHECK_DEADLOCK FALSE
