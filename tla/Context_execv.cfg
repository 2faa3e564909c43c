SPECIFICATION CtxSpec
CONSTANTS
  MAX_TASKS = 3
  MAX_OPEN_FILES = 1
  OPEN_LIMIT = 1
  ORPHANS = TRUE
  Programs = {"init", "sh"}
  Labels = {"main", "failed"}
  USTACK = 8
  BAD_ARGV = TRUE
INVARIANT RunsOwnImage
