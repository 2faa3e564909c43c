SPECIFICATION Spec
CONSTANTS
  MAX_TASKS = 3
  MAX_OPEN_FILES = 1
  OPEN_LIMIT = 2
  ORPHANS = TRUE
INVARIANT ParentIsTask
CHECK_DEADLOCK FALSE
