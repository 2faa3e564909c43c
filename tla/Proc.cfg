SPECIFICATION FairSpec
CONSTANTS
  MAX_TASKS = 5
  MAX_OPEN_FILES = 1
  OPEN_LIMIT = 1
  ORPHANS = TRUE
INVARIANT TypeOK
INVARIANT OneRunning
INVARIANT SleeperAwaitsLiveChild
INVARIANT WokenByExit
INVARIANT WaitPidNotStale
INVARIANT NoHang
PROPERTY Lifecycle
PROPERTY RunnableRuns
