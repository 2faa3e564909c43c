SPECIFICATION Spec
CONSTANTS
  PDE_SIZE = 6
  PTE_SIZE = 12
  LOW_PAGES = 12
  KERN_BASE = 24
  MMDEV_BASE = 60
  KERNEL_PAGES = 2
  Procs = {1, 2, 3}
  MAX_CALLS = 5
  MAX_FAILED = 1
INVARIANT TypeOK
INVARIANT KernelMapped
INVARIANT UserIsolation
INVARIANT PagesAccounted
INVARIANT KernelReachable
