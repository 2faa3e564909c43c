SPECIFICATION Spec
CONSTANTS
  PGSIZE = 4
  KERNEL_END = 5
  BOOT_TOP = 16
  KERN_TOP = 24
INVARIANT TypeOK
INVARIANT ListIntact
INVARIANT Conservation
PROPERTY PoolSpec
