SPECIFICATION Spec
CONSTANTS
  Procs = {p, q}
  First = p
  UIOMAX = 2
  AUTOFD = 1
  NULL = NULL
  Attached <- MCAttached
  KernelHeld = {2}
  BLKSZ <- MCBLKSZ
  DISKSZ = 4
  Mounts <- MCMounts
  Paths <- MCPaths
  Bytes = {0, 1}
  TICK = 2
  Messages <- MCMessages
  MaxLen = 3
  MaxCalls = 4
  MaxFaults = 1
  MaxUios = 2
  Running = Running
  EIO = EIO
  EINVAL = EINVAL
  ENOTSUP = ENOTSUP
  ENOENT = ENOENT
  EBUSY = EBUSY
CHECK_DEADLOCK FALSE
INVARIANT DevicesHeldOnce
 
