SPECIFICATION FairSpec
CONSTANTS
  Procs <- Procs2
  First = pa
  Fds <- Fds2
  CAP = 2
  IDX = 32
  FIELD = 64
  Bytes <- MCBytes
  MaxLen = 2
  MaxPos = 3
  MaxRefs = 2
  pa = pa
  pb = pb
  x = x
  y = y
INVARIANTS
  RefsCovered
  NoUseAfterFree
  SleepsJustified
PROPERTIES
  ImplementsChannel
  CloseUnblocks
CHECK_DEADLOCK FALSE
