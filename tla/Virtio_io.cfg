SPECIFICATION FairSpec
CONSTANTS
  Threads = {t, u}
  NoThread = NoThread
  Vals = {0, 1}
  SECSZ = 2
  BLKSZ = 4
  CAPACITY = 6
  RNGBUF = 3
  IDX = 3
  Boards <- MCBoards
  Ranges <- MCRanges
  MaxCalls = 2
  MaxFaults = 1
  EIO = EIO
CHECK_DEADLOCK FALSE
INVARIANT InterruptsHandled
PROPERTIES
  ImplementsTransfers
  DevicesFreed
