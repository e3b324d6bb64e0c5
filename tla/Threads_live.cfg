SPECIFICATION FairSpec
CONSTANTS
  NTHR = 4
  Locks <- NoLocks
  Pages <- MCPages
  MaxDepth = 2
  l1 = l1
  p1 = p1
  p2 = p2
  p3 = p3
PROPERTIES
  ReadyRuns
  JoinReturns
  SleepEnds
