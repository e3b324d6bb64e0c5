SPECIFICATION Spec
CONSTANTS
  NTHR = 4
  Locks <- MCLocks
  Pages <- MCPages3
  MaxDepth = 2
  l1 = l1
  p1 = p1
  p2 = p2
  p3 = p3
SYMMETRY PageSymmetry
INVARIANTS
  TypeOK
  ListsConsistent
  LocksConsistent
  NoLostWakeup
  ParentsReachMain
  StacksSafe
