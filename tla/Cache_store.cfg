SPECIFICATION Spec
CONSTANTS
  Thr <- MCThr
  Blocks <- MCBlocks
  Stored <- MCStored
  Beyond <- MCBeyond
  Values <- MCValues
  ZERO = v1
  NNODES = 2
  Slots <- MCSlots
  NoThread = NoThread
  NoBlock = NoBlock
  t1 = t1
  t2 = t2
  t3 = t3
  b1 = b1
  b2 = b2
  end = end
  far = far
  v1 = v1
  v2 = v2
SYMMETRY Symm
INVARIANTS
  NodesDistinct
  PinsCounted
  CleanOnDisk
PROPERTIES
  ImplementsStore
  FlushDurable
