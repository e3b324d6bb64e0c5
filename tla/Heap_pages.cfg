SPECIFICATION HeapSpec
CONSTANTS
  NPAGES = 6
  MaxCnt = 3
  PAGE_SIZE = 12
  HEAP_ALIGN = 2
  HEADER = 2
  HEAP_ALLOC_MAX = 8
  HEAP_INIT_MIN = 6
  KIMG_GAP = 4
  Sizes = {0, 3, 8, 9}
  MaxBlocks = 4
INVARIANTS
  PagesConserved
  ChunksCanonical
  HeapDisjoint
PROPERTIES
  ImplementsPool
