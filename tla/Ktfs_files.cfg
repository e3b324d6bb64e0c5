CONSTANTS
  Names = {a, b, c}
  Bytes = {x, y}
  NDIRECT = 1
  NDINDIRECT = 1
  PER = 2
  NBLOCKS = 13
  NBITS = 40
  NINODES = 4
  Reads = {3}
  Writes = {1, 3}
  Ends = {13}
  Seeks = {12}
  MaxOpen = 1
  MaxCalls = 5
SYMMETRY NamesAndBytes
SPECIFICATION Spec
INVARIANTS BlocksOwned HandlesAgree
PROPERTY ImplementsFiles
