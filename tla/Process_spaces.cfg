SPECIFICATION Spec
CONSTANTS
  NPAGES = 13
  Values <- MCValues
  Zero = Zero
  Junk = Junk
  NTHR = 2
  NPROC = 2
  UPages <- MCUPages
  Buffers <- MCBuffers
  StackPage <- MCStack
  Images <- MCImages
  MaxCalls = 3
  x = x
INVARIANTS
  PagesOwnedOnce
  ValidatedNeverFaults
PROPERTIES
  ImplementsSpaces
