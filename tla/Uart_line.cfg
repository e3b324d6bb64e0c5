SPECIFICATION FairSpec
CONSTANTS
  Readers = {r}
  Writers = {w}
  RBUFSZ = 2
  UINT = 4
  RxBytes = {x, y}
  TxBytes = {x}
  NoByte = NoByte
  NoThread = NoThread
  MaxLen = 1
INVARIANT WaitsServed
PROPERTIES
  ImplementsLine
  CallsReturn
