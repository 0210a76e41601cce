CONSTANTS
  Lines = {l1}
  Devices = {}
  Bytes = {b1, b2}
  Values = {0, 1}
  ReadEffect <- MCReadEffect
  AtomicOp <- MCAtomicOp
  MaxPending = 2
  PendingLimit = 2
  Requests <- MCRequests
  MemRequests <- MCMemRequests
  None = None
SPECIFICATION MCSpec
INVARIANT TypeOK
PROPERTIES RefinesAtomicMemory AtomicEnds
