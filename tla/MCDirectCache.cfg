CONSTANTS
  NSets = 2
  Sets <- MCSets
  Tags <- MCTags
  Lines <- MCLines
  Devices <- MCDevices
  Bytes = {b1}
  Values = {0, 1}
  ReadEffect <- MCReadEffect
  AtomicOp <- MCAtomicOp
  MaxPending = 1
  MemRequests <- MCMemRequests
  Requests <- MCRequests
  None = None
SPECIFICATION MCSpec
INVARIANTS TypeOK Coherent HitIsCurrent
VIEW LiveState
PROPERTIES RefinesMemory RequestHeld
