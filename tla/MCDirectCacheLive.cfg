CONSTANTS
  NSets = 1
  Sets <- MCSets
  Tags <- MCTags
  Lines <- MCLines
  Devices <- MCDevices
  Bytes = {b1}
  Values = {0}
  ReadEffect <- MCReadEffect
  AtomicOp <- MCAtomicOp
  MaxPending = 1
  MemRequests <- MCMemRequests
  Requests <- MCRequests
  None = None
SPECIFICATION MCFairSpec
PROPERTY LoadsAnswered
