CONSTANTS
  SetsWidth = 1
  TagWidth = 1
  Lines <- MCLines
  Devices <- MCDevices
  Bytes = {b1}
  Values = {0, 1}
  ReadEffect <- MCReadEffect
  AtomicOp <- MCAtomicOp
  MaxPending = 1
  MemRequests <- MCMemRequests
  Requests <- MCRequests
  None = None
SPECIFICATION MCSpec
INVARIANTS TypeOK Coherent SingleCopy
VIEW LiveState
PROPERTY RefinesMemory
