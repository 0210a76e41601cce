CONSTANTS
  Lines = {l1}
  Devices = {}
  Bytes = {b1}
  Values = {0, 1}
  ReadEffect <- MCReadEffect
  AtomicOp <- MCAtomicOp
  MaxPending = 3
  Depth = 2
  InsnRequests <- MCInsnRequests
  DataRequests <- MCDataRequests
  MemRequests <- MCDataRequests
  Policy = "round_robin"
  Prios = {"none", "data", "insn"}
  None = None
SPECIFICATION MCFairSpec
INVARIANT ArbTypeOK
PROPERTIES RefinesSharedMemory RequestHeld NoStarvation
VIEW LiveState
