CONSTANTS
  N_SOURCES = 2
  N_CONTEXTS = 2
  IdValues = 4
  IdWords = {1, 2, 3, 4, 5}
  MaxPriority = 2
  EDGE_TRIGGERED = {2}
  Setups <- MCSetups
SPECIFICATION PlicSpec
INVARIANT PlicInv
PROPERTY ServesRequests
