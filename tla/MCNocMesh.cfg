CONSTANTS
  NUM_VCS = 2
  BUF_DEPTH = 2
  None = None
  X_SIZE = 2
  Y_SIZE = 2
  LINK_DELAY = 1
  MaxStalls = 2
  Packets <- MCPackets
  Plans <- MCPlans
SPECIFICATION FairSpec
INVARIANTS TypeOK CreditsConserved VcHeldByOnePacket
PROPERTIES TurnsComeCloser DeliversPackets
