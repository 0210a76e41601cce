SPECIFICATION FairSpec
CONSTANTS
    InsnCapture <- MCInsnCapture
    InsnIdcode <- MCInsnIdcode
    InsnBypass <- MCInsnBypass
    InsnOther <- MCInsnOther
    IdcodeValue <- MCIdcodeValue
    TckPeriod = 1
    ResetClocks = 1
    PowerUp = {"PAUSE_IR"}
    Window = 2
    ReplyRoom = 1
    MaxBytes = 10
    MaxStray = 1
    MaxSessions = 2
INVARIANTS TypeOK AbortsOnlyWhenLost FourOnesReachReset
PROPERTIES ServesProbe AnswerComes
CHECK_DEADLOCK FALSE
