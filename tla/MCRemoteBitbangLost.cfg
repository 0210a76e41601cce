SPECIFICATION FairSpec
CONSTANTS
    InsnCapture <- MCInsnCapture
    InsnIdcode <- MCInsnIdcode
    InsnBypass <- MCInsnBypass
    InsnOther <- MCInsnOther
    IdcodeValue <- MCIdcodeValue
    TckPeriod = 2
    ResetClocks = 1
    PowerUp = {"EXIT2_DR", "PAUSE_DR", "CAPTURE_IR"}
    Window = 2
    ReplyRoom = 1
    MaxBytes = 4
    MaxStray = 1
    MaxSessions = 2

PROPERTY InactiveWithoutCommand
CHECK_DEADLOCK FALSE
