SPECIFICATION FairSpec
CONSTANTS
    Word = 262144
    TickValues = 262144
    MaxHandles = 1
    MaxFile = 3
    Mega = 10000
    MemSize = 4
    Chars = {0, 1, 255}
    Programs = {"calls"}
    Repeat = 1
    Statuses <- MCStatuses
    MaxCalls = 2
    Iterations = {1, 26}
    StartTimes <- MCStartTimes
    RunTimes <- MCRunTimes
    Paths <- MCPaths
    Modes <- MCModes
    Data <- MCData
    Lengths = {3}
    Offsets <- MCOffsets
    Descriptors <- MCDescriptors
PROPERTY ReadReturnsBytesRead
CHECK_DEADLOCK FALSE
