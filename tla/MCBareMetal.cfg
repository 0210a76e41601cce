SPECIFICATION FairSpec
CONSTANTS
    Word = 262144
    TickValues = 262144
    MaxHandles = 1
    MaxFile = 3
    Mega = 10000
    MemSize = 4
    Chars = {0, 1, 255}
    Programs = {"calls", "strings", "coremark"}
    Repeat = 2
    Statuses <- MCStatuses
    MaxCalls = 4
    Iterations = {1, 26}
    StartTimes <- MCStartTimes
    RunTimes <- MCRunTimes
    Paths <- MCPaths
    Modes <- MCModes
    Data <- MCData
    Lengths = {0, 1, 3}
    Offsets <- MCOffsets
    Descriptors <- MCDescriptors
INVARIANTS TypeOK ExitTellsFirstFailure TerminalInOrder ResultLineIsTrue LibraryIsC
PROPERTIES ResultsTellTheHost ProgramEnds
CHECK_DEADLOCK FALSE
