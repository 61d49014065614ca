CONSTANTS
    NPROC = 3
    Runs = "RUNNING"
    ProcBase <- MCProcBase
    UserEvents <- MCUserEvents
    UserPids <- MCUserPids
    UserPris <- MCUserPris
    ExitValues <- MCExitValues
    SEGSIZE = 4096
    SegShift = 0
    TopShift = 0
    Depth = 40
    Programs <- MCPrograms
    CommandLines <- MCCommandLines
    HopSegments <- MCHopSegments
SPECIFICATION MemSpec
INVARIANTS
    FramesAreOwn
    StackInOwnSegment
    WaitersAreWoken
PROPERTIES
    KeepsUnixPromise
CHECK_DEADLOCK FALSE
