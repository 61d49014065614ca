CONSTANTS
    NPROC = 3
    Runs = "RUNNING"
    ProcBase <- MCProcBase
    UserEvents <- MCUserEvents
    UserPids = {}
    UserPris = {}
    ExitValues <- MCExitValues
    SEGSIZE = 2048
    SegShift = 4096
    TopShift = 6144
    Depth = 40
    Programs <- MCPrograms
    CommandLines <- MCCommandLines
    HopSegments = {}
    PSIZE = 1
    NPIPES = 1
    NOFT = 2
    NFD = 2
    Bytes <- MCBytes
    MaxBytes = 1
    MaxCount = 2
    PipeBase <- MCPipeBase
SPECIFICATION MidSpec
INVARIANTS
    NoMissedWakeup
PROPERTIES
    KeepsUnixPromiseWithFds
CHECK_DEADLOCK FALSE
