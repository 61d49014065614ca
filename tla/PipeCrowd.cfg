CONSTANTS
    NPROC = 4
    Runs = "RUNNING"
    ProcBase <- MCProcBase
    UserEvents <- MCNone
    UserPids <- MCNone
    UserPris <- MCNone
    ExitValues <- MCNone
    PSIZE = 1
    NPIPES = 1
    NOFT = 2
    NFD = 2
    Bytes = {1}
    MaxBytes = 2
    MaxCount = 3
    PipeBase <- MCPipeBase
SPECIFICATION PipeSpec
INVARIANTS
    PointerStaysGood
    NoMissedWakeup
CHECK_DEADLOCK FALSE
