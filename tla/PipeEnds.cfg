CONSTANTS
    NPROC = 3
    Runs = "RUNNING"
    ProcBase <- MCProcBase
    UserEvents <- MCNone
    UserPids <- MCNone
    UserPris <- MCNone
    ExitValues <- MCExitValues
    PSIZE = 1
    NPIPES = 2
    NOFT = 4
    NFD = 2
    Bytes <- MCNone
    MaxBytes = 1
    MaxCount = 3
    PipeBase <- MCPipeBase
SPECIFICATION PipeSpec
INVARIANTS
    CountsCover
CHECK_DEADLOCK FALSE
