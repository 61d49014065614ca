CONSTANTS
    NPROC = 3
    Runs = "RUNNING"
    ProcBase <- MCProcBase
    UserEvents <- MCNone
    UserPids <- MCNone
    UserPris <- MCNone
    ExitValues <- MCNone
    PSIZE = 2
    NPIPES = 1
    NOFT = 2
    NFD = 2
    Bytes <- MCBytes
    MaxBytes = 3
    MaxCount = 2
    PipeBase <- MCPipeBase
SPECIFICATION PipeSpec
INVARIANTS
    RingsSound
PROPERTIES
    CarriesBytes
CHECK_DEADLOCK FALSE
