CONSTANTS
    a = a
    b = b
    cr = cr
    NPROC = 4
    Runs = "RUNNING"
    ProcBase <- MCProcBase
    UserEvents <- MCNone
    UserPids <- MCNone
    UserPris <- MCNone
    ExitValues <- MCExitValues
    BUFLEN = 2
    Chars <- MCChars
    LineEnds <- MCLineEnds
SPECIFICATION SerialSpec
INVARIANTS
    SemaphoresSound
    OneReader
    CharsInOrder
    CharsCounted
CHECK_DEADLOCK FALSE
