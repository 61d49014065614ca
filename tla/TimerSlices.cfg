CONSTANTS
    NPROC = 4
    Runs = "RUNNING"
    ProcBase <- MCProcBase
    TqBase <- MCTqBase
    UserEvents <- MCNone
    UserPids <- MCNone
    UserPris <- MCNone
    ExitValues <- MCExitValues
    Times <- MCNone
    MaxLate = 2
    NFORKS = 2
    SWITCH_TIME = 2
SPECIFICATION FairTimerSpec
PROPERTIES
    EveryoneRuns
    WaitersGoOn
