CONSTANTS
    NPROC = 4
    Runs = "RUNNING"
    ProcBase <- MCProcBase
    TqBase <- MCTqBase
    UserEvents <- MCNone
    UserPids <- MCNone
    UserPris <- MCNone
    ExitValues <- MCNone
    Times <- MCTimes
    MaxLate = 2
    NFORKS = 3
    SWITCH_TIME = 2
SPECIFICATION TimerSpec
INVARIANTS
    SleeperHasTimer
CHECK_DEADLOCK FALSE
