CONSTANTS
    NPROC = 5
    Runs = "RUNNING"
    ProcBase <- MCProcBase
    UserEvents = {}
    UserPids <- MCUserPids
    UserPris <- MCUserPris
    ExitValues <- MCExitValues
SPECIFICATION Spec
INVARIANTS
    TypeOK
    SchedulerFindsAProcess
    ListsMatchStatus
    ReadyQueueSorted
    IdleMeansHalt
    NprocCounts
    WaitersAreWoken
    ParentsLive
    NoParentCycle
    P1OutlivesAll
PROPERTIES
    RoundRobin
    KeepsPromise
CHECK_DEADLOCK FALSE
