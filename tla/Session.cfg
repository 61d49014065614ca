CONSTANTS
    NPROC = 5
    TERMS = 2
    NPIPES = 3
    Lines <- MCLines
    Data <- MCData
SPECIFICATION SessionSpec
INVARIANTS
    NoOwnWriter
    Joined
    OneSession
    NobodyForgotten
PROPERTIES
    LinesEnd
CHECK_DEADLOCK FALSE
