CONSTANTS
    SCR_LINES = 2
    LINE_WIDTH = 2
    VRAM = 9
    ClockRoom = 2
    MaxInside = 1
    Chars <- MCChars
SPECIFICATION TermSpec
INVARIANTS
    InRam
PROPERTIES
    ShowsScreen
