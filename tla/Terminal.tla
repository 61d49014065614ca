------------------------------ MODULE Terminal ------------------------------
(***************************************************************************)
(* The display of 6-timer-interrupts: vid.c, and draw_clock and            *)
(* clear_clock of timer.c.  The screen is a window on the video RAM that   *)
(* moves down a line with every scroll, until it would leave the RAM and   *)
(* is copied back to its beginning.  Offsets are in words of a character   *)
(* and its colour, where the code counts bytes.                            *)
(*                                                                         *)
(* The unlock in set_VDC leaves interrupts on, so that the clock may tick  *)
(* in the middle of the next putc that the kernel does.  thandler then     *)
(* draws the clock and, when a timer expires, kwakeup prints: putc and     *)
(* scroll run inside the putc or scroll that is interrupted, on the same   *)
(* row, column, org and offset.  A tick that finds a program running       *)
(* prints as well, with putcs like any other.  No tick comes inside one    *)
(* that prints, because it has not yet sent its EOI.                       *)
(*                                                                         *)
(* putc is cut between its statements, except that a test is one step with *)
(* what it assigns first, the two statements that compute a place on the   *)
(* screen are one, and so are clear_clock and draw_clock with what follows *)
(* them.                                                                   *)
(***************************************************************************)
EXTENDS Integers

CONSTANTS SCR_LINES, LINE_WIDTH,    \* 25 lines of 80 characters
          VRAM,                     \* words of video RAM, vid_mask + 1 bytes: more
                                    \* than the screen and one to copy it to
          ClockRoom,                \* the clock begins that far from the right
          Chars,                    \* visible characters
          MaxInside                 \* bound: ticks that print inside a putc

ASSUME TerminalAssumption ==
    /\ SCR_LINES \in Nat /\ SCR_LINES >= 2
    /\ LINE_WIDTH \in Nat /\ LINE_WIDTH >= 2 /\ ClockRoom \in 1 .. LINE_WIDTH
    /\ VRAM \in Nat /\ MaxInside \in Nat
    /\ Chars \cap {"NUL", "newline"} = {}

ASSUME TwoScreens == VRAM > 2 * SCR_LINES * LINE_WIDTH

VARIABLES vram,                 \* the RAM, and a line of what follows it
          org, row, column,     \* the window's offset and the cursor in it
          offset,               \* the global one, which scroll uses
          VID_ORG, CURSOR,      \* the registers of the 6845
          at, c, place, i,      \* where putc is, "idle" when it is not called, and
                                \* its character, the offset it has computed and
                                \* the counter of scroll's loops
          saved,                \* these of the putc that a tick prints inside of
          inside                \* history: how many ticks did

termVars == <<vram, org, row, column, offset, VID_ORG, CURSOR, at, c, place, i,
              saved, inside>>

Screenful == SCR_LINES * LINE_WIDTH
Rest == (SCR_LINES - 1) * LINE_WIDTH

NoPutc == [at |-> "idle", c |-> "newline", place |-> 0, i |-> 0]

(* A screen of blanks; what the RAM holds beyond is not shown.               *)
vid_init ==
    /\ org = 0 /\ row = 0 /\ column = 0 /\ offset = 0
    /\ VID_ORG = 0 /\ CURSOR = 0
    /\ vram = [x \in 0 .. VRAM + LINE_WIDTH - 1 |->
                  IF x < Screenful THEN "blank" ELSE IF x < VRAM THEN "clock" ELSE "beyond"]
    /\ at = "idle" /\ c = "newline" /\ place = 0 /\ i = 0
    /\ saved = NoPutc /\ inside = 0

-----------------------------------------------------------------------------
(* The clock's nine characters, at the right of the last line but one.       *)
Clock(o) ==
    LET first == o + (SCR_LINES - 1) * LINE_WIDTH - ClockRoom
    IN  first .. first + ClockRoom - 2

draw_clock(o, m) == [x \in DOMAIN m |-> IF x \in Clock(o) THEN "clock" ELSE m[x]]
clear_clock(o, m) == [x \in DOMAIN m |-> IF x \in Clock(o) THEN "wiped" ELSE m[x]]

Interrupted == saved.at # "idle"

(* thandler at a second in which it prints nothing.                          *)
Tick ==
    /\ ~Interrupted
    /\ vram' = draw_clock(org, vram)
    /\ UNCHANGED <<org, row, column, offset, VID_ORG, CURSOR, at, c, place, i,
                   saved, inside>>

(* thandler at a second in which kwakeup prints, in the middle of a putc of  *)
(* the kernel,                                                               *)
TickPrints ==
    /\ ~Interrupted /\ at # "idle" /\ inside < MaxInside
    /\ vram' = draw_clock(org, vram)
    /\ saved' = [at |-> at, c |-> c, place |-> place, i |-> i]
    /\ at' = "idle" /\ inside' = inside + 1
    /\ UNCHANGED <<org, row, column, offset, VID_ORG, CURSOR, c, place, i>>

(* and its return, when it has printed what it prints.                       *)
TickReturns ==
    /\ Interrupted /\ at = "idle"
    /\ at' = saved.at /\ c' = saved.c /\ place' = saved.place /\ i' = saved.i
    /\ saved' = NoPutc
    /\ UNCHANGED <<vram, org, row, column, offset, VID_ORG, CURSOR, inside>>

-----------------------------------------------------------------------------
(* putc goes on at its next statement.                                       *)
GoesTo(next) == at' = next /\ UNCHANGED <<saved, inside>>

Here == (org + row * LINE_WIDTH + column) % VRAM

(* A visible character: its place, its word, and one column on.              *)
Begin(char) ==
    /\ at = "idle" /\ GoesTo("write")
    /\ c' = char /\ place' = Here
    /\ UNCHANGED <<vram, org, row, column, offset, VID_ORG, CURSOR, i>>

WriteWord ==
    /\ at = "write" /\ GoesTo("advance")
    /\ vram' = [vram EXCEPT ![place] = c]
    /\ UNCHANGED <<org, row, column, offset, VID_ORG, CURSOR, c, place, i>>

Advance ==
    /\ at = "advance" /\ GoesTo("wrap")
    /\ column' = column + 1
    /\ UNCHANGED <<vram, org, row, offset, VID_ORG, CURSOR, c, place, i>>

Wraps ==
    /\ at = "wrap"
    /\ IF column >= LINE_WIDTH
       THEN column' = 0 /\ GoesTo("nextrow")
       ELSE UNCHANGED column /\ GoesTo("cursor")
    /\ UNCHANGED <<vram, org, row, offset, VID_ORG, CURSOR, c, place, i>>

putc_newline ==
    /\ at = "idle" /\ GoesTo("nextrow")
    /\ c' = "newline"
    /\ UNCHANGED <<vram, org, row, column, offset, VID_ORG, CURSOR, place, i>>

NextRow ==
    /\ at = "nextrow" /\ GoesTo("down")
    /\ row' = row + 1
    /\ UNCHANGED <<vram, org, column, offset, VID_ORG, CURSOR, c, place, i>>

Down ==
    /\ at = "down"
    /\ IF row >= SCR_LINES
       THEN row' = SCR_LINES - 1 /\ GoesTo("scroll")
       ELSE UNCHANGED row /\ GoesTo("cursor")
    /\ UNCHANGED <<vram, org, column, offset, VID_ORG, CURSOR, c, place, i>>

putc_return ==
    /\ at = "idle" /\ GoesTo("cursor")
    /\ column' = 0
    /\ UNCHANGED <<vram, org, row, offset, VID_ORG, CURSOR, c, place, i>>

(* Only programs print backspaces, one per system call, whose putc comes to  *)
(* its end before the unlock.                                                *)
putc_backspace ==
    /\ at = "idle" /\ ~Interrupted /\ column > 0
    /\ column' = column - 1
    /\ LET before == (org + row * LINE_WIDTH + column - 1) % VRAM
       IN  vram' = [vram EXCEPT ![before] = "blank"] /\ CURSOR' = before
    /\ UNCHANGED <<org, row, offset, VID_ORG, at, c, place, i, saved, inside>>

(* set_VDC(CURSOR, ...), whose arguments are computed before its lock.       *)
PlaceCursor ==
    /\ at = "cursor" /\ GoesTo("set_CURSOR")
    /\ place' = Here
    /\ UNCHANGED <<vram, org, row, column, offset, VID_ORG, CURSOR, c, i>>

SetCursor ==
    /\ at = "set_CURSOR" /\ GoesTo("idle")
    /\ CURSOR' = place
    /\ c' = NoPutc.c /\ place' = NoPutc.place /\ i' = NoPutc.i
    /\ UNCHANGED <<vram, org, row, column, offset, VID_ORG>>

-----------------------------------------------------------------------------
(* Slip: the room for the line to come is forgotten.                         *)
OneMore_screenOnly == org + Screenful

(* scroll: "org + ONE screen + ONE more line".                               *)
OneMore == org + Screenful + LINE_WIDTH

Scroll ==
    /\ at = "scroll" /\ GoesTo("fits")
    /\ vram' = clear_clock(org, vram)
    /\ offset' = OneMore
    /\ UNCHANGED <<org, row, column, VID_ORG, CURSOR, c, place, i>>

Fits ==
    /\ at = "fits"
    /\ IF offset < VRAM
       THEN UNCHANGED i /\ GoesTo("move")
       ELSE i' = 0 /\ GoesTo("copy")
    /\ UNCHANGED <<vram, org, row, column, offset, VID_ORG, CURSOR, c, place>>

MoveDown ==
    /\ at = "move" /\ GoesTo("row24")
    /\ org' = org + LINE_WIDTH
    /\ UNCHANGED <<vram, row, column, offset, VID_ORG, CURSOR, c, place, i>>

(* Slip: the copying begins with the line that is to go.                     *)
Source_firstLine == org + i

Source == org + LINE_WIDTH + i

CopyWord ==
    /\ at = "copy" /\ i < Rest
    /\ vram' = [vram EXCEPT ![i] = vram[Source]]
    /\ i' = i + 1
    /\ GoesTo("copy")
    /\ UNCHANGED <<org, row, column, offset, VID_ORG, CURSOR, c, place>>

CopyEnds ==
    /\ at = "copy" /\ i = Rest /\ GoesTo("row24")
    /\ org' = 0
    /\ UNCHANGED <<vram, row, column, offset, VID_ORG, CURSOR, c, place, i>>

(* The last line is opened with NULs, word by word at the global offset.     *)
Row24 ==
    /\ at = "row24" /\ GoesTo("blank")
    /\ offset' = org + Rest /\ i' = 0
    /\ UNCHANGED <<vram, org, row, column, VID_ORG, CURSOR, c, place>>

BlankWord ==
    /\ at = "blank" /\ i < LINE_WIDTH
    /\ vram' = [vram EXCEPT ![offset + i] = "NUL"]
    /\ i' = i + 1
    /\ GoesTo("blank")
    /\ UNCHANGED <<org, row, column, offset, VID_ORG, CURSOR, c, place>>

(* set_VDC(VID_ORG, org >> 1), its argument computed first.                  *)
BlankEnds ==
    /\ at = "blank" /\ i = LINE_WIDTH /\ GoesTo("set_VID_ORG")
    /\ vram' = draw_clock(org, vram)
    /\ place' = org
    /\ UNCHANGED <<org, row, column, offset, VID_ORG, CURSOR, c, i>>

SetVidOrg ==
    /\ at = "set_VID_ORG" /\ GoesTo("cursor")
    /\ VID_ORG' = place
    /\ UNCHANGED <<vram, org, row, column, offset, CURSOR, c, place, i>>

scroll ==
    \/ Scroll \/ Fits \/ MoveDown \/ CopyWord \/ CopyEnds
    \/ Row24 \/ BlankWord \/ BlankEnds \/ SetVidOrg

putc ==
    \/ \E char \in Chars : Begin(char)
    \/ putc_newline \/ putc_return \/ putc_backspace
    \/ WriteWord \/ Advance \/ Wraps \/ NextRow \/ Down
    \/ PlaceCursor \/ SetCursor

TermNext == Tick \/ TickPrints \/ TickReturns \/ putc \/ scroll

TermSpec == vid_init /\ [][TermNext]_termVars

-----------------------------------------------------------------------------
Cells == Chars \cup {"blank", "NUL", "clock", "wiped", "beyond"}

Statements == {"idle", "write", "advance", "wrap", "nextrow", "down", "scroll",
               "fits", "move", "copy", "row24", "blank", "set_VID_ORG",
               "cursor", "set_CURSOR"}

Putcs == [at : Statements, c : Chars \cup {"newline"}, place : 0 .. VRAM + LINE_WIDTH - 1,
          i : 0 .. Screenful]

TermTypeOK ==
    /\ DOMAIN vram = 0 .. VRAM + LINE_WIDTH - 1
    /\ \A x \in DOMAIN vram : vram[x] \in Cells
    /\ [at |-> at, c |-> c, place |-> place, i |-> i] \in Putcs /\ saved \in Putcs
    /\ org \in Nat /\ row \in Nat /\ column \in Nat /\ offset \in Nat
    /\ VID_ORG \in DOMAIN vram /\ CURSOR \in DOMAIN vram
    /\ inside \in Nat

(* How many putcs have counted on and not yet tested.                        *)
Ahead(statement) == (IF at = statement THEN 1 ELSE 0) + (IF saved.at = statement THEN 1 ELSE 0)

(* scroll writes without the mask that putc applies.  The window and the     *)
(* line that opens it lie in the video RAM as long as no tick has printed in *)
(* the middle of a putc; when one has, the last line may follow the RAM, but *)
(* no write goes further, whatever org and offset the two scrolls leave each *)
(* other, and row and column come back into the screen.                      *)
InRam ==
    /\ TermTypeOK
    /\ org % LINE_WIDTH = 0 /\ org + Screenful < VRAM + LINE_WIDTH
    /\ row < SCR_LINES + Ahead("down") /\ column < LINE_WIDTH + Ahead("wrap")
    /\ at = "write" => place < VRAM
    /\ at = "blank" => offset < VRAM
    /\ inside > 0 \/ /\ org + Screenful < VRAM
                     /\ \A x \in VRAM .. VRAM + LINE_WIDTH - 1 : vram[x] = "beyond"

(* What the 6845 shows: blanks and NULs look alike, and in the columns that  *)
(* the clock passes through nothing is promised.                             *)
TextColumns == 0 .. LINE_WIDTH - 1 - ClockRoom \cup {LINE_WIDTH - 1}

Seen(cell) == IF cell = "NUL" THEN "blank" ELSE cell

Text == [spot \in (0 .. SCR_LINES - 1) \X TextColumns |->
            Seen(vram[VID_ORG + spot[1] * LINE_WIDTH + spot[2]])]

(* The cursor that the 6845 shows, or where putc has got to: the end of the  *)
(* line is a column of its own until the next line begins.                   *)
EndsLine == at \in {"nextrow", "down", "scroll", "fits", "move", "copy", "row24", "blank",
                    "set_VID_ORG"} /\ c # "newline"

Cursor ==
    IF at = "idle"
    THEN [line |-> (CURSOR - VID_ORG) \div LINE_WIDTH, column |-> (CURSOR - VID_ORG) % LINE_WIDTH]
    ELSE [line |-> IF at = "down" THEN row - 1 ELSE row,
          column |-> IF EndsLine THEN LINE_WIDTH
                     ELSE IF at = "advance" THEN column + 1 ELSE column]

Display == INSTANCE Screen WITH
    Lines <- SCR_LINES, Width <- LINE_WIDTH, Columns <- TextColumns,
    text <- Text, cursor <- Cursor

(* What the display shows of text changes only as a screen's text does,      *)
(* never in the middle of a scroll, whether the window is moved or copied    *)
(* back and whenever the clock ticks: putc implements Screen, as long as no  *)
(* tick has printed in the middle of a putc.                                 *)
ShowsScreen ==
    Display!ScreenInit /\ [][inside' > 0 \/ Display!ScreenNext]_<<Text, Cursor>>
=============================================================================
