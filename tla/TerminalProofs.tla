--------------------------- MODULE TerminalProofs ---------------------------
(***************************************************************************)
(* What holds of the display of 6-timer-interrupts for every size of the   *)
(* screen and of the video RAM.  Wherever the clock's ticks print, no      *)
(* write goes further than the line that follows the RAM, and row and      *)
(* column come back into the screen.  Until one has printed in the middle  *)
(* of a putc, every write lies in the RAM and what is shown is a screen of *)
(* text whose lines move up.                                               *)
(***************************************************************************)
EXTENDS Terminal, TLAPS

USE TerminalAssumption

-----------------------------------------------------------------------------
(* The word of a screen at the line r and the column col of it.                *)
Word(r, col) == r * LINE_WIDTH + col

Rows == 0 .. SCR_LINES - 1
Cols == 0 .. LINE_WIDTH - 1

(* A later line begins a line's length or more further on.                   *)
LEMMA LinesApart ==
  ASSUME NEW r \in Int, NEW s \in Int, r < s
  PROVE  r * LINE_WIDTH + LINE_WIDTH <= s * LINE_WIDTH
<1>1. PICK d \in Nat : s = r + 1 + d
  <2>1. s - r - 1 \in Nat /\ s = r + 1 + (s - r - 1)
    OBVIOUS
  <2> QED
    BY <2>1
<1>2. s * LINE_WIDTH = r * LINE_WIDTH + LINE_WIDTH + d * LINE_WIDTH
  BY <1>1
<1>3. d * LINE_WIDTH >= 0
  BY <1>1
<1> QED
  BY <1>2, <1>3

(* The words of the first n lines are those short of n times the width.      *)
LEMMA WordInside ==
  ASSUME NEW n \in Nat, NEW r \in 0 .. n - 1, NEW col \in Cols
  PROVE  /\ Word(r, col) \in Nat
         /\ Word(r, col) < n * LINE_WIDTH
         /\ r * LINE_WIDTH \in Nat
<1>1. r \in Int /\ n \in Int /\ r < n /\ r \in Nat
  OBVIOUS
<1>2. r * LINE_WIDTH + LINE_WIDTH <= n * LINE_WIDTH
  BY <1>1, LinesApart
<1>3. r * LINE_WIDTH \in Nat /\ n * LINE_WIDTH \in Nat
  BY <1>1
<1> QED
  BY <1>2, <1>3 DEF Word, Cols

(* Different places are different words.                                     *)
LEMMA WordUnique ==
  ASSUME NEW r \in Int, NEW s \in Int, NEW col \in Cols, NEW d \in Cols,
         Word(r, col) = Word(s, d)
  PROVE  r = s /\ col = d
<1>1. r * LINE_WIDTH \in Int /\ s * LINE_WIDTH \in Int
  OBVIOUS
<1>2. ~(r < s)
  <2> SUFFICES ASSUME r < s PROVE FALSE
    OBVIOUS
  <2>1. r * LINE_WIDTH + LINE_WIDTH <= s * LINE_WIDTH
    BY LinesApart
  <2> QED
    BY <1>1, <2>1 DEF Word, Cols
<1>3. ~(s < r)
  <2> SUFFICES ASSUME s < r PROVE FALSE
    OBVIOUS
  <2>1. s * LINE_WIDTH + LINE_WIDTH <= r * LINE_WIDTH
    BY LinesApart
  <2> QED
    BY <1>1, <2>1 DEF Word, Cols
<1>4. r = s
  BY <1>2, <1>3
<1> QED
  BY <1>1, <1>4 DEF Word, Cols

(* A word tells its line and its column.                                     *)
LEMMA WordTells ==
  ASSUME NEW r \in Int, NEW col \in Cols
  PROVE  /\ Word(r, col) \div LINE_WIDTH = r
         /\ Word(r, col) % LINE_WIDTH = col
<1>1. PICK x \in Int : x = Word(r, col)
  BY DEF Word, Cols
<1>2. PICK k \in Int, m \in Int : k = x \div LINE_WIDTH /\ m = x % LINE_WIDTH
  OBVIOUS
<1>3. m \in Cols /\ x = Word(k, m)
  BY <1>2 DEF Word, Cols
<1>4. Word(r, col) = Word(k, m) /\ r \in Int /\ k \in Int /\ col \in Cols /\ m \in Cols
  BY <1>1, <1>3
<1>5. k = r /\ m = col
  BY <1>4, WordUnique
<1> QED
  BY <1>1, <1>2, <1>5

(* The width of a screen, and of a screen without its last line.             *)
LEMMA ScreenSizes ==
  /\ Screenful = SCR_LINES * LINE_WIDTH /\ Screenful \in Nat
  /\ Rest = Screenful - LINE_WIDTH /\ Rest \in Nat /\ Rest >= LINE_WIDTH
  /\ VRAM > Screenful + Screenful
<1>1. SCR_LINES * LINE_WIDTH \in Nat
  OBVIOUS
<1>2. (SCR_LINES - 1) * LINE_WIDTH = SCR_LINES * LINE_WIDTH - LINE_WIDTH
  OBVIOUS
<1>3. 1 * LINE_WIDTH + LINE_WIDTH <= SCR_LINES * LINE_WIDTH
  <2>1. CASE 1 < SCR_LINES
    BY <2>1, LinesApart
  <2> QED
    BY <2>1
<1>4. 2 * SCR_LINES * LINE_WIDTH = SCR_LINES * LINE_WIDTH + SCR_LINES * LINE_WIDTH
  OBVIOUS
<1>5. PICK n \in Nat : n = SCR_LINES * LINE_WIDTH
  BY <1>1
<1>6. Screenful = n /\ Rest = n - LINE_WIDTH
  BY <1>2, <1>5 DEF Screenful, Rest
<1>7. 2 * LINE_WIDTH <= n
  BY <1>3, <1>5
<1>8. VRAM > n + n
  BY <1>4, <1>5, TwoScreens
<1> QED
  BY <1>5, <1>6, <1>7, <1>8

(* Sizes do not change.                                                      *)
LEMMA SizesStay == Screenful' = Screenful /\ Rest' = Rest
  BY DEF Screenful, Rest

(* An offset without a remainder is a number of lines.                       *)
LEMMA WholeLines ==
  ASSUME NEW o \in Nat, o % LINE_WIDTH = 0
  PROVE  \E k \in Nat : o = k * LINE_WIDTH
<1>1. PICK k \in Int, m \in Int : k = o \div LINE_WIDTH /\ m = o % LINE_WIDTH
  OBVIOUS
<1>2. o = LINE_WIDTH * k + m
  BY <1>1
<1>3. m = 0
  BY <1>1
<1>4. LINE_WIDTH * k = k * LINE_WIDTH
  OBVIOUS
<1>5. k \in Nat
  BY <1>1
<1>6. PICK p \in Int : p = k * LINE_WIDTH
  OBVIOUS
<1>7. o = p
  BY <1>2, <1>3, <1>4, <1>6
<1> QED
  BY <1>5, <1>6, <1>7

(* The window stays at the beginning of a line.                              *)
LEMMA WindowMoves ==
  ASSUME NEW o \in Nat, o % LINE_WIDTH = 0
  PROVE  (o + LINE_WIDTH) % LINE_WIDTH = 0
<1>1. PICK k \in Nat : o = k * LINE_WIDTH
  BY WholeLines
<1>2. o + LINE_WIDTH = Word(k + 1, 0) /\ 0 \in Cols /\ k + 1 \in Int
  <2>1. (k + 1) * LINE_WIDTH = k * LINE_WIDTH + LINE_WIDTH
    OBVIOUS
  <2>2. PICK n \in Int : n = (k + 1) * LINE_WIDTH
    OBVIOUS
  <2>3. Word(k + 1, 0) = n
    BY <2>2 DEF Word
  <2> QED
    BY <1>1, <2>1, <2>2, <2>3 DEF Cols
<1>3. Word(k + 1, 0) % LINE_WIDTH = 0
  BY <1>2, WordTells
<1> QED
  BY <1>2, <1>3

(* Where the window can no longer move down, it is past a screen that begins *)
(* the RAM.                                                                  *)
LEMMA RoomBefore ==
  ASSUME NEW o \in Nat, o % LINE_WIDTH = 0, o + Screenful + LINE_WIDTH >= VRAM
  PROVE  Screenful <= o
<1>1. PICK k \in Nat : o = k * LINE_WIDTH
  BY WholeLines
<1>2. PICK n \in Nat : n = Screenful /\ n = SCR_LINES * LINE_WIDTH /\ VRAM > n + n
  BY ScreenSizes
<1>3. o + LINE_WIDTH > n
  BY <1>2
<1>4. ~(k < SCR_LINES)
  <2> SUFFICES ASSUME k < SCR_LINES PROVE FALSE
    OBVIOUS
  <2>1. k * LINE_WIDTH + LINE_WIDTH <= SCR_LINES * LINE_WIDTH
    BY LinesApart
  <2> QED
    BY <1>1, <1>2, <1>3, <2>1
<1>5. CASE k = SCR_LINES
  BY <1>1, <1>2, <1>5
<1>6. CASE SCR_LINES < k
  <2>1. SCR_LINES * LINE_WIDTH + LINE_WIDTH <= k * LINE_WIDTH
    BY <1>6, LinesApart
  <2> QED
    BY <1>1, <1>2, <2>1
<1> QED
  BY <1>4, <1>5, <1>6

-----------------------------------------------------------------------------
(* The clock is drawn beside the columns of text, of whatever window.        *)
LEMMA ClockAside ==
  ASSUME NEW o \in Nat, o % LINE_WIDTH = 0, NEW v \in Nat, v % LINE_WIDTH = 0,
         NEW r \in Int, NEW col \in TextColumns
  PROVE  v + Word(r, col) \notin Clock(o)
<1> SUFFICES ASSUME v + Word(r, col) \in Clock(o) PROVE FALSE
  OBVIOUS
<1>1. PICK k \in Nat : o = k * LINE_WIDTH
  BY WholeLines
<1>2. PICK j \in Nat : v = j * LINE_WIDTH
  BY WholeLines
<1>3. col \in Cols /\ (col < LINE_WIDTH - ClockRoom \/ col = LINE_WIDTH - 1)
  BY DEF TextColumns, Cols
<1>4. PICK x \in Int : x = v + Word(r, col)
  BY <1>3 DEF Word, Cols
<1>5. x = Word(r + j, col)
  <2>1. (r + j) * LINE_WIDTH = r * LINE_WIDTH + j * LINE_WIDTH
    OBVIOUS
  <2>2. PICK a \in Int, b \in Int : a = r * LINE_WIDTH /\ b = j * LINE_WIDTH
    OBVIOUS
  <2>3. Word(r + j, col) = a + b + col
    BY <2>1, <2>2 DEF Word
  <2>4. x = b + (a + col)
    BY <1>2, <1>4, <2>2 DEF Word
  <2> QED
    BY <1>3, <2>2, <2>3, <2>4 DEF Cols
<1>6. PICK s \in Int : s = (k + SCR_LINES - 2) * LINE_WIDTH
  OBVIOUS
<1>7. o + (SCR_LINES - 1) * LINE_WIDTH = s + LINE_WIDTH
  <2>1. (k + SCR_LINES - 2) * LINE_WIDTH
          = k * LINE_WIDTH + (SCR_LINES - 1) * LINE_WIDTH - LINE_WIDTH
    OBVIOUS
  <2>2. PICK a \in Int, b \in Int : a = k * LINE_WIDTH /\ b = (SCR_LINES - 1) * LINE_WIDTH
    OBVIOUS
  <2> QED
    BY <1>1, <1>6, <2>1, <2>2
<1>8. x \in s + LINE_WIDTH - ClockRoom .. s + LINE_WIDTH - 2
  <2>1. PICK f \in Int : f = o + (SCR_LINES - 1) * LINE_WIDTH - ClockRoom
    BY <1>6, <1>7
  <2>2. x \in f .. f + ClockRoom - 2
    BY <1>4, <2>1 DEF Clock
  <2>3. f = s + LINE_WIDTH - ClockRoom
    BY <1>7, <2>1
  <2> QED
    BY <2>2, <2>3
<1>9. PICK d \in Int : d = x - s
  OBVIOUS
<1>10. d \in Cols /\ d >= LINE_WIDTH - ClockRoom /\ d < LINE_WIDTH - 1
  BY <1>8, <1>9 DEF Cols
<1>11. Word(k + SCR_LINES - 2, d) = x
  BY <1>6, <1>9, <1>10 DEF Word
<1>12. PICK a \in Int, b \in Int : a = r + j /\ b = k + SCR_LINES - 2
  OBVIOUS
<1>13. Word(a, col) = Word(b, d)
  BY <1>5, <1>11, <1>12
<1>14. col = d
  BY <1>3, <1>10, <1>13, WordUnique
<1> QED
  BY <1>3, <1>10, <1>14 DEF Cols

(* The clock is drawn inside the window.                                     *)
LEMMA ClockInside ==
  ASSUME NEW o \in Int
  PROVE  \A x \in Clock(o) : x \in Int /\ o <= x /\ x < o + Screenful
<1>1. PICK s \in Nat : s = Rest
  BY ScreenSizes
<1>2. s >= LINE_WIDTH /\ Screenful = s + LINE_WIDTH
  BY <1>1, ScreenSizes
<1>3. Clock(o) = o + s - ClockRoom .. o + s - ClockRoom + ClockRoom - 2
  BY <1>1 DEF Clock, Rest
<1>4. PICK k \in Nat : k = ClockRoom /\ k <= LINE_WIDTH
  OBVIOUS
<1>5. PICK z \in Nat : z = Screenful /\ z = s + LINE_WIDTH
  BY <1>2
<1>6. SUFFICES ASSUME NEW x \in Clock(o) PROVE x \in Int /\ o <= x /\ x < o + z
  BY <1>5
<1>7. x \in o + s - k .. o + s - k + k - 2
  BY <1>3, <1>4
<1> QED
  BY <1>2, <1>4, <1>5, <1>7

-----------------------------------------------------------------------------
(* Contents of the video RAM and of the line that follows it.                *)
RamOK(m) == DOMAIN m = 0 .. VRAM + LINE_WIDTH - 1 /\ \A x \in DOMAIN m : m[x] \in Cells

(* A putc that is at the statement s, with the character ch, the offset p    *)
(* and the counter n.                                                        *)
FrameOK(s, ch, p, n) ==
    /\ s \in Statements /\ ch \in Chars \cup {"newline"}
    /\ p \in 0 .. VRAM + LINE_WIDTH - 1 /\ n \in 0 .. Screenful
    /\ s \in {"write", "advance", "wrap"} => ch \in Chars
    /\ s = "write" => p < VRAM
    /\ s = "copy" => n <= Rest
    /\ s = "blank" => n <= LINE_WIDTH

FramesOK ==
    /\ FrameOK(at, c, place, i)
    /\ saved \in Putcs /\ FrameOK(saved.at, saved.c, saved.place, saved.i)

WindowOK ==
    /\ org \in Nat /\ org % LINE_WIDTH = 0 /\ org + Screenful < VRAM + LINE_WIDTH
    /\ row \in Nat /\ row < SCR_LINES + Ahead("down")
    /\ column \in Nat /\ column < LINE_WIDTH + Ahead("wrap")

RegistersOK ==
    /\ VID_ORG \in 0 .. VRAM + LINE_WIDTH - 1
    /\ CURSOR \in 0 .. VRAM + LINE_WIDTH - 1
    /\ inside \in Nat /\ (inside = 0 => ~Interrupted)

(* What the scroll whose turn it is, and the one that it interrupts, have    *)
(* found out of offset and org.  That which nothing interrupts between the   *)
(* assignment of offset and the test knows more than the other.              *)
Fitting == offset < VRAM => org + Screenful < VRAM

OffsetOK ==
    /\ offset \in Nat
    /\ at = "fits" => Fitting
    /\ at = "move" => org + Screenful < VRAM
    /\ at = "blank" => offset < VRAM
    /\ saved.at = "fits" => Fitting /\ (at = "row24" => org + Screenful < VRAM)
    /\ saved.at = "move" => org + Screenful < VRAM
    /\ saved.at = "blank" => offset < VRAM \/ at \in {"fits", "move", "copy", "row24"}
    /\ Interrupted => /\ at = "fits" => offset = OneMore
                      /\ at = "move" => OneMore < VRAM

RamInv == RamOK(vram) /\ FramesOK /\ WindowOK /\ RegistersOK /\ OffsetOK

(* A place that putc computes is a word of the RAM.                          *)
LEMMA HereInRam ==
  ASSUME NEW o \in Nat, NEW r \in Nat, NEW q \in Int
  PROVE  (o + r * LINE_WIDTH + q) % VRAM \in 0 .. VRAM - 1
<1>1. PICK x \in Int : x = o + r * LINE_WIDTH + q
  <2>1. PICK z \in Int : z = r * LINE_WIDTH
    OBVIOUS
  <2> QED
    BY <2>1
<1>2. VRAM \in Nat /\ VRAM > 0
  BY ScreenSizes
<1>3. x % VRAM \in 0 .. VRAM - 1
  BY <1>2
<1> QED
  BY <1>1, <1>3

(* A screen of blanks satisfies the invariant.                               *)
LEMMA InitRam == vid_init => RamInv
<1> SUFFICES ASSUME vid_init PROVE RamInv
  OBVIOUS
<1>1. PICK n \in Nat : n = Screenful /\ VRAM > n + n
  BY ScreenSizes
<1>2. 0 % LINE_WIDTH = 0
  OBVIOUS
<1>3. NoPutc \in Putcs
  BY <1>1 DEF NoPutc, Putcs, Statements
<1>4. RamOK(vram)
  BY <1>1 DEF vid_init, RamOK, Cells
<1>5. FramesOK
  BY <1>1, <1>3 DEF vid_init, FramesOK, FrameOK, NoPutc, Statements
<1>6. WindowOK /\ RegistersOK
  BY <1>1, <1>2 DEF vid_init, WindowOK, RegistersOK, Ahead, Interrupted, NoPutc
<1>7. OffsetOK
  BY <1>1 DEF vid_init, OffsetOK, Interrupted, NoPutc
<1> QED
  BY <1>4, <1>5, <1>6, <1>7 DEF RamInv

(* The two putcs, and which of them goes on.                                 *)
LEMMA FramesStep ==
  ASSUME RamInv, TermNext
  PROVE  FramesOK'
<1>1. PICK n \in Nat : n = Screenful /\ Rest = n - LINE_WIDTH /\ Rest \in Nat /\ VRAM > n + n
  BY ScreenSizes
<1> USE SizesStay DEF RamInv, FramesOK
<1>2. CASE Tick
  BY <1>2 DEF Tick, FrameOK
<1>3. CASE TickPrints
  <2>1. saved' \in Putcs
    BY <1>3 DEF TickPrints, Putcs, FrameOK
  <2> QED
    BY <1>3, <2>1 DEF TickPrints, FrameOK, Statements
<1>4. CASE TickReturns
  <2>1. NoPutc \in Putcs
    BY <1>1 DEF NoPutc, Putcs, Statements
  <2>2. FrameOK(at', c', place', i')
    BY <1>4 DEF TickReturns
  <2>3. FrameOK(saved'.at, saved'.c, saved'.place, saved'.i)
    BY <1>1, <1>4 DEF TickReturns, NoPutc, FrameOK, Statements
  <2> QED
    BY <1>4, <2>1, <2>2, <2>3 DEF TickReturns, FrameOK
<1>5. ASSUME saved' = saved, FrameOK(at', c', place', i') PROVE FramesOK'
  BY <1>5 DEF FrameOK
<1>6. Here \in 0 .. VRAM - 1
  BY HereInRam DEF Here, WindowOK
<1>7. CASE putc
  <2>1. saved' = saved
    BY <1>7 DEF putc, Begin, putc_newline, putc_return, putc_backspace, WriteWord,
       Advance, Wraps, NextRow, Down, PlaceCursor, SetCursor, GoesTo
  <2>2. CASE \E char \in Chars : Begin(char)
    BY <1>6, <2>2 DEF Begin, GoesTo, FrameOK, Statements
  <2>3. CASE PlaceCursor
    BY <1>6, <2>3 DEF PlaceCursor, GoesTo, FrameOK, Statements
  <2>4. CASE SetCursor
    BY <1>1, <2>4 DEF SetCursor, GoesTo, FrameOK, Statements, NoPutc
  <2>5. CASE putc_newline
    BY <2>5 DEF putc_newline, GoesTo, FrameOK, Statements
  <2>6. CASE putc_return \/ putc_backspace
    BY <2>6 DEF putc_return, putc_backspace, GoesTo, FrameOK, Statements
  <2>7. CASE WriteWord \/ Advance \/ Wraps
    BY <2>7 DEF WriteWord, Advance, Wraps, GoesTo, FrameOK, Statements
  <2>8. CASE NextRow \/ Down
    BY <2>8 DEF NextRow, Down, GoesTo, FrameOK, Statements
  <2>9. FrameOK(at', c', place', i')
    BY <1>7, <2>2, <2>3, <2>4, <2>5, <2>6, <2>7, <2>8 DEF putc, FrameOK
  <2> QED
    BY <1>5, <2>1, <2>9
<1>8. CASE scroll
  <2>1. saved' = saved
    BY <1>8 DEF scroll, Scroll, Fits, MoveDown, CopyWord, CopyEnds, Row24, BlankWord,
       BlankEnds, SetVidOrg, GoesTo
  <2>2. CASE Scroll \/ Fits \/ MoveDown \/ CopyEnds
    BY <1>1, <2>2 DEF Scroll, Fits, MoveDown, CopyEnds, GoesTo, FrameOK, Statements
  <2>3. CASE CopyWord
    BY <1>1, <2>3 DEF CopyWord, GoesTo, FrameOK, Statements
  <2>4. CASE Row24 \/ BlankWord
    <3>1. LINE_WIDTH <= n
      BY <1>1
    <3> QED
      BY <1>1, <2>4, <3>1 DEF Row24, BlankWord, GoesTo, FrameOK, Statements
  <2>5. CASE BlankEnds
    <3>1. org \in 0 .. VRAM + LINE_WIDTH - 1
      BY <1>1 DEF WindowOK
    <3> QED
      BY <2>5, <3>1 DEF BlankEnds, GoesTo, FrameOK, Statements
  <2>6. CASE SetVidOrg
    BY <2>6 DEF SetVidOrg, GoesTo, FrameOK, Statements
  <2>7. FrameOK(at', c', place', i')
    BY <1>8, <2>2, <2>3, <2>4, <2>5, <2>6 DEF scroll, FrameOK
  <2> QED
    BY <1>5, <2>1, <2>7
<1> QED
  BY <1>2, <1>3, <1>4, <1>7, <1>8 DEF TermNext

(* Drawing and wiping the clock leave the RAM its size, and so does a word   *)
(* that lies inside.                                                         *)
LEMMA RamWrites ==
  ASSUME NEW m, RamOK(m), NEW o
  PROVE  /\ RamOK(draw_clock(o, m))
         /\ RamOK(clear_clock(o, m))
         /\ \A x \in 0 .. VRAM + LINE_WIDTH - 1, cell \in Cells : RamOK([m EXCEPT ![x] = cell])
  BY DEF RamOK, draw_clock, clear_clock, Cells

LEMMA RamStep ==
  ASSUME RamInv, TermNext
  PROVE  RamOK(vram')
<1>1. PICK n \in Nat : n = Screenful /\ Rest = n - LINE_WIDTH /\ VRAM > n + n
  BY ScreenSizes
<1> USE DEF RamInv
<1>2. CASE Tick \/ TickPrints \/ Scroll \/ BlankEnds
  BY <1>2, RamWrites DEF Tick, TickPrints, Scroll, BlankEnds
<1>3. CASE WriteWord
  <2>1. place \in 0 .. VRAM + LINE_WIDTH - 1 /\ c \in Cells
    BY <1>3 DEF WriteWord, FramesOK, FrameOK, Cells
  <2> QED
    BY <1>3, <2>1, RamWrites DEF WriteWord
<1>4. CASE putc_backspace
  <2>1. PICK q \in Int : q = column - 1
    BY DEF WindowOK
  <2>2. PICK z \in Int : z = row * LINE_WIDTH
    BY DEF WindowOK
  <2>3. org + row * LINE_WIDTH + column - 1 = org + row * LINE_WIDTH + q
    BY <2>1, <2>2 DEF WindowOK
  <2>4. PICK x \in 0 .. VRAM - 1 : x = (org + row * LINE_WIDTH + column - 1) % VRAM
    BY <2>3, HereInRam DEF WindowOK
  <2>5. x \in 0 .. VRAM + LINE_WIDTH - 1 /\ "blank" \in Cells
    BY DEF Cells
  <2>6. vram' = [vram EXCEPT ![x] = "blank"]
    BY <1>4, <2>4 DEF putc_backspace
  <2> QED
    BY <2>5, <2>6, RamWrites
<1>5. CASE CopyWord
  <2>1. i \in Nat /\ i < Rest
    BY <1>5 DEF CopyWord, FramesOK, FrameOK
  <2>2. i \in 0 .. VRAM + LINE_WIDTH - 1 /\ Source \in 0 .. VRAM + LINE_WIDTH - 1
    BY <1>1, <2>1 DEF WindowOK, Source
  <2>3. vram[Source] \in Cells
    BY <2>2 DEF RamOK
  <2> QED
    BY <1>5, <2>2, <2>3, RamWrites DEF CopyWord
<1>6. CASE BlankWord
  <2>1. i \in Nat /\ i < LINE_WIDTH /\ offset \in Nat /\ offset < VRAM
    BY <1>6 DEF BlankWord, FramesOK, FrameOK, OffsetOK
  <2>2. offset + i \in 0 .. VRAM + LINE_WIDTH - 1 /\ "NUL" \in Cells
    BY <2>1 DEF Cells
  <2> QED
    BY <1>6, <2>2, RamWrites DEF BlankWord
<1>7. CASE vram' = vram
  BY <1>7
<1>8. CASE putc /\ ~WriteWord /\ ~putc_backspace
  BY <1>7, <1>8 DEF putc, Begin, putc_newline, putc_return, Advance, Wraps, NextRow, Down,
     PlaceCursor, SetCursor
<1>9. CASE scroll /\ ~Scroll /\ ~CopyWord /\ ~BlankWord /\ ~BlankEnds
  BY <1>7, <1>9 DEF scroll, Fits, MoveDown, CopyEnds, Row24, SetVidOrg
<1>10. CASE TickReturns
  BY <1>7, <1>10 DEF TickReturns
<1> QED
  BY <1>2, <1>3, <1>4, <1>5, <1>6, <1>8, <1>9, <1>10 DEF TermNext

(* The window, and the row and the column of both putcs.                     *)
LEMMA WindowStep ==
  ASSUME RamInv, TermNext
  PROVE  WindowOK'
<1>1. PICK n \in Nat : n = Screenful /\ VRAM > n + n
  BY ScreenSizes
<1> USE SizesStay DEF RamInv, WindowOK
<1>2. CASE Tick
  BY <1>2 DEF Tick, Ahead
<1>3. CASE TickPrints
  BY <1>3 DEF TickPrints, Ahead, Interrupted
<1>4. CASE TickReturns
  BY <1>4 DEF TickReturns, Ahead, Interrupted, NoPutc
<1>5. CASE putc
  <2>1. CASE \E char \in Chars : Begin(char)
    BY <2>1 DEF Begin, GoesTo, Ahead
  <2>2. CASE putc_newline \/ WriteWord \/ PlaceCursor \/ SetCursor
    BY <2>2 DEF putc_newline, WriteWord, PlaceCursor, SetCursor, GoesTo, Ahead
  <2>3. CASE putc_return \/ putc_backspace
    BY <2>3 DEF putc_return, putc_backspace, GoesTo, Ahead
  <2>4. CASE Advance
    BY <2>4 DEF Advance, GoesTo, Ahead
  <2>5. CASE Wraps
    BY <2>5 DEF Wraps, GoesTo, Ahead
  <2>6. CASE NextRow
    BY <2>6 DEF NextRow, GoesTo, Ahead
  <2>7. CASE Down
    BY <2>7 DEF Down, GoesTo, Ahead
  <2> QED
    BY <1>5, <2>1, <2>2, <2>3, <2>4, <2>5, <2>6, <2>7 DEF putc
<1>6. CASE scroll
  <2>1. /\ row' = row /\ column' = column
        /\ at \notin {"down", "wrap"} /\ at' \notin {"down", "wrap"} /\ saved' = saved
    BY <1>6 DEF scroll, Scroll, Fits, MoveDown, CopyWord, CopyEnds, Row24, BlankWord,
       BlankEnds, SetVidOrg, GoesTo
  <2>2. /\ row' \in Nat /\ row' < SCR_LINES + Ahead("down")'
        /\ column' \in Nat /\ column' < LINE_WIDTH + Ahead("wrap")'
    BY <2>1 DEF Ahead
  <2>3. CASE MoveDown
    <3>1. org + n < VRAM /\ org' = org + LINE_WIDTH
      BY <1>1, <2>3 DEF MoveDown, OffsetOK
    <3>2. org' \in Nat /\ org' + n < VRAM + LINE_WIDTH
      BY <3>1
    <3>3. org' % LINE_WIDTH = 0
      BY <3>1, WindowMoves
    <3> QED
      BY <1>1, <2>2, <3>2, <3>3
  <2>4. CASE CopyEnds
    <3>1. 0 % LINE_WIDTH = 0
      OBVIOUS
    <3> QED
      BY <1>1, <2>2, <2>4, <3>1 DEF CopyEnds
  <2>5. CASE org' = org
    BY <2>2, <2>5
  <2> QED
    BY <1>6, <2>3, <2>4, <2>5 DEF scroll, Scroll, Fits, CopyWord, Row24, BlankWord,
       BlankEnds, SetVidOrg
<1> QED
  BY <1>2, <1>3, <1>4, <1>5, <1>6 DEF TermNext

LEMMA RegistersStep ==
  ASSUME RamInv, TermNext
  PROVE  RegistersOK'
<1> USE DEF RamInv, RegistersOK
<1>1. CASE Tick \/ TickPrints \/ TickReturns
  BY <1>1 DEF Tick, TickPrints, TickReturns, Interrupted, NoPutc
<1>2. place \in 0 .. VRAM + LINE_WIDTH - 1
  BY DEF FramesOK, FrameOK
<1>3. CASE putc_backspace
  <2>1. PICK q \in Int : q = column - 1
    BY DEF WindowOK
  <2>2. PICK z \in Int : z = row * LINE_WIDTH
    BY DEF WindowOK
  <2>3. org + row * LINE_WIDTH + column - 1 = org + row * LINE_WIDTH + q
    BY <2>1, <2>2 DEF WindowOK
  <2>4. PICK x \in 0 .. VRAM - 1 : x = (org + row * LINE_WIDTH + column - 1) % VRAM
    BY <2>3, HereInRam DEF WindowOK
  <2>5. CURSOR' = x
    BY <1>3, <2>4 DEF putc_backspace
  <2> QED
    BY <1>3, <2>5 DEF putc_backspace, Interrupted
<1>4. CASE putc /\ ~putc_backspace
  BY <1>2, <1>4 DEF putc, Begin, putc_newline, putc_return, WriteWord, Advance, Wraps,
     NextRow, Down, PlaceCursor, SetCursor, GoesTo, Interrupted
<1>5. CASE scroll
  BY <1>2, <1>5 DEF scroll, Scroll, Fits, MoveDown, CopyWord, CopyEnds, Row24, BlankWord,
     BlankEnds, SetVidOrg, GoesTo, Interrupted
<1> QED
  BY <1>1, <1>3, <1>4, <1>5 DEF TermNext

(* What the scrolls know of org and offset.                                  *)
LEMMA OffsetStep ==
  ASSUME RamInv, TermNext
  PROVE  OffsetOK'
<1>1. PICK n \in Nat : /\ n = Screenful /\ Rest = n - LINE_WIDTH /\ Rest \in Nat /\ VRAM > n + n
                       /\ OneMore = org + n + LINE_WIDTH /\ OneMore' = org' + n + LINE_WIDTH
  BY ScreenSizes, SizesStay DEF OneMore
<1>2. Screenful' = n
  BY <1>1, SizesStay
<1>3. /\ org \in Nat /\ org + n < VRAM + LINE_WIDTH /\ OffsetOK
      /\ Fitting <=> (offset < VRAM => org + n < VRAM)
      /\ Fitting' <=> (offset' < VRAM => org' + n < VRAM)
  BY <1>1, <1>2 DEF RamInv, WindowOK, Fitting
<1> USE DEF OffsetOK
<1>4. CASE Tick
  BY <1>1, <1>2, <1>3, <1>4 DEF Tick, Interrupted
<1>5. CASE TickPrints
  BY <1>1, <1>2, <1>3, <1>5 DEF TickPrints, Interrupted
<1>6. CASE TickReturns
  BY <1>1, <1>2, <1>3, <1>6 DEF TickReturns, Interrupted, NoPutc
<1>7. CASE putc
  <2>1. /\ org' = org /\ offset' = offset /\ saved' = saved
        /\ at' \notin {"fits", "move", "blank", "row24"}
        /\ at \notin {"fits", "move", "copy", "row24"}
    BY <1>7 DEF putc, Begin, putc_newline, putc_return, putc_backspace, WriteWord, Advance,
       Wraps, NextRow, Down, PlaceCursor, SetCursor, GoesTo
  <2> QED
    BY <1>1, <1>2, <1>3, <2>1 DEF Interrupted
<1>8. CASE scroll
  <2>1. saved' = saved
    BY <1>8 DEF scroll, Scroll, Fits, MoveDown, CopyWord, CopyEnds, Row24, BlankWord,
       BlankEnds, SetVidOrg, GoesTo
  <2>2. CASE Scroll
    <3>1. /\ org' = org /\ at' = "fits" /\ at = "scroll"
          /\ offset' = org + n + LINE_WIDTH /\ offset' = OneMore'
      BY <1>1, <2>2 DEF Scroll, GoesTo
    <3>2. offset' \in Nat /\ Fitting'
      BY <1>1, <1>3, <3>1
    <3> QED
      BY <1>1, <1>2, <1>3, <2>1, <3>1, <3>2 DEF Interrupted
  <2>3. CASE Fits
    BY <1>1, <1>2, <1>3, <2>1, <2>3 DEF Fits, GoesTo, Interrupted
  <2>4. CASE MoveDown
    BY <1>1, <1>2, <1>3, <2>1, <2>4 DEF MoveDown, GoesTo, Interrupted
  <2>5. CASE CopyWord
    BY <1>1, <1>2, <1>3, <2>1, <2>5 DEF CopyWord, GoesTo, Interrupted
  <2>6. CASE CopyEnds
    <3>1. org' = 0 /\ offset' = offset /\ at = "copy" /\ at' = "row24"
      BY <2>6 DEF CopyEnds, GoesTo
    <3>2. org' + n < VRAM /\ Fitting'
      BY <1>1, <1>3, <3>1
    <3> QED
      BY <1>1, <1>2, <1>3, <2>1, <3>1, <3>2 DEF Interrupted
  <2>7. CASE Row24
    BY <1>1, <1>2, <1>3, <2>1, <2>7 DEF Row24, GoesTo, Interrupted
  <2>8. CASE BlankWord \/ BlankEnds \/ SetVidOrg
    BY <1>1, <1>2, <1>3, <2>1, <2>8 DEF BlankWord, BlankEnds, SetVidOrg, GoesTo, Interrupted
  <2> QED
    BY <1>8, <2>2, <2>3, <2>4, <2>5, <2>6, <2>7, <2>8 DEF scroll
<1> QED
  BY <1>4, <1>5, <1>6, <1>7, <1>8 DEF TermNext

-----------------------------------------------------------------------------
(* What else holds until a tick prints in the middle of a putc.  The window  *)
(* that the 6845 shows is that of org, but for the end of a scroll, when it  *)
(* is still the one before.                                                  *)
Moved == at \in {"row24", "blank", "set_VID_ORG"}

(* The lines that were shown, but for the first, each a line further up;     *)
Shifted ==
    \A r \in 0 .. SCR_LINES - 2, col \in TextColumns :
        vram[org + Word(r, col)] = vram[VID_ORG + Word(r + 1, col)]

(* the same of what the copying has put at the beginning of the RAM;         *)
Copied ==
    \A r \in 0 .. SCR_LINES - 2, col \in TextColumns :
        Word(r, col) < i => vram[Word(r, col)] = vram[org + Word(r + 1, col)]

(* and the first k columns of the line that opens.                           *)
OpenedTo(k) ==
    \A col \in TextColumns : col < k => vram[org + Word(SCR_LINES - 1, col)] = "NUL"

CalmWindow ==
    /\ org + Screenful < VRAM
    /\ \A x \in VRAM .. VRAM + LINE_WIDTH - 1 : vram[x] = "beyond"
    /\ ~Moved => VID_ORG = org
    /\ Moved => /\ VID_ORG % LINE_WIDTH = 0
                /\ VID_ORG + Screenful < VRAM
                /\ \/ org = VID_ORG + LINE_WIDTH
                   \/ org = 0 /\ Screenful <= VID_ORG

CalmScroll ==
    /\ at = "fits" => offset = OneMore
    /\ at = "move" => OneMore < VRAM
    /\ at = "copy" => Screenful <= org /\ Copied
    /\ at = "blank" => offset = org + Rest /\ OpenedTo(i)
    /\ at = "set_VID_ORG" => place = org /\ OpenedTo(LINE_WIDTH)
    /\ Moved => Shifted

CalmCursor ==
    /\ at = "idle" => CURSOR = Here
    /\ at \in {"write", "set_CURSOR"} => place = Here
    /\ at \in {"scroll", "fits", "move", "copy", "row24", "blank", "set_VID_ORG"}
          => row = SCR_LINES - 1
    /\ EndsLine => column = 0

Calm == ~Interrupted /\ CalmWindow /\ CalmScroll /\ CalmCursor

TermIInv == RamInv /\ (inside = 0 => Calm)

(* In a calm step no tick prints in the middle of a putc.                    *)
LEMMA CalmSteps ==
  ASSUME TermIInv, TermNext, inside' = 0
  PROVE  inside = 0 /\ Calm /\ ~Interrupted' /\ (Tick \/ putc \/ scroll)
<1>1. inside \in Nat
  BY DEF TermIInv, RamInv, RegistersOK
<1>2. ~TickPrints
  BY <1>1 DEF TickPrints
<1>3. inside = 0
  BY <1>2 DEF TermNext, Tick, TickReturns, putc, Begin, putc_newline, putc_return,
     putc_backspace, WriteWord, Advance, Wraps, NextRow, Down, PlaceCursor, SetCursor,
     scroll, Scroll, Fits, MoveDown, CopyWord, CopyEnds, Row24, BlankWord, BlankEnds,
     SetVidOrg, GoesTo
<1>4. Calm
  BY <1>3 DEF TermIInv
<1>5. Tick \/ putc \/ scroll
  BY <1>2, <1>4 DEF TermNext, TickReturns, Calm
<1>6. saved' = saved
  BY <1>5 DEF Tick, putc, Begin, putc_newline, putc_return,
     putc_backspace, WriteWord, Advance, Wraps, NextRow, Down, PlaceCursor, SetCursor,
     scroll, Scroll, Fits, MoveDown, CopyWord, CopyEnds, Row24, BlankWord, BlankEnds,
     SetVidOrg, GoesTo
<1> QED
  BY <1>3, <1>4, <1>5, <1>6 DEF Calm, Interrupted

(* The words that the step writes: the clock's of the window at org, or x.   *)
WritesClock ==
    /\ DOMAIN vram' = DOMAIN vram
    /\ \A y \in DOMAIN vram : y \notin Clock(org) => vram'[y] = vram[y]

WritesWord(x) ==
    /\ DOMAIN vram' = DOMAIN vram
    /\ \A y \in DOMAIN vram : y # x => vram'[y] = vram[y]

LEMMA Draws ==
  ASSUME Tick \/ Scroll \/ BlankEnds
  PROVE  WritesClock
  BY DEF Tick, Scroll, BlankEnds, WritesClock, draw_clock, clear_clock

(* The place of putc in the window.                                          *)
LEMMA HereInside ==
  ASSUME NEW o \in Nat, o + Screenful < VRAM, NEW r \in Rows, NEW q \in Cols
  PROVE  /\ (o + r * LINE_WIDTH + q) % VRAM = o + Word(r, q)
         /\ Word(r, q) \in Nat
         /\ Word(r, q) < Screenful
<1>1. SCR_LINES \in Nat /\ r \in 0 .. SCR_LINES - 1
  BY DEF Rows
<1>2. Word(r, q) \in Nat /\ Word(r, q) < SCR_LINES * LINE_WIDTH
  BY <1>1, WordInside
<1>3. PICK z \in Int : z = r * LINE_WIDTH
  BY <1>1
<1>4. PICK w \in Nat : w = Word(r, q) /\ w = z + q /\ w < Screenful
  BY <1>2, <1>3 DEF Word, Screenful
<1>5. PICK n \in Nat : n = Screenful
  BY ScreenSizes
<1>6. o + w \in 0 .. VRAM - 1
  BY <1>4, <1>5
<1>7. (o + w) % VRAM = o + w
  BY <1>6
<1>8. o + r * LINE_WIDTH + q = o + w
  BY <1>3, <1>4 DEF Cols
<1> QED
  BY <1>4, <1>7, <1>8

(* A place of text in a window.                                              *)
LEMMA TextPlace ==
  ASSUME NEW r \in Rows, NEW col \in TextColumns
  PROVE  col \in Cols /\ Word(r, col) \in Nat /\ Word(r, col) < Screenful
<1>1. col \in Cols /\ SCR_LINES \in Nat /\ r \in 0 .. SCR_LINES - 1
  BY DEF TextColumns, Cols, Rows
<1> QED
  BY <1>1, WordInside DEF Screenful

(* A place of a line that moves up, and where it moves to.                   *)
LEMMA MovingPlace ==
  ASSUME NEW r \in 0 .. SCR_LINES - 2, NEW col \in TextColumns
  PROVE  /\ r \in Rows /\ r + 1 \in Rows /\ r \in Int /\ r + 1 \in Int
         /\ Word(r, col) \in Nat /\ Word(r, col) < Rest
         /\ Word(r + 1, col) = Word(r, col) + LINE_WIDTH
<1>1. r \in Rows /\ r + 1 \in Rows /\ r \in Int /\ col \in Cols
  BY DEF Rows, Cols, TextColumns
<1>2. r \in 0 .. (SCR_LINES - 1) - 1 /\ SCR_LINES - 1 \in Nat
  OBVIOUS
<1>3. Word(r, col) < Rest /\ Word(r, col) \in Nat
  BY <1>1, <1>2, WordInside DEF Rest
<1>4. (r + 1) * LINE_WIDTH = r * LINE_WIDTH + LINE_WIDTH
  OBVIOUS
<1>5. PICK z \in Int : z = r * LINE_WIDTH /\ (r + 1) * LINE_WIDTH = z + LINE_WIDTH
  BY <1>4
<1>6. Word(r + 1, col) = Word(r, col) + LINE_WIDTH
  BY <1>1, <1>5 DEF Word, Cols
<1> QED
  BY <1>1, <1>3, <1>6

(* What the lemmas on calm steps assume: the invariant, and what is known of *)
(* the sizes and of the window.                                              *)
LEMMA CalmFacts ==
  ASSUME RamInv, Calm
  PROVE  /\ DOMAIN vram = 0 .. VRAM + LINE_WIDTH - 1
         /\ org \in Nat /\ org % LINE_WIDTH = 0 /\ org + Screenful < VRAM
         /\ VID_ORG \in Nat /\ VID_ORG % LINE_WIDTH = 0
         /\ VID_ORG + Screenful < VRAM
         /\ row \in Nat /\ column \in Nat /\ i \in Nat
         /\ at # "down" => row \in Rows
         /\ at # "wrap" => column \in Cols
         /\ at = "write" => c \in Chars
<1>1. PICK n \in Nat : n = Screenful
  BY ScreenSizes
<1>2. org \in Nat /\ org % LINE_WIDTH = 0 /\ org + Screenful < VRAM
  BY DEF RamInv, WindowOK, Calm, CalmWindow
<1>3. VID_ORG \in Nat /\ VID_ORG % LINE_WIDTH = 0 /\ VID_ORG + Screenful < VRAM
  <2>1. VID_ORG \in Nat
    BY DEF RamInv, RegistersOK
  <2>2. CASE ~Moved
    BY <1>1, <1>2, <2>2 DEF Calm, CalmWindow
  <2>3. CASE Moved
    BY <2>1, <2>3 DEF Calm, CalmWindow
  <2> QED
    BY <2>2, <2>3
<1>4. row \in Nat /\ column \in Nat /\ row < SCR_LINES + Ahead("down") /\ column < LINE_WIDTH + Ahead("wrap")
  BY DEF RamInv, WindowOK
<1>5. saved.at \notin {"down", "wrap"}
  BY DEF Calm, Interrupted
<1>6. (at # "down" => row \in Rows) /\ (at # "wrap" => column \in Cols)
  BY <1>4, <1>5 DEF Ahead, Rows, Cols
<1> QED
  BY <1>2, <1>3, <1>4, <1>6 DEF RamInv, RamOK, FramesOK, FrameOK

(* The words that putc and the copying write, in the window and before it.   *)
LEMMA PutsWord ==
  ASSUME RamInv, Calm, putc
  PROVE  \/ vram' = vram
         \/ \E r \in Rows, q \in Cols :
               /\ Word(r, q) < Screenful /\ Word(r, q) \in Nat
               /\ WritesWord(org + Word(r, q))
<1>1. CASE WriteWord
  <2>1. row \in Rows /\ column \in Cols /\ org \in Nat /\ org + Screenful < VRAM
    BY <1>1, CalmFacts DEF WriteWord
  <2>2. /\ place = org + Word(row, column) /\ Word(row, column) \in Nat
        /\ Word(row, column) < Screenful
    BY <1>1, <2>1, HereInside DEF Here, WriteWord, Calm, CalmCursor
  <2>3. WritesWord(org + Word(row, column))
    BY <1>1, <2>2 DEF WriteWord, WritesWord
  <2> QED
    BY <2>1, <2>2, <2>3
<1>2. CASE putc_backspace
  <2>1. row \in Rows /\ column \in Cols /\ org \in Nat /\ org + Screenful < VRAM
    BY <1>2, CalmFacts DEF putc_backspace
  <2>2. PICK q \in Cols : q = column - 1
    BY <1>2, <2>1 DEF putc_backspace, Cols
  <2>3. org + row * LINE_WIDTH + column - 1 = org + row * LINE_WIDTH + q
    <3>1. PICK z \in Int : z = row * LINE_WIDTH
      BY <2>1 DEF Rows
    <3> QED
      BY <2>1, <2>2, <3>1 DEF Cols
  <2>4. /\ (org + row * LINE_WIDTH + column - 1) % VRAM = org + Word(row, q)
        /\ Word(row, q) \in Nat /\ Word(row, q) < Screenful
    BY <2>1, <2>3, HereInside
  <2>5. WritesWord(org + Word(row, q))
    BY <1>2, <2>4 DEF putc_backspace, WritesWord
  <2> QED
    BY <2>1, <2>4, <2>5
<1>3. CASE ~WriteWord /\ ~putc_backspace
  BY <1>3 DEF putc, Begin, putc_newline, putc_return, Advance, Wraps, NextRow, Down,
     PlaceCursor, SetCursor
<1> QED
  BY <1>1, <1>2, <1>3

(* The window fits, and what follows the RAM stays as it was.                *)
LEMMA CalmWindowStep ==
  ASSUME RamInv, Calm, Tick \/ putc \/ scroll
  PROVE  CalmWindow'
<1>1. PICK n \in Nat : /\ n = Screenful /\ Rest = n - LINE_WIDTH /\ Rest \in Nat /\ VRAM > n + n
                       /\ Screenful' = n /\ OneMore = org + n + LINE_WIDTH
  BY ScreenSizes, SizesStay DEF OneMore
<1>2. /\ DOMAIN vram = 0 .. VRAM + LINE_WIDTH - 1
      /\ org \in Nat /\ org % LINE_WIDTH = 0 /\ org + n < VRAM /\ i \in Nat
      /\ \A x \in VRAM .. VRAM + LINE_WIDTH - 1 : vram[x] = "beyond"
  BY <1>1, CalmFacts DEF Calm, CalmWindow
<1>3. ASSUME NEW x, WritesWord(x), x < VRAM, x \in Nat
      PROVE  \A y \in VRAM .. VRAM + LINE_WIDTH - 1 : vram'[y] = "beyond"
  BY <1>2, <1>3 DEF WritesWord
<1>4. \A x \in VRAM .. VRAM + LINE_WIDTH - 1 : vram'[x] = "beyond"
  <2>1. CASE Tick \/ Scroll \/ BlankEnds
    <3>1. \A x \in Clock(org) : x \in Int /\ x < VRAM
      BY <1>1, <1>2, ClockInside
    <3> QED
      BY <1>2, <2>1, <3>1, Draws DEF WritesClock
  <2>2. CASE putc
    <3>1. CASE vram' = vram
      BY <1>2, <3>1
    <3>2. ASSUME NEW r \in Rows, NEW q \in Cols, Word(r, q) < Screenful, Word(r, q) \in Nat,
                 WritesWord(org + Word(r, q))
          PROVE  \A x \in VRAM .. VRAM + LINE_WIDTH - 1 : vram'[x] = "beyond"
      <4>1. PICK x \in Nat : x = org + Word(r, q) /\ x < VRAM
        BY <1>1, <1>2, <3>2
      <4> QED
        BY <1>3, <3>2, <4>1
    <3> QED
      BY <2>2, <3>1, <3>2, PutsWord
  <2>3. CASE CopyWord
    <3>1. i \in Nat /\ i < VRAM /\ WritesWord(i)
      BY <1>1, <1>2, <2>3 DEF CopyWord, WritesWord
    <3> QED
      BY <1>3, <3>1
  <2>4. CASE BlankWord
    <3>1. PICK x \in Nat : x = offset + i /\ x < VRAM
      BY <1>1, <1>2, <2>4 DEF BlankWord, Calm, CalmScroll
    <3>2. WritesWord(x)
      BY <2>4, <3>1 DEF BlankWord, WritesWord
    <3> QED
      BY <1>3, <3>1, <3>2
  <2>5. CASE Fits \/ MoveDown \/ CopyEnds \/ Row24 \/ SetVidOrg
    BY <1>2, <2>5 DEF Fits, MoveDown, CopyEnds, Row24, SetVidOrg
  <2> QED
    BY <2>1, <2>2, <2>3, <2>4, <2>5 DEF scroll
<1>5. CASE MoveDown
  <2>1. OneMore < VRAM /\ VID_ORG = org /\ org' = org + LINE_WIDTH /\ VID_ORG' = VID_ORG
    BY <1>5 DEF MoveDown, Calm, CalmScroll, CalmWindow, Moved
  <2>2. at' = "row24"
    BY <1>5 DEF MoveDown, GoesTo
  <2> QED
    BY <1>1, <1>2, <1>4, <2>1, <2>2 DEF CalmWindow, Moved
<1>6. CASE CopyEnds
  <2>1. VID_ORG = org /\ org' = 0 /\ VID_ORG' = VID_ORG /\ n <= org /\ at' = "row24"
    BY <1>1, <1>6 DEF CopyEnds, Calm, CalmScroll, CalmWindow, Moved, GoesTo
  <2> QED
    BY <1>1, <1>2, <1>4, <2>1 DEF CalmWindow, Moved
<1>7. CASE SetVidOrg
  <2>1. VID_ORG' = org' /\ org' = org /\ at' = "cursor"
    BY <1>7 DEF SetVidOrg, Calm, CalmScroll, GoesTo
  <2> QED
    BY <1>1, <1>2, <1>4, <2>1 DEF CalmWindow, Moved
<1>8. ASSUME org' = org, VID_ORG' = VID_ORG, Moved' <=> Moved PROVE CalmWindow'
  BY <1>1, <1>4, <1>8 DEF CalmWindow, Calm
<1>9. CASE ~MoveDown /\ ~CopyEnds /\ ~SetVidOrg
  <2>1. org' = org /\ VID_ORG' = VID_ORG
    BY <1>9 DEF Tick, putc, Begin, putc_newline, putc_return, putc_backspace, WriteWord,
       Advance, Wraps, NextRow, Down, PlaceCursor, SetCursor, scroll, Scroll, Fits,
       CopyWord, Row24, BlankWord, BlankEnds
  <2>2. Moved' <=> Moved
    BY <1>9 DEF Moved, Tick, putc, Begin, putc_newline, putc_return, putc_backspace,
       WriteWord, Advance, Wraps, NextRow, Down, PlaceCursor, SetCursor, scroll, Scroll,
       Fits, CopyWord, Row24, BlankWord, BlankEnds, GoesTo
  <2> QED
    BY <1>8, <2>1, <2>2
<1> QED
  BY <1>5, <1>6, <1>7, <1>9

(* The clock is drawn beside what moves up, in both windows.                 *)
LEMMA ClockKeeps ==
  ASSUME RamInv, Calm, WritesClock, org' = org, VID_ORG' = VID_ORG, i' = i
  PROVE  /\ Moved /\ Shifted => Shifted'
         /\ Screenful <= org /\ Copied => Copied'
         /\ \A k \in Int : OpenedTo(k) =>
               \A col \in TextColumns : col < k => vram'[org' + Word(SCR_LINES - 1, col)] = "NUL"
<1>1. PICK n \in Nat : n = Screenful /\ Rest = n - LINE_WIDTH /\ Rest \in Nat /\ VRAM > n + n
  BY ScreenSizes
<1>2. /\ DOMAIN vram = 0 .. VRAM + LINE_WIDTH - 1
      /\ org \in Nat /\ org % LINE_WIDTH = 0 /\ org + n < VRAM
      /\ VID_ORG \in Nat /\ VID_ORG % LINE_WIDTH = 0 /\ VID_ORG + n < VRAM
  BY <1>1, CalmFacts
<1>3. ASSUME NEW r \in Rows, NEW col \in TextColumns
      PROVE  /\ vram'[org + Word(r, col)] = vram[org + Word(r, col)]
             /\ vram'[VID_ORG + Word(r, col)] = vram[VID_ORG + Word(r, col)]
  <2>1. Word(r, col) \in Nat /\ Word(r, col) < n /\ r \in Int
    BY <1>1, TextPlace DEF Rows
  <2>2. org + Word(r, col) \in DOMAIN vram /\ VID_ORG + Word(r, col) \in DOMAIN vram
    BY <1>2, <2>1
  <2>3. org + Word(r, col) \notin Clock(org) /\ VID_ORG + Word(r, col) \notin Clock(org)
    BY <1>2, <2>1, ClockAside
  <2> QED
    BY <2>2, <2>3 DEF WritesClock
<1>4. Moved /\ Shifted => Shifted'
  BY <1>3, MovingPlace DEF Shifted
<1>5. ASSUME Screenful <= org, Copied PROVE Copied'
  <2> SUFFICES ASSUME NEW r \in 0 .. SCR_LINES - 2, NEW col \in TextColumns, Word(r, col) < i
               PROVE  vram'[Word(r, col)] = vram'[org + Word(r + 1, col)]
    BY DEF Copied
  <2>1. /\ r + 1 \in Rows /\ Word(r, col) \in Nat /\ Word(r, col) < Rest
    BY MovingPlace
  <2>2. Word(r, col) \notin Clock(org)
    BY <1>1, <1>2, <1>5, <2>1, ClockInside
  <2>3. vram'[Word(r, col)] = vram[Word(r, col)]
    BY <1>1, <1>2, <2>1, <2>2 DEF WritesClock
  <2> QED
    BY <1>3, <1>5, <2>1, <2>3 DEF Copied
<1>6. SCR_LINES - 1 \in Rows
  BY DEF Rows
<1> QED
  BY <1>3, <1>4, <1>5, <1>6 DEF OpenedTo

(* The scroll that is under way.                                             *)
LEMMA CalmScrollStep ==
  ASSUME RamInv, Calm, Tick \/ putc \/ scroll
  PROVE  CalmScroll'
<1>1. PICK n \in Nat : /\ n = Screenful /\ Rest = n - LINE_WIDTH /\ Rest \in Nat /\ VRAM > n + n
                       /\ Screenful' = n /\ Rest' = Rest
                       /\ OneMore = org + n + LINE_WIDTH /\ OneMore' = org' + n + LINE_WIDTH
  BY ScreenSizes, SizesStay DEF OneMore
<1>2. /\ DOMAIN vram = 0 .. VRAM + LINE_WIDTH - 1
      /\ org \in Nat /\ org % LINE_WIDTH = 0 /\ org + n < VRAM
      /\ VID_ORG \in Nat /\ VID_ORG % LINE_WIDTH = 0 /\ VID_ORG + n < VRAM /\ i \in Nat
  BY <1>1, CalmFacts
<1>3. CASE Tick
  <2>1. WritesClock /\ UNCHANGED <<at, org, VID_ORG, offset, place, i>>
    BY <1>3, Draws DEF Tick
  <2>2. \A k \in Int : OpenedTo(k) =>
           \A col \in TextColumns : col < k => vram'[org' + Word(SCR_LINES - 1, col)] = "NUL"
    BY <2>1, ClockKeeps
  <2>3. at = "blank" => OpenedTo(i)'
    BY <1>2, <2>1, <2>2 DEF OpenedTo, Calm, CalmScroll
  <2>4. at = "set_VID_ORG" => OpenedTo(LINE_WIDTH)'
    BY <2>2 DEF OpenedTo, Calm, CalmScroll
  <2>5. (Moved => Shifted') /\ (Screenful <= org /\ Copied => Copied')
    BY <2>1, ClockKeeps DEF Calm, CalmScroll
  <2> QED
    BY <1>1, <2>1, <2>3, <2>4, <2>5 DEF Calm, CalmScroll, Moved
<1>4. CASE putc
  <2>1. at' \notin {"fits", "move", "copy", "row24", "blank", "set_VID_ORG"}
    BY <1>4 DEF putc, Begin, putc_newline, putc_return, putc_backspace, WriteWord, Advance,
       Wraps, NextRow, Down, PlaceCursor, SetCursor, GoesTo
  <2> QED
    BY <2>1 DEF CalmScroll, Moved
<1>5. CASE Scroll
  <2>1. at' = "fits" /\ offset' = OneMore' /\ org' = org
    BY <1>1, <1>5 DEF Scroll, GoesTo
  <2> QED
    BY <2>1 DEF CalmScroll, Moved
<1>6. CASE Fits
  <2>1. offset = OneMore /\ org' = org
    BY <1>6 DEF Fits, Calm, CalmScroll
  <2>2. CASE offset < VRAM
    <3>1. at' = "move"
      BY <1>6, <2>2 DEF Fits, GoesTo
    <3> QED
      BY <1>1, <2>1, <2>2, <3>1 DEF CalmScroll, Moved
  <2>3. CASE ~(offset < VRAM)
    <3>1. at' = "copy" /\ i' = 0
      BY <1>6, <2>3 DEF Fits, GoesTo
    <3>2. n <= org'
      <4>1. org + Screenful + LINE_WIDTH >= VRAM
        BY <1>1, <1>2, <2>1, <2>3
      <4> QED
        BY <1>1, <1>2, <2>1, <4>1, RoomBefore
    <3>3. Copied'
      <4>1. \A r \in 0 .. SCR_LINES - 2, col \in TextColumns : ~(Word(r, col) < 0)
        BY MovingPlace
      <4> QED
        BY <3>1, <4>1 DEF Copied
    <3> QED
      BY <1>1, <3>1, <3>2, <3>3 DEF CalmScroll, Moved
  <2> QED
    BY <2>2, <2>3
<1>7. CASE MoveDown
  <2>1. at' = "row24" /\ VID_ORG' = VID_ORG /\ VID_ORG = org /\ vram' = vram
           /\ org' = org + LINE_WIDTH
    BY <1>7 DEF MoveDown, GoesTo, Calm, CalmWindow, Moved
  <2>2. ASSUME NEW r \in 0 .. SCR_LINES - 2, NEW col \in TextColumns
        PROVE  org' + Word(r, col) = VID_ORG' + Word(r + 1, col)
    BY <1>2, <2>1, MovingPlace
  <2>3. Shifted'
    BY <2>2 DEF Shifted
  <2> QED
    BY <2>1, <2>3 DEF CalmScroll
<1>8. CASE CopyWord
  <2>1. /\ at = "copy" /\ at' = "copy" /\ i < Rest /\ i' = i + 1 /\ org' = org
        /\ n <= org /\ Copied /\ WritesWord(i) /\ vram'[i] = vram[org + LINE_WIDTH + i]
    <3>1. at = "copy" /\ at' = "copy" /\ i < Rest /\ i' = i + 1 /\ org' = org
      BY <1>8 DEF CopyWord, GoesTo
    <3>2. n <= org /\ Copied
      BY <1>1, <3>1 DEF Calm, CalmScroll
    <3>3. vram' = [vram EXCEPT ![i] = vram[org + LINE_WIDTH + i]]
      BY <1>8 DEF CopyWord, Source
    <3>4. i \in DOMAIN vram
      <4>1. PICK m \in Nat : m = Rest /\ m < VRAM
        BY <1>1
      <4>2. i < m
        BY <3>1, <4>1
      <4> QED
        BY <1>2, <4>1, <4>2
    <3> QED
      BY <3>1, <3>2, <3>3, <3>4 DEF WritesWord
  <2>2. ASSUME NEW r \in 0 .. SCR_LINES - 2, NEW col \in TextColumns, Word(r, col) < i + 1
        PROVE  vram'[Word(r, col)] = vram'[org + Word(r + 1, col)]
    <3>1. PICK w \in Nat : w = Word(r, col) /\ w < Rest /\ Word(r + 1, col) = w + LINE_WIDTH
      BY MovingPlace
    <3>2. vram'[org + (w + LINE_WIDTH)] = vram[org + (w + LINE_WIDTH)]
      <4>1. org + (w + LINE_WIDTH) \in DOMAIN vram /\ org + (w + LINE_WIDTH) # i
        BY <1>1, <1>2, <2>1, <3>1
      <4> QED
        BY <2>1, <4>1 DEF WritesWord
    <3>3. CASE w = i
      <4>1. org + (w + LINE_WIDTH) = org + LINE_WIDTH + i
        BY <1>2, <3>3
      <4> QED
        BY <2>1, <3>1, <3>2, <3>3, <4>1
    <3>4. CASE w < i
      <4>1. vram[w] = vram[org + (w + LINE_WIDTH)]
        BY <2>1, <3>1, <3>4 DEF Copied
      <4>2. w \in DOMAIN vram /\ w # i
        BY <1>1, <1>2, <3>1, <3>4
      <4>3. vram'[w] = vram[w]
        BY <2>1, <4>2 DEF WritesWord
      <4> QED
        BY <3>1, <3>2, <4>1, <4>3
    <3> QED
      BY <1>2, <2>2, <3>1, <3>3, <3>4
  <2>3. Copied'
    BY <2>1, <2>2 DEF Copied
  <2> QED
    BY <1>1, <2>1, <2>3 DEF CalmScroll, Moved
<1>9. CASE CopyEnds
  <2>1. /\ at' = "row24" /\ VID_ORG' = VID_ORG /\ VID_ORG = org /\ vram' = vram
        /\ org' = 0 /\ i = Rest /\ Copied
    BY <1>9 DEF CopyEnds, GoesTo, Calm, CalmWindow, CalmScroll, Moved
  <2>2. ASSUME NEW r \in 0 .. SCR_LINES - 2, NEW col \in TextColumns
        PROVE  vram'[org' + Word(r, col)] = vram'[VID_ORG' + Word(r + 1, col)]
    <3>1. Word(r, col) \in Nat /\ Word(r, col) < Rest /\ org' + Word(r, col) = Word(r, col)
      BY <2>1, MovingPlace
    <3>2. vram[Word(r, col)] = vram[org + Word(r + 1, col)]
      BY <2>1, <3>1 DEF Copied
    <3> QED
      BY <2>1, <3>1, <3>2
  <2>3. Shifted'
    BY <2>2 DEF Shifted
  <2> QED
    BY <2>1, <2>3 DEF CalmScroll
<1>10. CASE Row24
  <2>1. /\ at' = "blank" /\ i' = 0 /\ offset' = org + Rest /\ org' = org
        /\ VID_ORG' = VID_ORG /\ vram' = vram /\ Shifted
    BY <1>10 DEF Row24, GoesTo, Calm, CalmScroll, Moved
  <2>2. OpenedTo(i)'
    <3>1. \A col \in TextColumns : ~(col < 0)
      BY DEF TextColumns
    <3> QED
      BY <2>1, <3>1 DEF OpenedTo
  <2>3. Shifted'
    BY <2>1 DEF Shifted
  <2> QED
    BY <1>1, <2>1, <2>2, <2>3 DEF CalmScroll
<1>11. CASE BlankWord
  <2>1. /\ at = "blank" /\ at' = "blank" /\ i < LINE_WIDTH /\ i' = i + 1 /\ org' = org
        /\ VID_ORG' = VID_ORG /\ offset' = offset /\ offset = org + Rest
        /\ OpenedTo(i) /\ Shifted
        /\ vram' = [vram EXCEPT ![offset + i] = "NUL"]
    BY <1>11 DEF BlankWord, GoesTo, Calm, CalmScroll, Moved
  <2>2. PICK x \in Nat : x = offset + i /\ x = org + Rest + i /\ x \in DOMAIN vram
    BY <1>1, <1>2, <2>1
  <2>3. WritesWord(x) /\ vram'[x] = "NUL"
    BY <2>1, <2>2 DEF WritesWord
  <2>4. ASSUME NEW col \in TextColumns
        PROVE  /\ org + Word(SCR_LINES - 1, col) \in DOMAIN vram
               /\ org + Word(SCR_LINES - 1, col) = org + Rest + col
    <3>1. SCR_LINES - 1 \in Rows
      BY DEF Rows
    <3>2. Word(SCR_LINES - 1, col) \in Nat /\ Word(SCR_LINES - 1, col) < n /\ col \in Cols
      BY <1>1, <3>1, TextPlace
    <3>3. Word(SCR_LINES - 1, col) = Rest + col
      BY DEF Word, Rest
    <3>4. PICK w \in Nat : w = Word(SCR_LINES - 1, col) /\ w < n
      BY <3>2
    <3>5. org + w \in DOMAIN vram
      BY <1>2, <3>4
    <3> QED
      BY <1>1, <1>2, <3>2, <3>3, <3>4, <3>5 DEF Cols
  <2>5. OpenedTo(i)'
    <3> SUFFICES ASSUME NEW col \in TextColumns, col < i + 1
                 PROVE  vram'[org + Word(SCR_LINES - 1, col)] = "NUL"
      BY <2>1 DEF OpenedTo
    <3>1. col \in Int
      BY DEF TextColumns
    <3>2. CASE col = i
      BY <2>2, <2>3, <2>4, <3>2
    <3>3. CASE col < i
      <4>1. org + Rest + col # x
        BY <1>1, <1>2, <2>2, <3>1, <3>3
      <4>2. vram[org + Word(SCR_LINES - 1, col)] = "NUL"
        BY <2>1, <3>3 DEF OpenedTo
      <4> QED
        BY <2>3, <2>4, <4>1, <4>2 DEF WritesWord
    <3> QED
      BY <1>2, <3>1, <3>2, <3>3
  <2>6. Shifted'
    <3> SUFFICES ASSUME NEW r \in 0 .. SCR_LINES - 2, NEW col \in TextColumns
                 PROVE  vram'[org + Word(r, col)] = vram'[VID_ORG + Word(r + 1, col)]
      BY <2>1 DEF Shifted
    <3>1. PICK w \in Nat : w = Word(r, col) /\ w < Rest /\ Word(r + 1, col) = w + LINE_WIDTH
      BY MovingPlace
    <3>2. org + w \in DOMAIN vram /\ org + w # x
      <4>1. PICK m \in Nat : m = Rest /\ m = n - LINE_WIDTH
        BY <1>1
      <4>2. w < m /\ x = org + m + i
        BY <2>2, <3>1, <4>1
      <4>3. org + w < x /\ org + w < VRAM
        BY <1>2, <4>1, <4>2
      <4> QED
        BY <1>2, <4>3
    <3>3. \/ org = VID_ORG + LINE_WIDTH
          \/ org = 0 /\ n <= VID_ORG
      BY <1>1, <2>1 DEF Calm, CalmWindow, Moved
    <3>4. VID_ORG + (w + LINE_WIDTH) \in DOMAIN vram /\ VID_ORG + (w + LINE_WIDTH) # x
      <4>1. PICK m \in Nat : m = Rest /\ m = n - LINE_WIDTH
        BY <1>1
      <4>2. w < m /\ x = org + m + i
        BY <2>2, <3>1, <4>1
      <4>3. VID_ORG + (w + LINE_WIDTH) \in DOMAIN vram
        BY <1>2, <4>1, <4>2
      <4> QED
        BY <1>2, <2>1, <3>3, <4>1, <4>2, <4>3
    <3>5. vram[org + w] = vram[VID_ORG + (w + LINE_WIDTH)]
      BY <2>1, <3>1 DEF Shifted
    <3> QED
      BY <2>3, <3>1, <3>2, <3>4, <3>5 DEF WritesWord
  <2> QED
    BY <1>1, <2>1, <2>5, <2>6 DEF CalmScroll
<1>12. CASE BlankEnds
  <2>1. /\ at = "blank" /\ at' = "set_VID_ORG" /\ place' = org /\ org' = org /\ i' = i
        /\ i = LINE_WIDTH /\ VID_ORG' = VID_ORG /\ OpenedTo(LINE_WIDTH) /\ Shifted /\ Moved
    BY <1>12 DEF BlankEnds, GoesTo, Calm, CalmScroll, Moved
  <2>2. WritesClock
    BY <1>12, Draws
  <2>3. OpenedTo(LINE_WIDTH)' /\ Shifted'
    BY <2>1, <2>2, ClockKeeps DEF OpenedTo
  <2> QED
    BY <2>1, <2>3 DEF CalmScroll
<1>13. CASE SetVidOrg
  <2>1. at' = "cursor"
    BY <1>13 DEF SetVidOrg, GoesTo
  <2> QED
    BY <2>1 DEF CalmScroll, Moved
<1> QED
  BY <1>3, <1>4, <1>5, <1>6, <1>7, <1>8, <1>9, <1>10, <1>11, <1>12, <1>13 DEF scroll

(* Where putc and the 6845's cursor are.                                     *)
LEMMA CalmCursorStep ==
  ASSUME RamInv, Calm, Tick \/ putc \/ scroll
  PROVE  CalmCursor'
<1> USE DEF Calm, CalmCursor
<1>1. CASE Tick
  BY <1>1 DEF Tick, Here, EndsLine
<1>2. CASE \E char \in Chars : Begin(char)
  BY <1>2 DEF Begin, GoesTo, Here, EndsLine
<1>3. CASE putc_newline
  BY <1>3 DEF putc_newline, GoesTo, EndsLine
<1>4. CASE putc_return
  BY <1>4 DEF putc_return, GoesTo, EndsLine
<1>5. CASE putc_backspace
  <2>1. CURSOR' = (org + row * LINE_WIDTH + column - 1) % VRAM /\ at = "idle" /\ at' = at
          /\ org' = org /\ row' = row /\ column' = column - 1 /\ column \in Nat /\ row \in Nat
          /\ org \in Nat
    BY <1>5 DEF putc_backspace, RamInv, WindowOK
  <2>2. org + row * LINE_WIDTH + column - 1 = org' + row' * LINE_WIDTH + column'
    <3>1. PICK z \in Int : z = row * LINE_WIDTH
      BY <2>1
    <3> QED
      BY <2>1, <3>1
  <2>3. CURSOR' = Here'
    BY <2>1, <2>2 DEF Here
  <2> QED
    BY <2>1, <2>3 DEF EndsLine
<1>6. CASE WriteWord \/ Advance
  BY <1>6 DEF WriteWord, Advance, GoesTo, EndsLine
<1>7. CASE Wraps
  BY <1>7 DEF Wraps, GoesTo, EndsLine
<1>8. CASE NextRow
  BY <1>8 DEF NextRow, GoesTo, EndsLine
<1>9. CASE Down
  BY <1>9 DEF Down, GoesTo, EndsLine
<1>10. CASE PlaceCursor
  BY <1>10 DEF PlaceCursor, GoesTo, Here, EndsLine
<1>11. CASE SetCursor
  BY <1>11 DEF SetCursor, GoesTo, Here, EndsLine
<1>12. CASE scroll
  <2>1. /\ row' = row /\ column' = column /\ c' = c
        /\ at' \notin {"idle", "write", "set_CURSOR"}
        /\ at \in {"scroll", "fits", "move", "copy", "row24", "blank", "set_VID_ORG"}
    BY <1>12 DEF scroll, Scroll, Fits, MoveDown, CopyWord, CopyEnds, Row24, BlankWord,
       BlankEnds, SetVidOrg, GoesTo
  <2> QED
    BY <2>1 DEF EndsLine
<1> QED
  BY <1>1, <1>2, <1>3, <1>4, <1>5, <1>6, <1>7, <1>8, <1>9, <1>10, <1>11, <1>12 DEF putc

(* Every step, or none, keeps the invariant.                                 *)
LEMMA StepInv ==
  ASSUME TermIInv, [TermNext]_termVars
  PROVE  TermIInv'
<1>1. CASE UNCHANGED termVars
  <2>1. RamOK(vram') /\ FramesOK' /\ WindowOK'
    BY <1>1, SizesStay DEF termVars, TermIInv, RamInv, FramesOK, FrameOK, WindowOK, Ahead
  <2>2. RegistersOK' /\ OffsetOK'
    BY <1>1, SizesStay DEF termVars, TermIInv, RamInv, RegistersOK, OffsetOK, Fitting,
       OneMore, Interrupted
  <2>3. RamInv'
    BY <2>1, <2>2 DEF RamInv, RamOK
  <2>4. ASSUME Calm PROVE CalmWindow' /\ CalmScroll'
    BY <1>1, <2>4, SizesStay DEF termVars, Calm, CalmWindow, CalmScroll, Moved, Shifted,
       Copied, OpenedTo, OneMore
  <2>5. ASSUME Calm PROVE ~Interrupted' /\ CalmCursor'
    BY <1>1, <2>5 DEF termVars, Calm, CalmCursor, Here, EndsLine, Interrupted
  <2> QED
    BY <1>1, <2>3, <2>4, <2>5 DEF termVars, TermIInv, Calm
<1>2. CASE TermNext
  <2>1. RamInv'
    <3>1. RamOK(vram') /\ FramesOK' /\ WindowOK' /\ RegistersOK' /\ OffsetOK'
      BY <1>2, RamStep, FramesStep, WindowStep, RegistersStep, OffsetStep DEF TermIInv
    <3> QED
      BY <3>1 DEF RamInv, RamOK
  <2>2. ASSUME inside' = 0 PROVE Calm'
    <3>1. inside = 0 /\ Calm /\ ~Interrupted' /\ (Tick \/ putc \/ scroll)
      BY <1>2, <2>2, CalmSteps
    <3>2. CalmWindow' /\ CalmScroll' /\ CalmCursor'
      BY <3>1, CalmWindowStep, CalmScrollStep, CalmCursorStep DEF TermIInv
    <3> QED
      BY <3>1, <3>2 DEF Calm
  <2> QED
    BY <2>1, <2>2 DEF TermIInv
<1> QED
  BY <1>1, <1>2

LEMMA InitInv == vid_init => TermIInv
<1> SUFFICES ASSUME vid_init PROVE TermIInv
  OBVIOUS
<1>1. PICK n \in Nat : n = Screenful /\ VRAM > n + n
  BY ScreenSizes
<1>2. 0 + 0 * LINE_WIDTH + 0 = 0
  OBVIOUS
<1>3. Here = 0
  <2>1. 0 % VRAM = 0
    BY <1>1
  <2>2. org + row * LINE_WIDTH + column = 0
    BY <1>2 DEF vid_init
  <2> QED
    BY <2>1, <2>2 DEF Here
<1>4. CalmWindow
  BY <1>1 DEF vid_init, CalmWindow, Moved
<1>5. CalmScroll /\ CalmCursor
  BY <1>3 DEF vid_init, CalmScroll, CalmCursor, Moved, EndsLine
<1>6. ~Interrupted
  BY DEF vid_init, Interrupted, NoPutc
<1> QED
  BY <1>4, <1>5, <1>6, InitRam DEF TermIInv, Calm

(* The inductive invariant: what every putc and scroll knows of the frames,  *)
(* of org and of offset, however the ticks print among them, and what holds  *)
(* besides until one does.                                                   *)
THEOREM DisplayInvariant == TermSpec => []TermIInv
<1>1. vid_init => TermIInv
  BY InitInv
<1>2. TermIInv /\ [TermNext]_termVars => TermIInv'
  BY StepInv
<1> QED
  BY <1>1, <1>2, PTL DEF TermSpec

(* putc masks its offset and scroll does not.  For every size of screen and  *)
(* RAM the writes of both and of the clock lie in the RAM until a tick       *)
(* prints in the middle of a putc; after any number of these, at whatever    *)
(* statements, they go no further than the line behind it, and row and       *)
(* column are in the screen but between their increment and its test.        *)
THEOREM WritesInRam == TermSpec => []InRam
<1>1. TermIInv => InRam
  <2> SUFFICES ASSUME TermIInv PROVE InRam
    OBVIOUS
  <2> USE DEF TermIInv, RamInv
  <2>1. TermTypeOK
    <3>1. [at |-> at, c |-> c, place |-> place, i |-> i] \in Putcs
      BY DEF FramesOK, FrameOK, Putcs
    <3> QED
      BY <3>1 DEF TermTypeOK, RamOK, FramesOK, WindowOK, RegistersOK, OffsetOK
  <2>2. inside > 0 \/ /\ org + Screenful < VRAM
                      /\ \A x \in VRAM .. VRAM + LINE_WIDTH - 1 : vram[x] = "beyond"
    BY DEF RegistersOK, Calm, CalmWindow
  <2> QED
    BY <2>1, <2>2 DEF InRam, WindowOK, FramesOK, FrameOK, OffsetOK
<1> QED
  BY <1>1, DisplayInvariant, PTL

-----------------------------------------------------------------------------
(* The text is what each of its places shows, a word of the window.          *)
Texts(t, m, o) ==
    /\ t = [spot \in Rows \X TextColumns |-> t[spot]]
    /\ \A r \in Rows, col \in TextColumns : t[<<r, col>>] = Seen(m[o + Word(r, col)])

(* So it is, by the definition of the refinement mapping.                    *)
LEMMA TextAt == RamInv => Texts(Text, vram, VID_ORG)
<1> SUFFICES ASSUME RamInv PROVE Texts(Text, vram, VID_ORG)
  OBVIOUS
<1>1. Text = [spot \in Rows \X TextColumns |-> Text[spot]]
  BY DEF Text, Rows
<1>2. ASSUME NEW r \in Rows, NEW col \in TextColumns
      PROVE  Text[<<r, col>>] = Seen(vram[VID_ORG + Word(r, col)])
  <2>1. r * LINE_WIDTH \in Int /\ col \in Int /\ VID_ORG \in Int
    BY DEF Rows, TextColumns, RamInv, RegistersOK
  <2>2. Text[<<r, col>>] = Seen(vram[VID_ORG + r * LINE_WIDTH + col])
    BY DEF Text, Rows
  <2>3. VID_ORG + r * LINE_WIDTH + col = VID_ORG + Word(r, col)
    BY <2>1 DEF Word
  <2> QED
    BY <2>2, <2>3
<1> QED
  BY <1>1, <1>2 DEF Texts

(* After a step, too, with the new RAM and the new window.                    *)
LEMMA TextAfter ==
  ASSUME RamInv'
  PROVE  /\ Text' = [spot \in Rows \X TextColumns |-> Text'[spot]]
         /\ \A r \in Rows, col \in TextColumns :
               Text'[<<r, col>>] = Seen(vram'[VID_ORG' + Word(r, col)])
<1>1. Texts(Text, vram, VID_ORG)'
  BY TextAt, PTL
<1> QED
  BY <1>1 DEF Texts

(* A screen that shows the same words shows the same text.                    *)
LEMMA TextStays ==
  ASSUME RamInv, RamInv',
         \A r \in Rows, col \in TextColumns :
            Seen(vram'[VID_ORG' + Word(r, col)]) = Seen(vram[VID_ORG + Word(r, col)])
  PROVE  Text' = Text
<1>1. Texts(Text, vram, VID_ORG)
  BY TextAt
<1>2. \A r \in Rows, col \in TextColumns : Text'[<<r, col>>] = Text[<<r, col>>]
  <2> SUFFICES ASSUME NEW r \in Rows, NEW col \in TextColumns
               PROVE  Text'[<<r, col>>] = Text[<<r, col>>]
    OBVIOUS
  <2>1. Text'[<<r, col>>] = Seen(vram'[VID_ORG' + Word(r, col)])
    BY TextAfter
  <2>2. Text[<<r, col>>] = Seen(vram[VID_ORG + Word(r, col)])
    BY <1>1 DEF Texts
  <2> QED
    BY <2>1, <2>2
<1>3. ASSUME NEW spot \in Rows \X TextColumns PROVE Text'[spot] = Text[spot]
  <2>1. PICK r \in Rows, col \in TextColumns : spot = <<r, col>>
    OBVIOUS
  <2> QED
    BY <1>2, <2>1
<1> QED
  BY <1>1, <1>3, TextAfter DEF Texts

(* The same but for one spot: that is what Put and BackSpace do.             *)
LEMMA TextWith ==
  ASSUME RamInv, RamInv', NEW p \in Rows, NEW q \in Cols, NEW cell,
         \A r \in Rows, col \in TextColumns :
            Seen(vram'[VID_ORG' + Word(r, col)]) =
               IF r = p /\ col = q THEN cell ELSE Seen(vram[VID_ORG + Word(r, col)])
  PROVE  Text' = Display!With(<<p, q>>, cell)
<1>1. Texts(Text, vram, VID_ORG)
  BY TextAt
<1>2. DOMAIN Text = Rows \X TextColumns
  BY <1>1 DEF Texts
<1>3. \A r \in Rows, col \in TextColumns :
         Text'[<<r, col>>] = IF r = p /\ col = q THEN cell ELSE Text[<<r, col>>]
  <2> SUFFICES ASSUME NEW r \in Rows, NEW col \in TextColumns
               PROVE  Text'[<<r, col>>] = IF r = p /\ col = q THEN cell ELSE Text[<<r, col>>]
    OBVIOUS
  <2>1. Text'[<<r, col>>] = Seen(vram'[VID_ORG' + Word(r, col)])
    BY TextAfter
  <2>2. Text[<<r, col>>] = Seen(vram[VID_ORG + Word(r, col)])
    BY <1>1 DEF Texts
  <2> QED
    BY <2>1, <2>2
<1>4. ASSUME NEW spot \in Rows \X TextColumns
      PROVE  Text'[spot] = IF spot = <<p, q>> THEN cell ELSE Text[spot]
  <2>1. PICK r \in Rows, col \in TextColumns : spot = <<r, col>>
    OBVIOUS
  <2> QED
    BY <1>3, <2>1
<1> QED
  BY <1>2, <1>4, TextAfter DEF Display!With

(* The lines a line further up, and a blank one below.                        *)
LEMMA TextMovesUp ==
  ASSUME RamInv, RamInv',
         \A col \in TextColumns :
            /\ Seen(vram'[VID_ORG' + Word(SCR_LINES - 1, col)]) = "blank"
            /\ \A r \in 0 .. SCR_LINES - 2 :
                  Seen(vram'[VID_ORG' + Word(r, col)]) = Seen(vram[VID_ORG + Word(r + 1, col)])
  PROVE  Text' = Display!MovedUp(Text)
<1>1. Texts(Text, vram, VID_ORG)
  BY TextAt
<1>2. \A spot \in Rows \X TextColumns :
         Text'[spot] = IF spot[1] = SCR_LINES - 1 THEN "blank"
                        ELSE Text[<<spot[1] + 1, spot[2]>>]
  <2> SUFFICES ASSUME NEW r \in Rows, NEW col \in TextColumns
               PROVE  Text'[<<r, col>>] = IF r = SCR_LINES - 1 THEN "blank" ELSE Text[<<r + 1, col>>]
    OBVIOUS
  <2>1. Text'[<<r, col>>] = Seen(vram'[VID_ORG' + Word(r, col)])
    BY TextAfter
  <2>2. CASE r = SCR_LINES - 1
    BY <2>1, <2>2
  <2>3. CASE r # SCR_LINES - 1
    <3>1. r \in 0 .. SCR_LINES - 2 /\ r + 1 \in Rows
      BY <2>3 DEF Rows
    <3>2. Text[<<r + 1, col>>] = Seen(vram[VID_ORG + Word(r + 1, col)])
      BY <1>1, <3>1 DEF Texts
    <3> QED
      BY <2>1, <2>3, <3>1, <3>2
  <2> QED
    BY <2>2, <2>3
<1> QED
  BY <1>2, TextAfter DEF Display!MovedUp, Display!Line, Rows

-----------------------------------------------------------------------------
(* The cursor of the screen, by putc's own variables.                        *)
Spot ==
    [line |-> IF at = "down" THEN row - 1 ELSE row,
     column |-> IF EndsLine THEN LINE_WIDTH
                ELSE IF at = "advance" THEN column + 1 ELSE column]

(* When putc is idle, the 6845's cursor tells its row and column.            *)
LEMMA CursorIsSpot == RamInv /\ Calm => Cursor = Spot
<1> SUFFICES ASSUME RamInv, Calm PROVE Cursor = Spot
  OBVIOUS
<1>1. CASE at # "idle"
  BY <1>1 DEF Cursor, Spot
<1>2. CASE at = "idle"
  <2>1. row \in Rows /\ column \in Cols /\ org \in Nat /\ org + Screenful < VRAM
    BY <1>2, CalmFacts
  <2>2. Here = org + Word(row, column) /\ Word(row, column) \in Nat
    BY <2>1, HereInside DEF Here
  <2>3. CURSOR = Here /\ VID_ORG = org
    BY <1>2 DEF Calm, CalmCursor, CalmWindow, Moved
  <2>4. CURSOR - VID_ORG = Word(row, column)
    BY <2>1, <2>2, <2>3
  <2>5. /\ Word(row, column) \div LINE_WIDTH = row
        /\ Word(row, column) % LINE_WIDTH = column
    BY <2>1, WordTells DEF Rows
  <2>6. ~EndsLine
    BY <1>2 DEF EndsLine
  <2> QED
    BY <1>2, <2>4, <2>5, <2>6 DEF Cursor, Spot
<1> QED
  BY <1>1, <1>2

LEMMA CursorIsSpotAfter ==
  ASSUME RamInv', Calm'
  PROVE  Cursor' = Spot'
<1>1. (RamInv /\ Calm => Cursor = Spot)'
  BY CursorIsSpot, PTL
<1> QED
  BY <1>1

(* Nothing but a character, a backspace and the new window changes the text. *)
LEMMA TextKept ==
  ASSUME RamInv, Calm, RamInv', Tick \/ putc \/ scroll,
         ~WriteWord, ~putc_backspace, ~SetVidOrg
  PROVE  Text' = Text
<1>1. PICK n \in Nat : n = Screenful /\ Rest = n - LINE_WIDTH /\ Rest \in Nat /\ VRAM > n + n
  BY ScreenSizes
<1>2. /\ DOMAIN vram = 0 .. VRAM + LINE_WIDTH - 1
      /\ org \in Nat /\ org % LINE_WIDTH = 0 /\ org + n < VRAM
      /\ VID_ORG \in Nat /\ VID_ORG % LINE_WIDTH = 0 /\ VID_ORG + n < VRAM /\ i \in Nat
  BY <1>1, CalmFacts
<1>3. VID_ORG' = VID_ORG
  BY DEF Tick, putc, Begin, putc_newline, putc_return, Advance, Wraps, NextRow, Down,
     PlaceCursor, SetCursor, scroll, Scroll, Fits, MoveDown, CopyWord, CopyEnds, Row24,
     BlankWord, BlankEnds
<1>4. ASSUME NEW r \in Rows, NEW col \in TextColumns
      PROVE  vram'[VID_ORG + Word(r, col)] = vram[VID_ORG + Word(r, col)]
  <2>1. PICK w \in Nat : w = Word(r, col) /\ w < n
    BY <1>1, TextPlace
  <2>2. VID_ORG + w \in DOMAIN vram /\ r \in Int
    BY <1>2, <2>1 DEF Rows
  <2>3. CASE Tick \/ Scroll \/ BlankEnds
    <3>1. VID_ORG + w \notin Clock(org)
      BY <1>2, <2>1, <2>2, ClockAside
    <3> QED
      BY <2>1, <2>2, <2>3, <3>1, Draws DEF WritesClock
  <2>4. CASE CopyWord
    <3>1. i < Rest /\ n <= org /\ VID_ORG = org
      BY <1>1, <2>4 DEF CopyWord, Calm, CalmScroll, CalmWindow, Moved
    <3>2. VID_ORG + w # i
      BY <1>1, <1>2, <2>1, <3>1
    <3> QED
      BY <2>1, <2>2, <2>4, <3>2 DEF CopyWord
  <2>5. CASE BlankWord
    <3>1. /\ offset = org + Rest
          /\ \/ org = VID_ORG + LINE_WIDTH
             \/ org = 0 /\ n <= VID_ORG
      BY <1>1, <2>5 DEF BlankWord, Calm, CalmScroll, CalmWindow, Moved
    <3>2. PICK x \in Nat : x = offset + i /\ (x >= VID_ORG + n \/ x < VID_ORG)
      <4>1. PICK m \in Nat : m = Rest /\ m = n - LINE_WIDTH
        BY <1>1
      <4>2. i < LINE_WIDTH
        BY <2>5 DEF BlankWord
      <4>3. PICK x \in Nat : x = offset + i /\ x = org + m + i
        BY <1>2, <3>1, <4>1
      <4>4. x >= VID_ORG + n \/ x < VID_ORG
        BY <1>1, <1>2, <3>1, <4>1, <4>2, <4>3
      <4> QED
        BY <4>3, <4>4
    <3>3. VID_ORG + w # x
      BY <1>2, <2>1, <3>2
    <3> QED
      BY <2>1, <2>2, <2>5, <3>2, <3>3 DEF BlankWord
  <2>6. CASE ~Tick /\ ~Scroll /\ ~BlankEnds /\ ~CopyWord /\ ~BlankWord
    <3>1. vram' = vram
      BY <2>6 DEF putc, Begin, putc_newline, putc_return, Advance, Wraps, NextRow, Down,
         PlaceCursor, SetCursor, scroll, Fits, MoveDown, CopyEnds, Row24
    <3> QED
      BY <3>1
  <2> QED
    BY <2>3, <2>4, <2>5, <2>6
<1> QED
  BY <1>3, <1>4, TextStays

(* A character is written at its place, and nowhere else.                    *)
LEMMA TextWritten ==
  ASSUME RamInv, Calm, RamInv', VID_ORG' = VID_ORG, VID_ORG = org,
         NEW r \in Rows, NEW q \in Cols, NEW cell, cell # "NUL",
         vram' = [vram EXCEPT ![org + Word(r, q)] = cell]
  PROVE  Text' = Display!With(<<r, q>>, cell)
<1>1. PICK n \in Nat : n = Screenful
  BY ScreenSizes
<1>2. /\ DOMAIN vram = 0 .. VRAM + LINE_WIDTH - 1
      /\ org \in Nat /\ org + n < VRAM
  BY <1>1, CalmFacts
<1>3. ASSUME NEW s \in Rows, NEW col \in TextColumns
      PROVE  Seen(vram'[VID_ORG' + Word(s, col)]) =
                IF s = r /\ col = q THEN cell ELSE Seen(vram[VID_ORG + Word(s, col)])
  <2>1. Word(s, col) \in Nat /\ Word(s, col) < n /\ col \in Cols
    BY <1>1, TextPlace
  <2>2. org + Word(s, col) \in DOMAIN vram
    BY <1>2, <2>1
  <2>3. Word(r, q) \in Int /\ r \in Int /\ s \in Int
    <3>1. r \in Int /\ s \in Int
      BY DEF Rows
    <3> QED
      BY <3>1 DEF Word, Cols
  <2>4. org + Word(s, col) = org + Word(r, q) <=> s = r /\ col = q
    <3>1. Word(s, col) = Word(r, q) => s = r /\ col = q
      BY <2>1, <2>3, WordUnique
    <3> QED
      BY <1>2, <2>1, <2>3, <3>1
  <2> QED
    BY <2>2, <2>4 DEF Seen
<1> QED
  BY <1>3, TextWith

(* A scroll moves the text up when the 6845 is told of the new window.       *)
LEMMA ScrollShows ==
  ASSUME RamInv, Calm, RamInv', SetVidOrg
  PROVE  Text' = Display!MovedUp(Text)
<1>1. VID_ORG' = org /\ vram' = vram /\ Shifted /\ OpenedTo(LINE_WIDTH)
  BY DEF SetVidOrg, Calm, CalmScroll, Moved
<1>2. ASSUME NEW col \in TextColumns
      PROVE  Seen(vram'[VID_ORG' + Word(SCR_LINES - 1, col)]) = "blank"
  <2>1. col < LINE_WIDTH
    BY TextPlace DEF TextColumns
  <2> QED
    BY <1>1, <2>1 DEF OpenedTo, Seen
<1>3. ASSUME NEW col \in TextColumns, NEW r \in 0 .. SCR_LINES - 2
      PROVE  Seen(vram'[VID_ORG' + Word(r, col)]) = Seen(vram[VID_ORG + Word(r + 1, col)])
  BY <1>1 DEF Shifted
<1> QED
  BY <1>2, <1>3, TextMovesUp

(* A step that changes what is shown is one of the screen's.                 *)
LEMMA StepShows ==
  ASSUME RamInv, Calm, RamInv', Calm', Tick \/ putc \/ scroll
  PROVE  Display!ScreenNext \/ UNCHANGED <<Text, Cursor>>
<1>1. Cursor = Spot /\ Cursor' = Spot'
  BY CursorIsSpot, CursorIsSpotAfter
<1>2. /\ row \in Nat /\ column \in Nat /\ (at # "down" => row \in Rows)
      /\ (at # "wrap" => column \in Cols) /\ (at = "write" => c \in Chars)
  BY CalmFacts
<1>3. ASSUME Spot' = Spot, ~WriteWord, ~putc_backspace, ~SetVidOrg
      PROVE  UNCHANGED <<Text, Cursor>>
  BY <1>1, <1>3, TextKept
<1>4. CASE Tick
  <2>1. Spot' = Spot
    BY <1>4 DEF Tick, Spot, EndsLine
  <2>2. ~WriteWord /\ ~putc_backspace /\ ~SetVidOrg
    BY <1>2, <1>4 DEF Tick, WriteWord, putc_backspace, SetVidOrg, GoesTo
  <2> QED
    BY <1>3, <2>1, <2>2
<1>5. CASE WriteWord
  <2>1. at = "write" /\ at' = "advance" /\ row' = row /\ column' = column
           /\ VID_ORG' = VID_ORG /\ VID_ORG = org /\ c' = c
    BY <1>5 DEF WriteWord, GoesTo, Calm, CalmWindow, Moved
  <2>2. row \in Rows /\ column \in Cols /\ c \in Chars
    BY <1>2, <2>1
  <2>3. place = org + Word(row, column)
    BY <2>1, <2>2, CalmFacts, HereInside DEF Here, Calm, CalmCursor
  <2>4. Text' = Display!With(<<row, column>>, c)
    BY <1>5, <2>1, <2>2, <2>3, TextWritten DEF WriteWord
  <2>5. Cursor = [line |-> row, column |-> column]
          /\ Cursor' = [line |-> row, column |-> column + 1]
    BY <1>1, <2>1 DEF Spot, EndsLine
  <2>6. column < LINE_WIDTH
    BY <2>2 DEF Cols
  <2>7. Display!Put(c)
    BY <2>4, <2>5, <2>6 DEF Display!Put, Display!InLine
  <2> QED
    BY <2>2, <2>7 DEF Display!ScreenNext
<1>6. CASE putc_backspace
  <2>1. /\ at = "idle" /\ at' = at /\ row' = row /\ column' = column - 1 /\ column > 0
        /\ VID_ORG' = VID_ORG /\ VID_ORG = org /\ c' = c
    BY <1>6 DEF putc_backspace, Calm, CalmWindow, Moved
  <2>2. row \in Rows /\ column \in Cols
    BY <1>2, <2>1
  <2>3. PICK q \in Cols : q = column - 1
    BY <2>1, <2>2 DEF Cols
  <2>4. org + row * LINE_WIDTH + column - 1 = org + row * LINE_WIDTH + q
    <3>1. PICK z \in Int : z = row * LINE_WIDTH
      BY <2>2 DEF Rows
    <3> QED
      BY <2>2, <2>3, <3>1, CalmFacts DEF Cols
  <2>5. (org + row * LINE_WIDTH + column - 1) % VRAM = org + Word(row, q)
    BY <2>2, <2>4, CalmFacts, HereInside
  <2>6. Text' = Display!With(<<row, q>>, "blank")
    BY <1>6, <2>1, <2>2, <2>5, TextWritten DEF putc_backspace
  <2>7. Cursor = [line |-> row, column |-> column] /\ Cursor' = [line |-> row, column |-> q]
    BY <1>1, <2>1, <2>3 DEF Spot, EndsLine
  <2>8. column < LINE_WIDTH
    BY <2>2 DEF Cols
  <2>9. Display!BackSpace
    BY <2>1, <2>3, <2>6, <2>7, <2>8 DEF Display!BackSpace, Display!InLine
  <2> QED
    BY <2>9 DEF Display!ScreenNext
<1>7. CASE SetVidOrg
  <2>1. /\ at = "set_VID_ORG" /\ at' = "cursor" /\ row' = row /\ column' = column
        /\ row = SCR_LINES - 1 /\ c' = c /\ (EndsLine => column = 0)
    BY <1>7 DEF SetVidOrg, GoesTo, Calm, CalmCursor
  <2>2. Text' = Display!MovedUp(Text)
    BY <1>7, ScrollShows
  <2>3. Cursor' = [line |-> SCR_LINES - 1, column |-> column]
    BY <1>1, <2>1 DEF Spot, EndsLine
  <2>4. CASE EndsLine
    <3>1. Cursor = [line |-> SCR_LINES - 1, column |-> LINE_WIDTH] /\ column = 0
      BY <1>1, <2>1, <2>4 DEF Spot
    <3>2. Display!Wrap
      BY <2>2, <2>3, <3>1 DEF Display!Wrap, Display!InLine, Display!NextLine
    <3> QED
      BY <3>2 DEF Display!ScreenNext
  <2>5. CASE ~EndsLine
    <3>1. Cursor = [line |-> SCR_LINES - 1, column |-> column] /\ column < LINE_WIDTH
      BY <1>1, <1>2, <2>1, <2>5 DEF Spot, Cols
    <3>2. Display!LineFeed
      BY <2>2, <2>3, <3>1 DEF Display!LineFeed, Display!InLine, Display!NextLine
    <3> QED
      BY <3>2 DEF Display!ScreenNext
  <2> QED
    BY <2>4, <2>5
<1>8. CASE putc_return
  <2>1. /\ at = "idle" /\ at' = "cursor" /\ row' = row /\ column' = 0 /\ c' = c
    BY <1>8 DEF putc_return, GoesTo
  <2>2. Text' = Text
    <3>1. ~WriteWord /\ ~putc_backspace /\ ~SetVidOrg
      BY <2>1 DEF WriteWord, putc_backspace, SetVidOrg
    <3> QED
      BY <1>8, <3>1, TextKept DEF putc
  <2>3. /\ Cursor = [line |-> row, column |-> column] /\ column < LINE_WIDTH
        /\ Cursor' = [line |-> row, column |-> 0]
    BY <1>1, <1>2, <2>1 DEF Spot, EndsLine, Cols
  <2>4. Display!CarriageReturn
    BY <2>2, <2>3 DEF Display!CarriageReturn, Display!InLine
  <2> QED
    BY <2>4 DEF Display!ScreenNext
<1>9. CASE Down
  <2>1. /\ at = "down" /\ column' = column /\ c' = c /\ Text' = Text
    <3>1. ~WriteWord /\ ~putc_backspace /\ ~SetVidOrg
      BY <1>9 DEF Down, WriteWord, putc_backspace, SetVidOrg
    <3> QED
      BY <1>9, <3>1, TextKept DEF putc, Down
  <2>2. row < SCR_LINES + 1
    BY <2>1 DEF RamInv, WindowOK, Ahead, Calm, Interrupted
  <2>3. CASE row >= SCR_LINES
    <3>1. at' = "scroll" /\ row' = row - 1
      BY <1>2, <1>9, <2>2, <2>3 DEF Down, GoesTo
    <3>2. Cursor' = Cursor
      BY <1>1, <2>1, <3>1 DEF Spot, EndsLine
    <3> QED
      BY <2>1, <3>2
  <2>4. CASE ~(row >= SCR_LINES)
    <3>1. at' = "cursor" /\ row' = row
      BY <1>9, <2>4 DEF Down, GoesTo
    <3>2. Cursor' = [line |-> (row - 1) + 1, column |-> column] /\ row - 1 < SCR_LINES - 1
      BY <1>1, <1>2, <2>1, <2>4, <3>1 DEF Spot, EndsLine
    <3>3. CASE EndsLine
      <4>1. Cursor = [line |-> row - 1, column |-> LINE_WIDTH] /\ column = 0
        BY <1>1, <2>1, <3>3 DEF Spot, Calm, CalmCursor
      <4>2. Display!Wrap
        BY <2>1, <3>2, <4>1 DEF Display!Wrap, Display!InLine, Display!NextLine
      <4> QED
        BY <4>2 DEF Display!ScreenNext
    <3>4. CASE ~EndsLine
      <4>1. Cursor = [line |-> row - 1, column |-> column] /\ column < LINE_WIDTH
        BY <1>1, <1>2, <2>1, <3>4 DEF Spot, Cols
      <4>2. Display!LineFeed
        BY <2>1, <3>2, <4>1 DEF Display!LineFeed, Display!InLine, Display!NextLine
      <4> QED
        BY <4>2 DEF Display!ScreenNext
    <3> QED
      BY <3>3, <3>4
  <2> QED
    BY <2>3, <2>4
<1>10. CASE Wraps
  <2>1. at = "wrap" /\ row' = row /\ c' = c /\ c # "newline"
    BY <1>10 DEF Wraps, RamInv, FramesOK, FrameOK
  <2>2. column < LINE_WIDTH + 1
    BY <2>1 DEF RamInv, WindowOK, Ahead, Calm, Interrupted
  <2>3. CASE column >= LINE_WIDTH
    <3>1. column = LINE_WIDTH /\ at' = "nextrow"
      BY <1>2, <1>10, <2>2, <2>3 DEF Wraps, GoesTo
    <3> QED
      BY <1>3, <2>1, <3>1 DEF Spot, EndsLine, WriteWord, putc_backspace, SetVidOrg
  <2>4. CASE ~(column >= LINE_WIDTH)
    <3>1. column' = column /\ at' = "cursor"
      BY <1>10, <2>4 DEF Wraps, GoesTo
    <3> QED
      BY <1>3, <2>1, <3>1 DEF Spot, EndsLine, WriteWord, putc_backspace, SetVidOrg
  <2> QED
    BY <2>3, <2>4
<1>11. CASE \E char \in Chars : Begin(char)
  BY <1>3, <1>11 DEF Begin, GoesTo, Spot, EndsLine, WriteWord, putc_backspace, SetVidOrg
<1>12. CASE putc_newline
  BY <1>3, <1>12 DEF putc_newline, GoesTo, Spot, EndsLine, WriteWord, putc_backspace,
     SetVidOrg
<1>13. CASE Advance
  BY <1>3, <1>13 DEF Advance, GoesTo, Spot, EndsLine, WriteWord, putc_backspace, SetVidOrg
<1>14. CASE NextRow
  <2>1. /\ at = "nextrow" /\ at' = "down" /\ row' = row + 1 /\ column' = column /\ c' = c
    BY <1>14 DEF NextRow, GoesTo
  <2>2. row' - 1 = row
    BY <1>2, <2>1
  <2> QED
    BY <1>3, <2>1, <2>2 DEF Spot, EndsLine, WriteWord, putc_backspace, SetVidOrg
<1>15. CASE PlaceCursor \/ SetCursor
  BY <1>3, <1>15 DEF PlaceCursor, SetCursor, GoesTo, Spot, EndsLine, WriteWord,
     putc_backspace, SetVidOrg
<1>16. CASE scroll /\ ~SetVidOrg
  <2>1. /\ row' = row /\ column' = column /\ c' = c
        /\ at' \in {"fits", "move", "copy", "row24", "blank", "set_VID_ORG"}
        /\ at \in {"scroll", "fits", "move", "copy", "row24", "blank"}
    BY <1>16 DEF scroll, Scroll, Fits, MoveDown, CopyWord, CopyEnds, Row24, BlankWord,
       BlankEnds, GoesTo
  <2>2. Spot' = Spot
    BY <2>1 DEF Spot, EndsLine
  <2>3. ~WriteWord /\ ~putc_backspace
    BY <2>1 DEF WriteWord, putc_backspace
  <2> QED
    BY <1>3, <1>16, <2>2, <2>3
<1> QED
  BY <1>4, <1>5, <1>6, <1>7, <1>8, <1>9, <1>10, <1>11, <1>12, <1>13, <1>14, <1>15, <1>16
  DEF putc

(* A screen of blanks is shown first.                                        *)
LEMMA InitShows == vid_init => Display!ScreenInit
<1> SUFFICES ASSUME vid_init PROVE Display!ScreenInit
  OBVIOUS
<1>1. RamInv /\ Calm
  BY InitInv DEF TermIInv, vid_init
<1>2. Texts(Text, vram, VID_ORG)
  BY <1>1, TextAt
<1>3. ASSUME NEW r \in Rows, NEW col \in TextColumns PROVE Text[<<r, col>>] = "blank"
  <2>1. PICK w \in Nat : w = Word(r, col) /\ w < Screenful
    BY TextPlace
  <2>2. PICK n \in Nat : n = Screenful /\ VRAM > n + n
    BY ScreenSizes
  <2>3. w \in 0 .. VRAM + LINE_WIDTH - 1 /\ 0 + w = w
    BY <2>1, <2>2
  <2>4. vram[0 + w] = "blank"
    BY <2>1, <2>3 DEF vid_init
  <2>5. Text[<<r, col>>] = Seen(vram[0 + w])
    BY <1>2, <2>1 DEF Texts, vid_init
  <2> QED
    BY <2>4, <2>5 DEF Seen
<1>4. ASSUME NEW spot \in Rows \X TextColumns PROVE Text[spot] = "blank"
  <2>1. PICK r \in Rows, col \in TextColumns : spot = <<r, col>>
    OBVIOUS
  <2> QED
    BY <1>3, <2>1
<1>5. Text = [spot \in Rows \X TextColumns |-> "blank"]
  BY <1>2, <1>4 DEF Texts
<1>6. Cursor = [line |-> 0, column |-> 0]
  BY <1>1, CursorIsSpot DEF vid_init, Spot, EndsLine
<1> QED
  BY <1>5, <1>6 DEF Display!ScreenInit, Display!Line, Rows

(* vid.c implements a screen of text until a tick prints in the middle of a  *)
(* putc: what is shown changes only by a character, a return, a backspace    *)
(* and a new line, whole lines move up when the window moves down the RAM    *)
(* and when it is copied back, no scroll is seen by halves, and a tick that  *)
(* draws the clock between any two statements changes nothing in the columns *)
(* it does not own.                                                          *)
THEOREM DisplayIsScreen == TermSpec => ShowsScreen
<1>1. vid_init => Display!ScreenInit
  BY InitShows
<1>2. /\ TermIInv /\ TermIInv' /\ [TermNext]_termVars
      => [inside' > 0 \/ Display!ScreenNext]_<<Text, Cursor>>
  <2> SUFFICES ASSUME TermIInv, TermIInv', [TermNext]_termVars, ~(inside' > 0)
               PROVE  Display!ScreenNext \/ UNCHANGED <<Text, Cursor>>
    OBVIOUS
  <2>1. inside' = 0 /\ Calm'
    BY DEF TermIInv, RamInv, RegistersOK
  <2>2. CASE UNCHANGED termVars
    <3>1. Text' = Text
      <4>1. RamInv /\ RamInv'
        BY DEF TermIInv
      <4> QED
        BY <2>2, <4>1, TextStays DEF termVars
    <3>2. Cursor' = Cursor
      BY <2>2 DEF termVars, Cursor, EndsLine
    <3> QED
      BY <3>1, <3>2
  <2>3. CASE TermNext
    <3>1. Calm /\ (Tick \/ putc \/ scroll)
      BY <2>1, <2>3, CalmSteps
    <3> QED
      BY <2>1, <3>1, StepShows DEF TermIInv
  <2> QED
    BY <2>2, <2>3
<1> QED
  BY <1>1, <1>2, DisplayInvariant, PTL DEF TermSpec, ShowsScreen

=============================================================================
