------------------------------- MODULE Screen -------------------------------
(***************************************************************************)
(* What the display promises: a screen of text with a cursor, that a       *)
(* character is written at the cursor and that, when the cursor would      *)
(* leave the last line, the first line goes and all the others move up.    *)
(***************************************************************************)
EXTENDS Integers

CONSTANTS Lines, Width,     \* how many lines, and characters on a line
          Columns,          \* the columns that show text
          Chars             \* what can be printed

VARIABLES text,             \* the character at each place, "blank" or in Chars
          cursor            \* [line, column] of the next character

screenVars == <<text, cursor>>

Line == 0 .. Lines - 1

ScreenInit ==
    /\ text = [place \in Line \X Columns |-> "blank"]
    /\ cursor = [line |-> 0, column |-> 0]

(* The text t with its first line gone.                                      *)
MovedUp(t) ==
    [place \in Line \X Columns |->
        IF place[1] = Lines - 1 THEN "blank" ELSE t[<<place[1] + 1, place[2]>>]]

(* The cursor goes to the column on the next line.                           *)
NextLine(column) ==
    IF cursor.line < Lines - 1
    THEN UNCHANGED text /\ cursor' = [line |-> cursor.line + 1, column |-> column]
    ELSE text' = MovedUp(text) /\ cursor' = [cursor EXCEPT !.column = column]

(* The text with c at the place, if the column is one that shows text.       *)
With(place, c) == [x \in DOMAIN text |-> IF x = place THEN c ELSE text[x]]

InLine == cursor.column < Width

(* The end of a line is written before the next one begins.                  *)
Put(c) ==
    /\ InLine
    /\ text' = With(<<cursor.line, cursor.column>>, c)
    /\ cursor' = [cursor EXCEPT !.column = @ + 1]

Wrap == ~InLine /\ NextLine(0)

LineFeed == InLine /\ NextLine(cursor.column)

CarriageReturn == InLine /\ cursor' = [cursor EXCEPT !.column = 0] /\ UNCHANGED text

BackSpace ==
    /\ InLine /\ cursor.column > 0
    /\ cursor' = [cursor EXCEPT !.column = @ - 1]
    /\ text' = With(<<cursor.line, cursor.column - 1>>, "blank")

ScreenNext ==
    \/ \E c \in Chars : Put(c)
    \/ Wrap
    \/ LineFeed
    \/ CarriageReturn
    \/ BackSpace

ScreenSpec == ScreenInit /\ [][ScreenNext]_screenVars
=============================================================================
