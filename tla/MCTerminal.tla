----------------------------- MODULE MCTerminal -----------------------------
(* Small values for Terminal: a screen of two lines of two characters, in     *)
(* whose first column the clock is drawn, in a video RAM of four lines and    *)
(* one word, as the code's RAM is of a hundred and two lines and a rest.      *)
EXTENDS Terminal

MCChars == {"x"}
=============================================================================
