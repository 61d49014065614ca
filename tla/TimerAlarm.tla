----------------------------- MODULE TimerAlarm -----------------------------
(***************************************************************************)
(* What the timer queue promises: a process asks for a number of seconds,  *)
(* each second of the queue counts for everybody who waits, and asking     *)
(* takes nothing from the others.  Who has none left is woken, unless      *)
(* somebody was late before: whoever asks for zero seconds or less is late *)
(* from the start, and from then on nobody is woken.                       *)
(***************************************************************************)
EXTENDS Integers

CONSTANTS Sleepers, Seconds

VARIABLE left           \* the seconds that each process which waits has left

Ask(p, t) ==
    /\ p \notin DOMAIN left
    /\ left' = [q \in DOMAIN left \cup {p} |-> IF q = p THEN t ELSE left[q]]

Late == \E p \in DOMAIN left : left[p] <= 0
Rings == IF Late THEN {} ELSE {p \in DOMAIN left : left[p] = 1}

Second ==
    /\ DOMAIN left # {}
    /\ left' = [p \in DOMAIN left \ Rings |-> left[p] - 1]

AlarmInit == DOMAIN left = {}

AlarmNext == Second \/ \E p \in Sleepers, t \in Seconds : Ask(p, t)

AlarmSpec == AlarmInit /\ [][AlarmNext]_left

=============================================================================
