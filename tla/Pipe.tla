-------------------------------- MODULE Pipe --------------------------------
(***************************************************************************)
(* The PIPE object of pipe.c: a circular buffer with its two counters of   *)
(* bytes and its two counters of users.  kwritepipe and kreadpipe move     *)
(* bytes one at a time without being interrupted by another process, so    *)
(* what one turn of their inner loops moves is a sequence of bytes here.   *)
(***************************************************************************)
EXTENDS Integers, Sequences

CONSTANT PSIZE          \* bytes in a pipe

ASSUME PipeAssumption == PSIZE \in Nat \ {0}

Slots == 0 .. PSIZE - 1

(* A pipe as kpipe leaves it, over whatever is in its buffer.                *)
Opened(p) == [p EXCEPT !.head = 0, !.tail = 0, !.data = 0, !.room = PSIZE,
                       !.nreader = 1, !.nwriter = 1]

(* A pipe that its last user has closed.                                     *)
Emptied(p) == [p EXCEPT !.buf = [i \in Slots |-> 0], !.head = 0, !.tail = 0,
                        !.data = 0, !.room = PSIZE]

(* Slip: head is not moved past what was written.                            *)
Filled_headLeft(p, s) ==
    [p EXCEPT !.buf = [i \in Slots |-> LET k == (i - p.head) % PSIZE
                                       IN  IF k < Len(s) THEN s[k + 1] ELSE @[i]],
              !.data = @ + Len(s), !.room = @ - Len(s)]

(* The bytes of s are written from head on, round the end of the buffer.     *)
Filled(p, s) ==
    [p EXCEPT !.buf = [i \in Slots |-> LET k == (i - p.head) % PSIZE
                                       IN  IF k < Len(s) THEN s[k + 1] ELSE @[i]],
              !.head = (@ + Len(s)) % PSIZE,
              !.data = @ + Len(s), !.room = @ - Len(s)]

(* n bytes are read from tail on.                                            *)
Drained(p, n) ==
    [p EXCEPT !.tail = (@ + n) % PSIZE, !.data = @ - n, !.room = @ + n]

(* The n bytes that are read next.                                           *)
Oldest(p, n) == [i \in 1 .. n |-> p.buf[(p.tail + i - 1) % PSIZE]]

-----------------------------------------------------------------------------
Contents(p) == Oldest(p, p.data)

(* head, tail, data and room tell the same story.                            *)
RingIsSound(p) ==
    /\ p.head \in Slots
    /\ p.tail \in Slots
    /\ p.data \in 0 .. PSIZE
    /\ p.room = PSIZE - p.data
    /\ p.head = (p.tail + p.data) % PSIZE

=============================================================================
