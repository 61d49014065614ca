------------------------------ MODULE Semaphore ------------------------------
(***************************************************************************)
(* The struct semaphore of pv.c: P and V on its value and its queue.  Both *)
(* run with interrupts off, so each is a single step up to its tswitch.    *)
(***************************************************************************)
EXTENDS Que

Semaphore(n) == [value |-> n, queue |-> << >>]

(* P has to stop the process that calls it.                                 *)
Blocks(s) == s.value - 1 < 0

(* Slip: who has to wait is not counted.                                    *)
Down_uncounted(s, p, pri) ==
    [value |-> IF Blocks(s) THEN s.value ELSE s.value - 1,
     queue |-> IF Blocks(s) THEN enqueue(s.queue, p, pri) ELSE s.queue]

Down(s, p, pri) ==
    [value |-> s.value - 1,
     queue |-> IF Blocks(s) THEN enqueue(s.queue, p, pri) ELSE s.queue]

(* Slip: the last one on the queue is left there.                           *)
Wakes_notLast(s) == s.value + 1 < 0

(* V takes a process off the queue.                                         *)
Wakes(s) == s.value + 1 <= 0

Up(s) ==
    [value |-> s.value + 1,
     queue |-> IF Wakes(s) THEN dequeue(s.queue).rest ELSE s.queue]

(* The value counts the units left or, negative, the processes that wait.   *)
Counts(s) == Len(s.queue) = IF s.value < 0 THEN -s.value ELSE 0

=============================================================================
