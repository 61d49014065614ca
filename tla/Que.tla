-------------------------------- MODULE Que --------------------------------
(***************************************************************************)
(* que.c, the list module that every kernel of the course shares.  A list  *)
(* of PROCs linked through their next fields is the sequence of the        *)
(* processes on it; pri is the function that gives each one its priority   *)
(* field.  A process is on one list at most, which is what makes the       *)
(* sequence a faithful picture of the single next field: ProcKernel states *)
(* that as an invariant.                                                   *)
(***************************************************************************)
EXTENDS Integers, Sequences, SequencesExt

(* Slip: a walk that stops at the first process of the same priority.       *)
Place_equal(q, p, pri) ==
    CHOOSE k \in 1 .. Len(q) + 1 :
        /\ \A j \in 1 .. k - 1 : pri[p] < pri[q[j]]
        /\ k <= Len(q) => pri[q[k]] <= pri[p]

(* enqueue's walk: the first place whose process has a lower priority than  *)
(* p, else the place after the last.  The walk does not need q sorted.      *)
Place(q, p, pri) ==
    CHOOSE k \in 1 .. Len(q) + 1 :
        /\ \A j \in 1 .. k - 1 : pri[p] <= pri[q[j]]
        /\ k <= Len(q) => pri[q[k]] < pri[p]

enqueue(q, p, pri) == InsertAt(q, Place(q, p, pri), p)

(* dequeue and get_proc both take the first process of the list.            *)
dequeue(q) == [proc |-> Head(q), rest |-> Tail(q)]

put_proc(list, p) == <<p>> \o list

(* "while (p = dequeue(&s)) if (p is in S) enqueue(&q, p)": the members of  *)
(* S are enqueued into q in the order in which they stood on s.             *)
EnqueueAll(q, s, S, pri) ==
    LET run[i \in 0 .. Len(s)] ==
            IF i = 0 THEN q
            ELSE IF s[i] \in S THEN enqueue(run[i - 1], s[i], pri)
            ELSE run[i - 1]
    IN  run[Len(s)]

-----------------------------------------------------------------------------

Sorted(s, pri) == \A i, j \in 1 .. Len(s) : i < j => pri[s[j]] <= pri[s[i]]

=============================================================================
