------------------------------ MODULE ProcLife ------------------------------
(***************************************************************************)
(* What the kernels promise about the life of a process, whatever the      *)
(* scheduler, the queues and the sleepers do: a process is forked by a     *)
(* living one, dies once, and is laid to rest once, by the process that is *)
(* its parent at that time; whoever dies leaves its children, dead or      *)
(* alive, to P1; and P1 does not die before everybody else is gone.        *)
(***************************************************************************)
EXTENDS Integers, FiniteSets

CONSTANTS Procs,    \* process slots, 0 and 1 among them
          Codes,    \* exit values
          NULL      \* the parent of a slot that holds no process

VARIABLES doer,     \* the process that acts
          life,     \* "none", "alive" or "dead"
          mother,   \* the present parent of each process
          lastWord  \* exit value of a dead process, 0 otherwise

lifeVars == <<doer, life, mother, lastWord>>

LifeInit ==
    /\ doer = 0
    /\ life = [p \in Procs |-> IF p = 0 THEN "alive" ELSE "none"]
    /\ mother = [p \in Procs |-> NULL]
    /\ lastWord = [p \in Procs |-> 0]

(* Some living process, of the scheduler's choice, acts next.                *)
Switch == doer' \in Procs /\ life'[doer'] = "alive"

Yield == Switch /\ UNCHANGED <<life, mother, lastWord>>

Fork(c) ==
    /\ life[c] = "none"
    /\ life' = [life EXCEPT ![c] = "alive"]
    /\ mother' = [mother EXCEPT ![c] = doer]
    /\ UNCHANGED <<doer, lastWord>>

Die(code) ==
    /\ doer # 0
    /\ doer = 1 => \A q \in Procs \ {0, 1} : life[q] = "none"
    /\ life' = [life EXCEPT ![doer] = "dead"]
    /\ mother' = [c \in Procs |-> IF mother[c] = doer THEN 1 ELSE mother[c]]
    /\ lastWord' = [lastWord EXCEPT ![doer] = code]
    /\ Switch

Bury(c) ==
    /\ life[c] = "dead" /\ mother[c] = doer
    /\ life' = [life EXCEPT ![c] = "none"]
    /\ mother' = [mother EXCEPT ![c] = NULL]
    /\ lastWord' = [lastWord EXCEPT ![c] = 0]
    /\ UNCHANGED doer

LifeNext ==
    \/ Yield
    \/ \E c \in Procs : Fork(c) \/ Bury(c)
    \/ \E code \in Codes : Die(code)

LifeSpec == LifeInit /\ [][LifeNext]_lifeVars

=============================================================================
