---------------------------- MODULE SerialKernel ----------------------------
(***************************************************************************)
(* Reading lines from a serial port, in the kernel of 7-semaphores-serial: *)
(* the receive interrupt do_rx, ksin and sgetc over the semaphores of pv.c *)
(* and the circular buffer of struct stty, with the system calls tswitch,  *)
(* fork, wait and exit.  Scheduling, waiting and dying are those of        *)
(* ProcKernel, whose code this kernel carries on.  A system call that a    *)
(* receive interrupt cannot tell from its parts is one action; ksin is cut *)
(* after every P and wherever interrupts are on.  It is port 0: nothing    *)
(* answers the interrupts of the other one.                                *)
(***************************************************************************)
EXTENDS ProcKernel, Semaphore

CONSTANTS BUFLEN,       \* characters that inbuf holds
          Chars,        \* characters that are typed at the terminal
          LineEnds      \* those at which ksin stops

ASSUME SerialAssumption ==
    /\ BUFLEN \in Nat \ {0}
    /\ LineEnds \subseteq Chars

VARIABLES inbuf, inhead, intail,
          inchars, inmutex,
          where,        \* in user mode, or in ksin before or after a P(inchars)
          irq,          \* whether interrupts are on in ksin
          pending       \* history: accepted by do_rx, not yet taken by sgetc

sttyVars == <<inbuf, inhead, intail, inchars, inmutex, pending>>
serialVars == <<sttyVars, where, irq>>
listVars == <<running, status, readyQueue, rflag>>
othersVars == <<ppid, parent, priority, event, exitCode, freeList, sleepList,
                nproc, pc>>

(* sinit, and init with P0 its own parent.                                   *)
SerialInit ==
    /\ running = 0
    /\ status = [p \in Procs |-> IF p = 0 THEN "RUNNING" ELSE "FREE"]
    /\ ppid = [p \in Procs |-> 0]
    /\ parent = [p \in Procs |-> IF p = 0 THEN 0 ELSE NULL]
    /\ priority = [p \in Procs |-> 0]
    /\ event = [p \in Procs |-> 0]
    /\ exitCode = [p \in Procs |-> 0]
    /\ freeList = [i \in 1 .. NPROC - 1 |-> i]
    /\ readyQueue = << >> /\ sleepList = << >>
    /\ nproc = 1 /\ rflag = 0
    /\ pc = [p \in Procs |-> IF p = 0 THEN "kfork" ELSE "body"]
    /\ inbuf = [i \in 0 .. BUFLEN - 1 |-> NULL]
    /\ inhead = 0 /\ intail = 0
    /\ inchars = Semaphore(0) /\ inmutex = Semaphore(1)
    /\ where = [p \in Procs |-> "user"]
    /\ irq = [p \in Procs |-> "off"]
    /\ pending = << >>

-----------------------------------------------------------------------------
(* What P(s) does to the processes.                                          *)
P(s) ==
    IF Blocks(s) THEN scheduler([status EXCEPT ![running] = "STOPPED"], readyQueue)
    ELSE UNCHANGED listVars

(* What V(s) does to them; it does not switch.                               *)
V(s) ==
    /\ IF Wakes(s)
       THEN LET p == dequeue(s.queue).proc
            IN  /\ status' = [status EXCEPT ![p] = "READY"]
                /\ readyQueue' = enqueue(readyQueue, p, priority)
       ELSE UNCHANGED <<status, readyQueue>>
    /\ UNCHANGED <<running, rflag>>

(* The interrupt flag after P(s): tswitch turns interrupts on when the       *)
(* process is back, for a moment, and then int_on puts back what was.        *)
AfterP(s) == IF Blocks(s) THEN (IF irq[running] = "off" THEN "moment" ELSE irq[running])
             ELSE (IF irq[running] = "moment" THEN "off" ELSE irq[running])

(* Slip: the room is tested one too late.                                    *)
Full_late == inchars.value > BUFLEN

Full == inchars.value >= BUFLEN

(* The receive interrupt.  do_rx drops what is typed into a full buffer; its *)
(* echo, and its printing, which turns interrupts on under it, change        *)
(* nothing, as the controller lets no second one in before shandler is done. *)
do_rx(c) ==
    /\ running # NULL
    /\ where[running] = "user" \/ irq[running] # "off"
    /\ ~Full
    /\ inbuf' = [inbuf EXCEPT ![inhead] = c]
    /\ inhead' = (inhead + 1) % BUFLEN
    /\ inchars' = Up(inchars)
    /\ V(inchars)
    /\ pending' = Append(pending, c)
    /\ UNCHANGED <<intail, inmutex, where, irq, othersVars>>

InUser == running \notin {0, NULL} /\ pc[running] = "body" /\ where[running] = "user"

(* ksin up to its P(inmutex), which int80h enters with interrupts off.       *)
ksin ==
    /\ InUser
    /\ inmutex' = Down(inmutex, running, priority)
    /\ P(inmutex)
    /\ where' = [where EXCEPT ![running] = "ksin"]
    /\ irq' = [irq EXCEPT ![running] = IF Blocks(inmutex) THEN "moment" ELSE "off"]
    /\ UNCHANGED <<inbuf, inhead, intail, inchars, pending, othersVars>>

(* sgetc up to its P(inchars).                                               *)
AwaitChar ==
    /\ running # NULL /\ where[running] = "ksin"
    /\ inchars' = Down(inchars, running, priority)
    /\ P(inchars)
    /\ where' = [where EXCEPT ![running] = "sgetc"]
    /\ irq' = [irq EXCEPT ![running] = AfterP(inchars)]
    /\ UNCHANGED <<inbuf, inhead, intail, inmutex, pending, othersVars>>

(* Slip: the mutex is not given back.                                        *)
EndOfLine_kept(c) == c \in LineEnds /\ UNCHANGED <<inmutex, listVars>>

(* The place after i in the buffer.                                          *)
After(i) == (i + 1) % BUFLEN

(* ksin at the end of a line: V(inmutex), and back to user mode.             *)
EndOfLine(c) ==
    /\ c \in LineEnds
    /\ inmutex' = Up(inmutex)
    /\ V(inmutex)

(* The rest of sgetc, with interrupts off between lock and unlock, and what  *)
(* ksin does with the character.                                             *)
TakeChar ==
    /\ running # NULL /\ where[running] = "sgetc"
    /\ intail' = After(intail)
    /\ pending' = Tail(pending)
    /\ LET c == inbuf[intail]
       IN  \/ /\ EndOfLine(c)
              /\ where' = [where EXCEPT ![running] = "user"]
              /\ irq' = [irq EXCEPT ![running] = "off"]
           \/ /\ c \notin LineEnds
              /\ where' = [where EXCEPT ![running] = "ksin"]
              /\ irq' = [irq EXCEPT ![running] = "on"]
              /\ UNCHANGED <<inmutex, listVars>>
    /\ UNCHANGED <<inbuf, inhead, inchars, othersVars>>

-----------------------------------------------------------------------------
kkexit(value) ==
    /\ running # 1
    /\ kexit(value)

(* The other system calls, by their cases in kcinth.  ksout runs with        *)
(* interrupts off from its P to its V and leaves everything as it was.       *)
kcinth ==
    /\ InUser
    /\ \/ DoTswitch
       \/ DoKfork
       \/ DoWait
       \/ \E value \in ExitValues : kkexit(value)
    /\ UNCHANGED serialVars

SerialNext ==
    \/ MainFork /\ UNCHANGED serialVars
    \/ MainSwitch /\ UNCHANGED serialVars
    \/ WaitAgain /\ UNCHANGED serialVars
    \/ kcinth
    \/ ksin
    \/ AwaitChar
    \/ TakeChar
    \/ \E c \in Chars : do_rx(c)

SerialSpec == SerialInit /\ [][SerialNext]_<<vars, serialVars>>

-----------------------------------------------------------------------------
(* Every variable of the serial port stays of its type.                      *)
SerialTypeOK ==
    /\ inbuf \in [0 .. BUFLEN - 1 -> Chars \cup {NULL}]
    /\ inhead \in 0 .. BUFLEN - 1 /\ intail \in 0 .. BUFLEN - 1
    /\ inchars.value \in Int /\ inmutex.value \in Int
    /\ inchars.queue \in Seq(Procs) /\ inmutex.queue \in Seq(Procs)
    /\ where \in [Procs -> {"user", "ksin", "sgetc"}]
    /\ irq \in [Procs -> {"off", "moment", "on"}]
    /\ pending \in Seq(Chars)

(* A semaphore's value tells how many wait on its queue, so that V never     *)
(* dequeues from an empty one, and every process that P has stopped is on    *)
(* exactly one of the two queues, as a PROC has one next field.              *)
SemaphoresSound ==
    /\ Counts(inchars) /\ Counts(inmutex)
    /\ IsInjective(inchars.queue \o inmutex.queue)
    /\ Range(inchars.queue \o inmutex.queue) = WithStatus("STOPPED")

Readers == {p \in Procs : where[p] # "user"} \ Range(inmutex.queue)

(* Two lines never mix: from its first character to the end of the line one  *)
(* process reads, through blocking, wakeups and the interrupts between.      *)
OneReader == Cardinality(Readers) = IF inmutex.value <= 0 THEN 1 ELSE 0

(* What sgetc is about to take is what was typed, in order, no character     *)
(* twice and none left out.  inchars counts down in P, before the character  *)
(* leaves the buffer, so do_rx may put one character too many in; then only  *)
(* the oldest is overwritten, by the newest.                                 *)
CharsInOrder ==
    /\ Len(pending) <= BUFLEN + 1
    /\ inhead = (intail + Len(pending)) % BUFLEN
    /\ \A i \in DOMAIN pending :
          i > Len(pending) - BUFLEN => inbuf[(intail + i - 1) % BUFLEN] = pending[i]

(* No reader waits while there is something to read: the characters that     *)
(* are promised by inchars or already to a reader are those in the buffer.   *)
CharsCounted ==
    /\ SerialTypeOK
    /\ inchars.value = Len(pending) - Cardinality({p \in Procs : where[p] = "sgetc"})

=============================================================================
