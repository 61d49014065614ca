----------------------------- MODULE TimerKernel -----------------------------
(***************************************************************************)
(* Time slices and the timer queue of 6-timer-interrupts: thandler of      *)
(* timer.c as an interrupt, kitimer cut where it lets interrupts in, the   *)
(* entries into and returns from the kernel of ts.s, and the system calls  *)
(* tswitch, fork, wait and exit.  Scheduling, sleeping, waking, waiting    *)
(* and dying are those of ProcKernel, whose code this kernel carries on.   *)
(* A step of thandler is a tick that completes a second; the others only   *)
(* count.  Interrupts in the middle of a list operation are not modelled.  *)
(***************************************************************************)
EXTENDS ProcKernel

CONSTANTS NFORKS,       \* processes that main forks
          SWITCH_TIME,  \* seconds of a time slice
          Times,        \* seconds that users ask kitimer for, as the int that
                        \* it makes of its u16: zero and less included
          MaxLate,      \* bound: seconds that the queue is followed past zero
          TqBase        \* address of tqtable[0]

(* The largest int of the compiler, of 16 bits.                              *)
MaxInt == 2^15 - 1

ASSUME TimerAssumption ==
    /\ NFORKS \in 1 .. NPROC - 1
    /\ SWITCH_TIME \in Nat \ {0}
    /\ TqBase \in Int /\ TqBase > ProcBase + NPROC

(* As long as no timer is later than MaxLate, the differences between these  *)
(* fit the int.                                                              *)
ASSUME TimesFit ==
    /\ MaxLate \in 0 .. MaxInt
    /\ Times \subseteq -MaxLate .. MaxInt - MaxLate

VARIABLES tq,           \* the timer queue, its entries linked by next
          astray,       \* whether thandler has followed tq past its end
          inkmode, time,
          at            \* where a process is: in user mode, in the kernel,
                        \* or in kitimer before its ksleep

timerVars == <<tq, astray, inkmode, time, at>>

(* The address of a process's entry in tqtable.                              *)
Entry(p) == TqBase + p

TimerInit ==
    /\ running = 0
    /\ status = [p \in Procs |-> IF p = 0 THEN "RUNNING" ELSE "FREE"]
    /\ ppid = [p \in Procs |-> 0]
    /\ parent = [p \in Procs |-> IF p = 0 THEN 0 ELSE NULL]
    /\ priority = [p \in Procs |-> 0]
    /\ event = [p \in Procs |-> 0]
    /\ exitCode = [p \in Procs |-> 0]
    /\ freeList = [i \in 1 .. NPROC - 1 |-> i]
    /\ readyQueue = << >> /\ sleepList = << >>
    /\ nproc = 1 /\ rflag = 0
    /\ pc = [p \in Procs |-> IF p = 0 THEN "kfork" ELSE "body"]
    /\ tq = << >> /\ astray = FALSE
    /\ inkmode = [p \in Procs |-> 1]
    /\ time = [p \in Procs |-> SWITCH_TIME]
    /\ at = [p \in Procs |-> "kernel"]

-----------------------------------------------------------------------------
(* Slip: INTH does not count the entry.                                      *)
Entered_not == inkmode

Entered == [inkmode EXCEPT ![running] = @ + 1]

(* INTH: running goes from user mode into the kernel.                        *)
InUmode == running # NULL /\ at[running] = "user"

Enter == inkmode' = Entered /\ at' = [at EXCEPT ![running] = "kernel"]

(* ireturn and goUmode: back to what was interrupted.                        *)
ireturn ==
    /\ running \notin {0, NULL}
    /\ at[running] = "kernel" /\ pc[running] = "body"
    /\ inkmode' = [inkmode EXCEPT ![running] = @ - 1]
    /\ at' = IF inkmode'[running] > 0 THEN at ELSE [at EXCEPT ![running] = "user"]
    /\ UNCHANGED <<vars, tq, astray, time>>

(* main: P0 makes its processes before it starts the clock.                  *)
MainForks ==
    /\ running = 0 /\ pc[0] = "kfork"
    /\ kfork
    /\ pc' = [pc EXCEPT ![0] = IF nproc' > NFORKS THEN "loop" ELSE "kfork"]
    /\ UNCHANGED timerVars

(* fork: the child has a whole slice and starts at goUmode.                  *)
kkfork ==
    /\ InUmode
    /\ kfork
    /\ LET child == Head(freeList)
       IN  /\ inkmode' = [Entered EXCEPT ![child] = 1]
           /\ time' = [time EXCEPT ![child] = SWITCH_TIME]
           /\ at' = [at EXCEPT ![running] = "kernel", ![child] = "kernel"]
    /\ UNCHANGED <<pc, tq, astray>>

ktswitch ==
    /\ InUmode
    /\ scheduler(status, readyQueue)
    /\ Enter
    /\ UNCHANGED <<ppid, parent, priority, event, exitCode, freeList,
                   sleepList, nproc, pc, tq, astray, time>>

kkwait == InUmode /\ DoWait /\ Enter /\ UNCHANGED <<tq, astray, time>>

(* A call that changes nothing here: getpid, getc, P1's exit, a fork without  *)
(* a PROC left, a wait without children.                                     *)
OtherCall == InUmode /\ Enter /\ UNCHANGED <<vars, tq, astray, time>>

kkexit(value) ==
    /\ InUmode
    /\ running # 1
    /\ kexit(value)
    /\ Enter
    /\ UNCHANGED <<tq, astray, time>>

-----------------------------------------------------------------------------
(* How long the first n entries of q take: the times are differences; only   *)
(* the first may be negative.                                                *)
Totals(q) ==
    LET sum[n \in 0 .. Len(q)] == IF n = 0 THEN 0 ELSE sum[n - 1] + q[n].time
    IN  sum

Total(q, n) == Totals(q)[n]

(* How many entries come before a new one of t seconds, behind its equals.   *)
Ahead(q, t) == Cardinality({n \in DOMAIN q : t >= Total(q, n)})

(* Slip: what the new entry takes is not taken from the next one.            *)
Inserted_double(q, p, t) ==
    InsertAt(q, Ahead(q, t) + 1, [proc |-> p, time |-> t - Total(q, Ahead(q, t))])

(* The queue q with an entry for p.  The code leaves the next field of an    *)
(* entry alone when the queue is empty; the queue is empty only before its   *)
(* first entry, whose next is still zero, because it never runs empty again  *)
(* without thandler going astray.                                            *)
Inserted(q, p, t) ==
    LET k == Ahead(q, t)
        own == t - Total(q, k)
        rest == SubSeq(q, k + 1, Len(q))
    IN  SubSeq(q, 1, k)
        \o <<[proc |-> p, time |-> own]>>
        \o (IF rest = << >> THEN rest ELSE [rest EXCEPT ![1].time = @ - own])

(* kitimer up to its unlock; it prints the queue before it sleeps.           *)
kitimer(t) ==
    /\ InUmode
    /\ tq' = Inserted(tq, running, t)
    /\ inkmode' = Entered
    /\ at' = [at EXCEPT ![running] = "kitimer"]
    /\ UNCHANGED <<vars, astray, time>>

GoToSleep ==
    /\ running # NULL /\ at[running] = "kitimer"
    /\ ksleep(Entry(running))
    /\ at' = [at EXCEPT ![running] = "kernel"]
    /\ UNCHANGED <<ppid, parent, priority, exitCode, freeList, nproc, pc,
                   tq, astray, inkmode, time>>

(* Slip: the test is off by one.                                             *)
FromUmode_never == inkmode[running] + 1 < 1

(* thandler's test, INTH having counted it in: the interrupt came in user    *)
(* mode.                                                                     *)
FromUmode == inkmode[running] + 1 < 2

(* Slip: the slice is not set again.                                         *)
Refilled_not == [time EXCEPT ![running] = @ - 1]

Refilled == [time EXCEPT ![running] = SWITCH_TIME]

(* The slice of the running process ends, and thandler returns before it     *)
(* gets to the timer queue.                                                  *)
SliceEnds ==
    /\ FromUmode /\ time[running] = 1
    /\ time' = Refilled
    /\ scheduler(status, readyQueue)
    /\ Enter
    /\ UNCHANGED <<ppid, parent, priority, event, exitCode, freeList,
                   sleepList, nproc, pc, tq, astray>>

(* Slip: one timer is taken off per second.                                  *)
Expired_first(q) == IF q # << >> /\ q[1].time = 0 THEN 1 ELSE 0

(* How many entries at the head of q have no time left.                      *)
Expired(q) == Min({n \in 0 .. Len(q) : n = Len(q) \/ q[n + 1].time # 0})

(* "while (tq->time == 0) kwakeup(tq)", for the entries of q.                 *)
WakeAll(l, q) ==
    LET turn[i \in 0 .. Len(q)] ==
            IF i = 0 THEN l ELSE kwakeup(turn[i - 1], Entry(q[i].proc))
    IN  turn[Len(q)]

(* A second of the timer queue.  A head that is zero or less before is       *)
(* counted on, and nobody behind it is woken; the model follows it as far as *)
(* MaxLate, the code until it wraps.  When the last entry is taken off, the  *)
(* loop reads on through tq, which is NULL then: the word at address 2, in   *)
(* the far jump with which ts.s begins, is zero, so it goes on to the        *)
(* instructions of the kernel as if they were an entry.                      *)
SecondPasses ==
    /\ ~(FromUmode /\ time[running] = 1)
    /\ tq # << >> => tq[1].time > -MaxLate
    /\ time' = IF FromUmode THEN [time EXCEPT ![running] = @ - 1] ELSE time
    /\ LET q == IF tq = << >> THEN tq ELSE [tq EXCEPT ![1].time = @ - 1]
           n == Expired(q)
           l == WakeAll(Lists, SubSeq(q, 1, n))
       IN  /\ tq' = SubSeq(q, n + 1, Len(q))
           /\ astray' = (tq # << >> /\ tq' = << >>)
           /\ status' = l.status /\ readyQueue' = l.ready /\ sleepList' = l.sleep
    /\ UNCHANGED <<running, ppid, parent, priority, event, exitCode, freeList,
                   nproc, rflag, pc, inkmode, at>>

(* The clock interrupt.  main starts the clock after its forks; P0 is in the *)
(* kernel all the time.                                                      *)
thandler ==
    /\ running # NULL /\ pc[0] # "kfork"
    /\ SliceEnds \/ SecondPasses

(* What the kernel goes on with by itself.                                   *)
KernelStep ==
    \/ MainSwitch /\ UNCHANGED timerVars
    \/ WaitAgain /\ UNCHANGED timerVars
    \/ ireturn
    \/ GoToSleep

(* Once astray thandler counts down instructions of the kernel, and what     *)
(* follows is not described.                                                 *)
TimerNext ==
    /\ ~astray
    /\ \/ MainForks
       \/ KernelStep
       \/ thandler
       \/ ktswitch
       \/ kkfork
       \/ kkwait
       \/ OtherCall
       \/ \E value \in ExitValues : kkexit(value)
       \/ \E t \in Times : kitimer(t)

TimerSpec == TimerInit /\ [][TimerNext]_<<vars, timerVars>>

(* The machine executes the kernel's code, and the clock goes on ticking: a  *)
(* process that comes back to user mode for ever is there at some ticks, not *)
(* in the kernel at each of them.  Users need not do anything.               *)
FairTimerSpec ==
    /\ TimerSpec
    /\ WF_<<vars, timerVars>>(TimerNext /\ (MainForks \/ KernelStep))
    /\ SF_<<vars, timerVars>>(TimerNext /\ InUmode /\ thandler)

-----------------------------------------------------------------------------
(* Every variable of the timer stays of its type.                            *)
TimerTypeOK ==
    /\ \A i \in DOMAIN tq : tq[i].proc \in Procs /\ tq[i].time \in Int
    /\ astray \in BOOLEAN
    /\ inkmode \in [Procs -> 0 .. 2]
    /\ time \in [Procs -> Int]
    /\ at \in [Procs -> {"user", "kernel", "kitimer"}]

(* Everything is of its type, and inkmode counts how deep a process is in    *)
(* the kernel, over preemption in thandler, sleeps, exits and reused PROCs:  *)
(* thandler, which knows only inkmode, never takes the machine from the      *)
(* kernel and always may take it from user mode.                             *)
InkmodeTellsMode ==
    /\ TimerTypeOK
    /\ \A p \in Procs : inkmode[p] = IF at[p] = "user" THEN 0 ELSE 1

(* thandler tests the slice for zero, not for less: no process's time ever   *)
(* gets there, or it would never be switched again.                          *)
SliceInBounds == \A p \in Procs : time[p] \in 1 .. SWITCH_TIME

(* thandler tests the timer at the head for zero, not for less, so that a    *)
(* head without time left holds up the whole queue.  It gets there only by a *)
(* kitimer of zero seconds or less, never by thandler's own counting or by   *)
(* the differences; from then on no entry leaves the queue, and nobody on it *)
(* is woken.                                                                 *)
HeldUp == tq # << >> /\ tq[1].time <= 0
Waiting == {tq[i].proc : i \in DOMAIN tq}

OnlyZeroHoldsUp ==
    [][/\ HeldUp' => HeldUp \/ \E t \in Times : t <= 0 /\ kitimer(t)
       /\ HeldUp => HeldUp' /\ Waiting \subseteq Waiting']_<<vars, timerVars>>

(* What p has left, by the queue q, of the seconds that it asked for.        *)
SecondsLeft(q, p) == Total(q, CHOOSE i \in DOMAIN q : q[i].proc = p)

(* The differences in the timer queue add up: an insertion changes nobody's  *)
(* remaining time, and each second of the queue takes one from everybody's.  *)
Alarm == INSTANCE TimerAlarm WITH
    Sleepers <- Procs,
    Seconds <- Times,
    left <- [p \in Waiting |-> SecondsLeft(tq, p)]

KeepsTime == Alarm!AlarmSpec

(* A process that is ready gets the machine in the end, whatever the others  *)
(* do: nobody keeps it for longer than a slice.                              *)
EveryoneRuns ==
    \A p \in Procs \ {0} : status[p] = "READY" ~> status[p] # "READY"

(* A process that waits while it has a dead child lays it to rest.           *)
WaitersGoOn ==
    \A p \in Procs \ {0} : pc[p] = "kwait" /\ Dead(p) # {} ~> pc[p] = "body"

(* README.md:47 says that a process that sleeps becomes ready when its time  *)
(* expires: while it sleeps it must have its entry on the queue.             *)
SleeperHasTimer ==
    \A p \in Procs : status[p] = "SLEEP" /\ event[p] = Entry(p) =>
        \E i \in DOMAIN tq : tq[i].proc = p

=============================================================================
