----------------------------- MODULE ProcKernel -----------------------------
(***************************************************************************)
(* The process-switching kernel of 2-tswitch: t.c, kernel.c, wait.c and    *)
(* the tswitch of ts.s, over the lists of que.c.  The kernel does not      *)
(* preempt: the running process keeps the machine from one tswitch to the  *)
(* next, so each command of body is one action, and what a process does    *)
(* when it is switched back in is its own later action, recorded in pc.    *)
(***************************************************************************)
EXTENDS Integers, FiniteSets, Que

CONSTANTS NPROC,        \* number of PROC structures
          UserEvents,   \* integers typed as an event to sleep on or wake up
          UserPids,     \* integers typed as a pid
          UserPris,     \* integers typed as a priority
          ExitValues,   \* digits typed as an exit value
          ProcBase,     \* address of proc[0], a PROC taking one unit
          Runs          \* the status by which scheduler knows that the running
                        \* process can go on: RUNNING, but READY in 3-syscalls

(* P0 is made by init and P1 by main; everything typed is an integer.        *)
ASSUME ProcKernelAssumption ==
    /\ NPROC \in Nat /\ NPROC >= 2
    /\ UserEvents \subseteq Int
    /\ UserPids \subseteq Int
    /\ UserPris \subseteq Int
    /\ ExitValues \subseteq Int
    /\ ProcBase \in Int
    /\ Runs \in {"RUNNING", "READY"}

VARIABLES running, status, ppid, parent, priority, event, exitCode,
          freeList, readyQueue, sleepList, nproc, rflag, pc

vars == <<running, status, ppid, parent, priority, event, exitCode,
          freeList, readyQueue, sleepList, nproc, rflag, pc>>

Procs == 0 .. NPROC - 1
NULL == -1
Address(p) == ProcBase + p

(* Where a process is in the code when it is not executing a command:        *)
(* P0 before main's kfork, at the head of main's loop and in its tswitch;    *)
(* any other process at the prompt of body or in the ksleep of kwait.        *)
Places == {"kfork", "loop", "tswitch", "body", "kwait"}

Init ==
    /\ running = 0
    /\ status = [p \in Procs |-> IF p = 0 THEN "RUNNING" ELSE "FREE"]
    /\ ppid = [p \in Procs |-> 0]
    /\ parent = [p \in Procs |-> NULL]
    /\ priority = [p \in Procs |-> 0]
    /\ event = [p \in Procs |-> 0]
    /\ exitCode = [p \in Procs |-> 0]
    /\ freeList = [i \in 1 .. NPROC - 1 |-> i]
    /\ readyQueue = << >>
    /\ sleepList = << >>
    /\ nproc = 1
    /\ rflag = 0
    /\ pc = [p \in Procs |-> IF p = 0 THEN "kfork" ELSE "body"]

-----------------------------------------------------------------------------
(* Slip: the running process is not put back.                                *)
CanGoOn_never(st) == FALSE

CanGoOn(st) == st[running] = Runs

(* tswitch, called with statuses st and ready queue rq: scheduler puts the   *)
(* running process back if it can go on and takes the first one off.         *)
scheduler(st, rq) ==
    LET ready == IF CanGoOn(st) THEN enqueue(rq, running, priority) ELSE rq
        left == IF CanGoOn(st) THEN [st EXCEPT ![running] = "READY"] ELSE st
    IN  /\ rflag' = 0
        /\ IF ready = << >>
           THEN running' = NULL /\ readyQueue' = ready /\ status' = left
           ELSE /\ running' = dequeue(ready).proc
                /\ readyQueue' = dequeue(ready).rest
                /\ status' = [left EXCEPT ![running'] = Runs]

(* The statuses and the two lists that kwakeup works on.                     *)
Lists == [status |-> status, ready |-> readyQueue, sleep |-> sleepList]

(* kwakeup(ev): every process on the sleep list is taken off it; those that  *)
(* sleep on ev become ready, the others are enqueued on the list again.      *)
kwakeup(l, ev) ==
    LET woken == {p \in Range(l.sleep) : event[p] = ev}
    IN  [status |-> [p \in Procs |-> IF p \in woken THEN "READY" ELSE l.status[p]],
         ready |-> EnqueueAll(l.ready, l.sleep, woken, priority),
         sleep |-> EnqueueAll(<< >>, l.sleep, Range(l.sleep) \ woken, priority)]

ksleep(ev) ==
    /\ event' = [event EXCEPT ![running] = ev]
    /\ sleepList' = enqueue(sleepList, running, priority)
    /\ scheduler([status EXCEPT ![running] = "SLEEP"], readyQueue)

(* kfork with a PROC left; without one it changes nothing.                   *)
kfork ==
    LET p == dequeue(freeList).proc
    IN  /\ freeList # << >>
        /\ freeList' = dequeue(freeList).rest
        /\ status' = [status EXCEPT ![p] = "READY"]
        /\ priority' = [priority EXCEPT ![p] = 1]
        /\ ppid' = [ppid EXCEPT ![p] = running]
        /\ parent' = [parent EXCEPT ![p] = running]
        /\ readyQueue' = enqueue(readyQueue, p, priority')
        /\ nproc' = nproc + 1
        /\ UNCHANGED <<running, event, exitCode, sleepList, rflag>>

-----------------------------------------------------------------------------
(* main: P0 makes P1, then gives the machine away whenever it can.           *)
MainFork ==
    /\ running = 0 /\ pc[0] = "kfork"
    /\ kfork
    /\ pc' = [pc EXCEPT ![0] = "loop"]

MainSwitch ==
    /\ running = 0 /\ pc[0] \in {"loop", "tswitch"}
    /\ readyQueue # << >>
    /\ scheduler(status, readyQueue)
    /\ pc' = [pc EXCEPT ![0] = "tswitch"]
    /\ UNCHANGED <<ppid, parent, priority, event, exitCode, freeList,
                   sleepList, nproc>>

AtPrompt == running # NULL /\ pc[running] = "body"

DoTswitch ==
    /\ AtPrompt
    /\ scheduler(status, readyQueue)
    /\ UNCHANGED <<ppid, parent, priority, event, exitCode, freeList,
                   sleepList, nproc, pc>>

DoKfork ==
    /\ AtPrompt
    /\ kfork
    /\ UNCHANGED pc

DoStop ==
    /\ AtPrompt
    /\ scheduler([status EXCEPT ![running] = "STOPPED"], readyQueue)
    /\ UNCHANGED <<ppid, parent, priority, event, exitCode, freeList,
                   sleepList, nproc, pc>>

(* Slip: the status is not looked at.                                        *)
Continuable_any(pid) == pid >= 1 /\ pid < NPROC

Continuable(pid) == pid >= 1 /\ pid < NPROC /\ status[pid] = "STOPPED"

DoContinue(pid) ==
    /\ AtPrompt
    /\ Continuable(pid)
    /\ status' = [status EXCEPT ![pid] = "READY"]
    /\ readyQueue' = enqueue(readyQueue, pid, priority)
    /\ UNCHANGED <<running, ppid, parent, priority, event, exitCode, freeList,
                   sleepList, nproc, rflag, pc>>

DoSleep(ev) ==
    /\ AtPrompt
    /\ ksleep(ev)
    /\ UNCHANGED <<ppid, parent, priority, exitCode, freeList, nproc, pc>>

DoWakeup(ev) ==
    /\ AtPrompt
    /\ LET l == kwakeup(Lists, ev)
       IN  status' = l.status /\ readyQueue' = l.ready /\ sleepList' = l.sleep
    /\ UNCHANGED <<running, ppid, parent, priority, event, exitCode, freeList,
                   nproc, rflag, pc>>

(* The children of p as kwait looks for them, the dead ones included.        *)
Children(p) == {c \in Procs : status[c] # "FREE" /\ ppid[c] = p}

(* Slip: the dead children of others are taken for one's own.                *)
Dead_anybodys(p) == {c \in Procs : status[c] = "ZOMBIE"}

Dead(p) == {c \in Children(p) : status[c] = "ZOMBIE"}

(* Slip: dead children are not handed over.                                  *)
Orphans_living(p) == Children(p) \ ({0} \cup Dead(p))

Orphans(p) == Children(p) \ {0}

(* Slip: only ppid is set.                                                   *)
SendToP1_ppidOnly(orphans) ==
    /\ ppid' = [p \in Procs |-> IF p \in orphans THEN 1 ELSE ppid[p]]
    /\ UNCHANGED parent

SendToP1(orphans) ==
    /\ ppid' = [p \in Procs |-> IF p \in orphans THEN 1 ELSE ppid[p]]
    /\ parent' = [p \in Procs |-> IF p \in orphans THEN 1 ELSE parent[p]]

(* Slips: the parent is not woken; P1, who may have inherited a dead child,  *)
(* is not woken.                                                             *)
WakeParents_notParent(l) == kwakeup(l, Address(1))
WakeParents_notP1(l) == kwakeup(l, Address(parent[running]))

WakeParents(l) == kwakeup(kwakeup(l, Address(parent[running])), Address(1))

kexit(value) ==
    LET l == WakeParents([Lists EXCEPT !.status[running] = "ZOMBIE"])
    IN  /\ SendToP1(Orphans(running))
        /\ exitCode' = [exitCode EXCEPT ![running] = value]
        /\ sleepList' = l.sleep
        /\ scheduler(l.status, l.ready)
        /\ UNCHANGED <<priority, event, freeList, nproc, pc>>

(* Slip: P1 is let go first.                                                 *)
MayExit_always == TRUE

MayExit == ~(running = 1 /\ nproc > 2)

(* do_exit refuses P1 while more than P0 and P1 exist.                       *)
DoExit(value) ==
    /\ AtPrompt
    /\ MayExit
    /\ kexit(value)

(* Slip: nproc is not counted down.                                          *)
Release_uncounted(c) ==
    /\ status' = [status EXCEPT ![c] = "FREE"]
    /\ freeList' = put_proc(freeList, c)
    /\ UNCHANGED nproc

Release(c) ==
    /\ status' = [status EXCEPT ![c] = "FREE"]
    /\ freeList' = put_proc(freeList, c)
    /\ nproc' = nproc - 1

(* One turn of kwait's loop: lay the first dead child to rest, or sleep on   *)
(* the address of one's own PROC.                                            *)
LayToRest ==
    /\ Dead(running) # {}
    /\ Release(Min(Dead(running)))
    /\ pc' = [pc EXCEPT ![running] = "body"]
    /\ UNCHANGED <<running, ppid, parent, priority, event, exitCode,
                   readyQueue, sleepList, rflag>>

SleepOnSelf ==
    /\ Dead(running) = {}
    /\ ksleep(Address(running))
    /\ pc' = [pc EXCEPT ![running] = "kwait"]
    /\ UNCHANGED <<ppid, parent, priority, exitCode, freeList, nproc>>

(* kwait from the prompt; with no child at all it returns at once.           *)
DoWait ==
    /\ AtPrompt
    /\ Children(running) # {}
    /\ LayToRest \/ SleepOnSelf

(* kwait woken up: found is still set from the turn before, so the "no       *)
(* child" test is not taken again.                                           *)
WaitAgain ==
    /\ running # NULL /\ pc[running] = "kwait"
    /\ LayToRest \/ SleepOnSelf

(* Slip: the priority is taken as typed.                                     *)
Clamp_asTyped(pri) == pri

Clamp(pri) == IF pri < 1 THEN 1 ELSE pri

(* chpriority of the running process compares with the head of the ready     *)
(* queue; of another process that is ready, the queue is built again.        *)
ChangeOwn(pri) ==
    /\ rflag' = IF pri < priority[Head(readyQueue)] THEN 1 ELSE rflag
    /\ UNCHANGED readyQueue

(* Slip: the ready queue is left as it was.                                  *)
reschedule_notSorted ==
    /\ readyQueue' = readyQueue
    /\ rflag' = IF priority[running] < priority'[Head(readyQueue)] THEN 1 ELSE 0

reschedule ==
    /\ readyQueue' = EnqueueAll(<< >>, readyQueue, Procs, priority')
    /\ rflag' = IF priority[running] < priority'[Head(readyQueue')] THEN 1 ELSE 0

DoChpriority(pid, pri) ==
    /\ AtPrompt
    /\ pid = running \/ (pid \in 1 .. NPROC - 1 /\ status[pid] # "FREE")
    /\ priority' = [priority EXCEPT ![pid] = Clamp(pri)]
    /\ IF pid = running THEN ChangeOwn(Clamp(pri))
       ELSE IF status[pid] = "READY" THEN reschedule
       ELSE UNCHANGED <<readyQueue, rflag>>
    /\ UNCHANGED <<running, status, ppid, parent, event, exitCode, freeList,
                   sleepList, nproc, pc>>

(* The command a process reads at the prompt of body.                        *)
body ==
    \/ DoTswitch
    \/ DoKfork
    \/ DoStop
    \/ \E pid \in UserPids : DoContinue(pid)
    \/ \E ev \in UserEvents : DoSleep(ev)
    \/ \E ev \in UserEvents : DoWakeup(ev)
    \/ \E pid \in UserPids, pri \in UserPris : DoChpriority(pid, pri)
    \/ DoWait
    \/ \E value \in ExitValues : DoExit(value)

Next ==
    \/ MainFork
    \/ MainSwitch
    \/ body
    \/ WaitAgain

Spec == Init /\ [][Next]_vars

-----------------------------------------------------------------------------
Statuses == {"FREE", "READY", "RUNNING", "STOPPED", "SLEEP", "ZOMBIE"}

(* Every variable stays of its type; that the running process is not NULL is *)
(* not taken for granted here.                                               *)
TypeOK ==
    /\ running \in Procs \cup {NULL}
    /\ status \in [Procs -> Statuses]
    /\ ppid \in [Procs -> Procs]
    /\ parent \in [Procs -> Procs \cup {NULL}]
    /\ priority \in [Procs -> Int]
    /\ event \in [Procs -> Int]
    /\ exitCode \in [Procs -> Int]
    /\ freeList \in Seq(Procs)
    /\ readyQueue \in Seq(Procs)
    /\ sleepList \in Seq(Procs)
    /\ nproc \in 0 .. NPROC
    /\ rflag \in {0, 1}
    /\ pc \in [Procs -> Places]

(* scheduler dequeues without looking: it must never find the ready queue    *)
(* empty.  What guarantees it is that P0 never sleeps, stops or exits, so    *)
(* that it is on the queue whenever somebody else runs.                      *)
SchedulerFindsAProcess ==
    /\ running # NULL
    /\ status[0] \in {"RUNNING", "READY"}

WithStatus(s) == {p \in Procs : status[p] = s}

(* No PROC is lost, listed twice or on a list that its status denies, and    *)
(* only the running one is RUNNING: a PROC has a single next field, so that  *)
(* one that were enqueued twice would tie two lists together.                *)
ListsMatchStatus ==
    /\ IsInjective(freeList) /\ Range(freeList) = WithStatus("FREE")
    /\ IsInjective(readyQueue) /\ Range(readyQueue) = WithStatus("READY")
    /\ IsInjective(sleepList) /\ Range(sleepList) = WithStatus("SLEEP")
    /\ WithStatus("RUNNING") = {running}

(* The ready queue is in order of priority after every command, chpriority   *)
(* and the wakeup of a process whose priority changed in its sleep included. *)
ReadyQueueSorted == Sorted(readyQueue, priority)

(* P0 has the lowest priority of all, so it gets the machine back only when  *)
(* nobody else can run; as there is no interrupt in this kernel, the system  *)
(* has then halted for good, as main says it has.                            *)
IdleMeansHalt ==
    /\ priority[0] = 0
    /\ \A p \in Procs \ {0} : status[p] # "FREE" => priority[p] >= 1
    /\ running = 0 /\ pc[0] = "tswitch" => readyQueue = << >>

Alive == {p \in Procs : status[p] \notin {"FREE", "ZOMBIE"}}

(* nproc, which do_exit and main test, counts the PROCs that are not free:   *)
(* a dead process counts until its parent has laid it to rest.               *)
NprocCounts == nproc = Cardinality({p \in Procs : status[p] # "FREE"})

(* Nobody is left with a parent that is dead or gone: ppid, by which kwait   *)
(* looks for children, and parent, whom kexit wakes, name the same living    *)
(* process through any sequence of forks, exits, adoptions and reused PROCs. *)
ParentsLive ==
    \A p \in Procs \ {0} : status[p] # "FREE" =>
        /\ ppid[p] = parent[p]
        /\ parent[p] \in Alive \ {p}
        /\ p = 1 => parent[p] = 0

(* Following parents from any process ends at P1: no set of processes other  *)
(* than P0 and P1 has all its parents inside.                                *)
NoParentCycle ==
    \A S \in SUBSET {p \in Procs \ {0, 1} : status[p] # "FREE"} :
        S # {} => \E p \in S : parent[p] \notin S

(* A process asleep in kwait has a child to wait for and none that is dead   *)
(* already: the wakeup of a child's exit is never lost, adoption by P1       *)
(* included.  It also shows that not resetting found in kwait does no harm.  *)
WaitersAreWoken ==
    \A p \in Procs : pc[p] = "kwait" /\ status[p] \notin {"FREE", "ZOMBIE"} =>
        /\ Children(p) # {}
        /\ status[p] = "SLEEP" => Dead(p) = {}

(* P1 adopts every orphan, so it must be the last to die.                    *)
P1OutlivesAll ==
    status[1] \in {"FREE", "ZOMBIE"} => \A p \in Procs \ {0, 1} : status[p] = "FREE"

Before(s, p, q) == \E i, j \in DOMAIN s : i < j /\ s[i] = p /\ s[j] = q

(* A step puts nobody in front of a process that was already waiting with    *)
(* the same priority.                                                        *)
InTurn ==
    \A p \in Range(readyQueue) \cap Range(readyQueue'), q \in Range(readyQueue') :
        /\ p # q
        /\ priority'[p] = priority[p]
        /\ priority'[q] = priority'[p]
        /\ q \in Range(readyQueue) =>
              priority[q] = priority[p] /\ Before(readyQueue, p, q)
        => Before(readyQueue', p, q)

(* Processes of equal priority take turns, over any sequence of commands:    *)
(* enqueue's walk, kwakeup's loop over the sleep list and the new order that *)
(* reschedule builds never let one pass another.                             *)
RoundRobin == [][InTurn]_vars

(* The kernel keeps the promises of ProcLife.                                *)
LifeOf(p) == IF status[p] = "FREE" THEN "none"
             ELSE IF status[p] = "ZOMBIE" THEN "dead" ELSE "alive"

Promise == INSTANCE ProcLife WITH
    Codes <- ExitValues,
    doer <- running,
    life <- [p \in Procs |-> LifeOf(p)],
    mother <- [p \in Procs |-> IF status[p] = "FREE" THEN NULL ELSE parent[p]],
    lastWord <- [p \in Procs |-> IF status[p] = "ZOMBIE" THEN exitCode[p] ELSE 0]

(* A process is forked by a living one, leaves its children to P1 when it    *)
(* dies, and is laid to rest once, by its parent of the time: every step of  *)
(* the kernel is a step of ProcLife or leaves it alone.                      *)
KeepsPromise == Promise!LifeSpec

=============================================================================
