---------------------------- MODULE SerialProofs ----------------------------
(***************************************************************************)
(* What holds of the serial input of 7-semaphores-serial for any number of *)
(* processes, any size of the buffer and anything that is typed: the two   *)
(* semaphores count what they stand for, one process at a time reads a     *)
(* line, and the characters come out of the buffer as they went in.        *)
(***************************************************************************)
EXTENDS SerialKernel, ProcKernelProofs

USE ProcKernelAssumption, TestsRunning, SerialAssumption DEF NULL

-----------------------------------------------------------------------------
(* The places of a circular buffer: of numbers short of its size,            *)
LEMMA ModOnce ==
  ASSUME NEW x \in Int, 0 <= x, x < BUFLEN
  PROVE  x % BUFLEN = x
OBVIOUS

(* of those short of two turns                                               *)
LEMMA ModTwice ==
  ASSUME NEW x \in Int, BUFLEN <= x, x < 2 * BUFLEN
  PROVE  x % BUFLEN = x - BUFLEN
OBVIOUS

(* and of those short of three, which is as far as it goes here.             *)
LEMMA ModThrice ==
  ASSUME NEW x \in Int, 2 * BUFLEN <= x, x < 3 * BUFLEN
  PROVE  x % BUFLEN = x - 2 * BUFLEN
OBVIOUS

(* A place is inside the buffer.                                             *)
LEMMA ModInside ==
  ASSUME NEW x \in 0 .. 3 * BUFLEN - 1
  PROVE  x % BUFLEN \in 0 .. BUFLEN - 1
<1>1. x \in Int /\ 0 <= x /\ x < 3 * BUFLEN
  OBVIOUS
<1>2. PICK r : r = x % BUFLEN
  OBVIOUS
<1>3. /\ r \in 0 .. BUFLEN - 1
      /\ r = x \/ r = x - BUFLEN \/ r = x - 2 * BUFLEN
  BY <1>1, <1>2, ModOnce, ModTwice, ModThrice
<1> QED
  BY <1>2, <1>3

(* A step past a place of the buffer is a step of the number it stands for.  *)
LEMMA ModStep ==
  ASSUME NEW x \in 0 .. 3 * BUFLEN - 2
  PROVE  ((x % BUFLEN) + 1) % BUFLEN = (x + 1) % BUFLEN
<1>1. x \in Int /\ 0 <= x /\ x < 3 * BUFLEN - 1
  OBVIOUS
<1>2. PICK r : r = x % BUFLEN
  OBVIOUS
<1>3. /\ r \in 0 .. BUFLEN - 1
      /\ r = x \/ r = x - BUFLEN \/ r = x - 2 * BUFLEN
  BY <1>1, <1>2, ModOnce, ModTwice, ModThrice
<1>4. CASE r + 1 < BUFLEN
  <2>1. (r + 1) % BUFLEN = r + 1
    BY <1>3, <1>4, ModOnce
  <2>2. (x + 1) % BUFLEN = r + 1
    BY <1>1, <1>3, <1>4, ModOnce, ModTwice, ModThrice
  <2> QED
    BY <1>2, <1>3, <2>1, <2>2
<1>5. CASE r + 1 = BUFLEN
  <2>1. (r + 1) % BUFLEN = 0
    BY <1>3, <1>5, ModTwice
  <2>2. (x + 1) % BUFLEN = 0
    BY <1>1, <1>3, <1>5, ModTwice, ModThrice
  <2> QED
    BY <1>2, <1>3, <2>1, <2>2
<1> QED
  BY <1>3, <1>4, <1>5

(* Two numbers less than a turn apart never share a place.                   *)
LEMMA ModDiffers ==
  ASSUME NEW x \in 0 .. 3 * BUFLEN - 1, NEW y \in 0 .. 3 * BUFLEN - 1,
         x < y, y < x + BUFLEN
  PROVE  x % BUFLEN # y % BUFLEN
<1>1. /\ x \in Int /\ 0 <= x /\ x < 3 * BUFLEN
      /\ y \in Int /\ 0 <= y /\ y < 3 * BUFLEN
  OBVIOUS
<1>2. PICK r, s : r = x % BUFLEN /\ s = y % BUFLEN
  OBVIOUS
<1>3. /\ 0 <= r /\ r < BUFLEN
      /\ r = x \/ r = x - BUFLEN \/ r = x - 2 * BUFLEN
  BY <1>1, <1>2, ModOnce, ModTwice, ModThrice
<1>4. /\ 0 <= s /\ s < BUFLEN
      /\ s = y \/ s = y - BUFLEN \/ s = y - 2 * BUFLEN
  BY <1>1, <1>2, ModOnce, ModTwice, ModThrice
<1> QED
  BY <1>1, <1>2, <1>3, <1>4

-----------------------------------------------------------------------------
(* A semaphore with a sound count and nobody twice on its queue.             *)
Fits(s) ==
    /\ s.value \in Int
    /\ s.queue \in Seq(Procs)
    /\ IsInjective(s.queue)
    /\ Counts(s)

(* P counts whom it stops.                                                   *)
LEMMA DownFits ==
  ASSUME NEW s, Fits(s), NEW p \in Procs, p \notin Range(s.queue),
         priority \in [Procs -> Int],
         NEW d, d = Down(s, p, priority)
  PROVE  /\ Fits(d)
         /\ d.value = s.value - 1
         /\ Blocks(s) => Range(d.queue) = Range(s.queue) \cup {p}
         /\ ~Blocks(s) => d.queue = s.queue
<1>1. /\ d.value = s.value - 1
      /\ d.queue = IF Blocks(s) THEN enqueue(s.queue, p, priority) ELSE s.queue
  BY DEF Down
<1>2. s.value \in Int /\ s.queue \in Seq(Procs) /\ IsInjective(s.queue) /\ Counts(s)
  BY DEF Fits
<1>3. CASE Blocks(s)
  <2>1. Enqueued(Procs, s.queue, p, priority, d.queue)
    BY <1>1, <1>2, <1>3, EnqueueProperties
  <2>2. /\ d.queue \in Seq(Procs)
        /\ Len(d.queue) = Len(s.queue) + 1
        /\ Range(d.queue) = Range(s.queue) \cup {p}
        /\ IsInjective(d.queue)
    BY <1>2, <2>1 DEF Enqueued
  <2>3. Counts(d)
    BY <1>1, <1>2, <1>3, <2>2 DEF Counts, Blocks
  <2> QED
    BY <1>1, <1>2, <1>3, <2>2, <2>3 DEF Fits
<1>4. CASE ~Blocks(s)
  <2>1. Counts(d)
    BY <1>1, <1>2, <1>4 DEF Counts, Blocks
  <2> QED
    BY <1>1, <1>2, <1>4, <2>1 DEF Fits
<1> QED
  BY <1>3, <1>4

(* V wakes only if there is somebody to wake.                                *)
LEMMA UpFits ==
  ASSUME NEW s, Fits(s), NEW u, u = Up(s)
  PROVE  /\ Fits(u)
         /\ u.value = s.value + 1
         /\ Wakes(s) => /\ s.queue # << >>
                        /\ Head(s.queue) \in Procs
                        /\ Range(s.queue) = Range(u.queue) \cup {Head(s.queue)}
                        /\ Head(s.queue) \notin Range(u.queue)
         /\ ~Wakes(s) => u.queue = s.queue
<1>1. /\ u.value = s.value + 1
      /\ u.queue = IF Wakes(s) THEN Tail(s.queue) ELSE s.queue
  BY DEF Up, dequeue
<1>2. s.value \in Int /\ s.queue \in Seq(Procs) /\ IsInjective(s.queue) /\ Counts(s)
  BY DEF Fits
<1>3. CASE Wakes(s)
  <2>1. Len(s.queue) > 0
    BY <1>2, <1>3 DEF Wakes, Counts
  <2>2. s.queue # << >>
    BY <1>2, <2>1
  <2>3. Dequeued(Procs, s.queue, priority, Head(s.queue), u.queue)
    BY <1>1, <1>2, <1>3, <2>2, DequeueProperties
  <2>4. /\ Head(s.queue) \in Procs
        /\ u.queue \in Seq(Procs)
        /\ Len(u.queue) = Len(s.queue) - 1
        /\ Range(s.queue) = Range(u.queue) \cup {Head(s.queue)}
        /\ IsInjective(u.queue)
        /\ Head(s.queue) \notin Range(u.queue)
    BY <1>2, <2>3 DEF Dequeued
  <2>5. Counts(u)
    BY <1>1, <1>2, <1>3, <2>4 DEF Counts, Wakes
  <2> QED
    BY <1>1, <1>2, <1>3, <2>2, <2>4, <2>5 DEF Fits
<1>4. CASE ~Wakes(s)
  <2>1. Counts(u)
    BY <1>1, <1>2, <1>4 DEF Counts, Wakes
  <2> QED
    BY <1>1, <1>2, <1>4, <2>1 DEF Fits
<1> QED
  BY <1>3, <1>4

-----------------------------------------------------------------------------
(* The statuses that a process may have in the middle of a read.             *)
Live == {"RUNNING", "READY", "STOPPED"}

(* What the commands that do not read do to those that do: they stop nobody  *)
(* and set nobody going that P has stopped, and whoever reads goes on to.    *)
Alone ==
    /\ \A p \in Procs : status'[p] = "STOPPED" <=> status[p] = "STOPPED"
    /\ \A p \in Procs : p # running /\ status[p] \in Live =>
           status'[p] \in Live /\ pc'[p] = pc[p]

(* tswitch leaves readers alone if those that it is told of have stopped.    *)
LEMMA SwitchAlone ==
  ASSUME KInv, NEW st, NEW rq, NEW sl,
         Kept(st, priority, freeList, rq, sl),
         \A p \in Procs : st[p] = "RUNNING" => p = running,
         st[0] \in {"RUNNING", "READY"},
         \A p \in Procs : st[p] = "STOPPED" <=> status[p] = "STOPPED",
         \A p \in Procs : p # running /\ status[p] \in Live => st[p] \in Live,
         \A p \in Procs : p # running => pc'[p] = pc[p],
         scheduler(st, rq)
  PROVE  Alone
<1>1. \A p \in Procs : IF st[p] \in {"RUNNING", "READY"}
                       THEN status'[p] \in {"RUNNING", "READY"}
                       ELSE status'[p] = st[p]
  BY SwitchedFrom
<1> QED
  BY <1>1 DEF Alone, Live

LEMMA TswitchAlone ==
  ASSUME KInv, scheduler(status, readyQueue),
         \A p \in Procs : p # running => pc'[p] = pc[p]
  PROVE  Alone
<1>1. Sane /\ Agree
  BY TwoHalves
<1>2. /\ Kept(status, priority, freeList, readyQueue, sleepList)
      /\ \A p \in Procs : status[p] = "RUNNING" => p = running
      /\ status[0] \in {"RUNNING", "READY"}
  BY <1>1 DEF Agree, Sane
<1> QED
  BY <1>2, SwitchAlone

LEMMA KforkAlone ==
  ASSUME KInv, kfork, \A p \in Procs : p # running => pc'[p] = pc[p]
  PROVE  Alone
<1>1. Sane /\ Agree
  BY TwoHalves
<1>2. freeList \in Seq(Procs) /\ freeList # << >>
  BY <1>1 DEF Agree, Kept, kfork
<1>3. PICK p : p = Head(freeList)
  OBVIOUS
<1>4. status' = [status EXCEPT ![p] = "READY"]
  BY <1>3 DEF kfork, dequeue
<1>5. p \in Procs /\ p \in Range(freeList)
  BY <1>2, <1>3 DEF Range
<1>6. status[p] = "FREE"
  BY <1>1, <1>5 DEF Agree, Kept
<1>7. \A o \in Procs : status'[o] = IF o = p THEN "READY" ELSE status[o]
  BY <1>1, <1>4, <1>5 DEF Agree, Kept
<1> QED
  BY <1>6, <1>7 DEF Alone, Live

LEMMA KexitAlone ==
  ASSUME KInv, NEW value, kexit(value), running # 0
  PROVE  Alone
<1>1. Sane /\ Agree
  BY TwoHalves
<1>2. PICK l : l = WakeParents([Lists EXCEPT !.status[running] = "ZOMBIE"])
  OBVIOUS
<1>3. scheduler(l.status, l.ready) /\ UNCHANGED pc
  BY <1>2 DEF kexit
<1>4. /\ Kept(l.status, priority, freeList, l.ready, l.sleep)
      /\ \A p \in Procs : l.status[p] =
             IF p = running THEN "ZOMBIE"
             ELSE IF /\ status[p] = "SLEEP"
                     /\ event[p] \in {Address(parent[running]), Address(1)}
             THEN "READY" ELSE status[p]
      /\ \A p \in Procs : l.status[p] = "RUNNING" => p = running
      /\ l.status[0] \in {"RUNNING", "READY"}
  BY <1>2, KexitLists
<1>5. status[running] = "RUNNING"
  BY <1>1 DEF Sane
<1>6. /\ \A p \in Procs : l.status[p] = "STOPPED" <=> status[p] = "STOPPED"
      /\ \A p \in Procs : p # running /\ status[p] \in Live => l.status[p] \in Live
  BY <1>4, <1>5 DEF Live
<1> QED
  BY <1>3, <1>4, <1>6, SwitchAlone

LEMMA KwaitAlone ==
  ASSUME KInv, running # 0, LayToRest \/ SleepOnSelf
  PROVE  Alone
<1>1. Sane /\ Agree
  BY TwoHalves
<1>2. running \in Procs /\ status[running] = "RUNNING" /\ pc \in [Procs -> Places]
  BY <1>1 DEF Sane
<1>3. CASE LayToRest
  <2>1. PICK c : c = Min(Dead(running))
    OBVIOUS
  <2>2. c \in Procs /\ status[c] = "ZOMBIE"
    BY <1>3, <2>1, FirstDead DEF LayToRest, Dead, Children
  <2>3. /\ status' = [status EXCEPT ![c] = "FREE"]
        /\ pc' = [pc EXCEPT ![running] = "body"]
    BY <1>3, <2>1 DEF LayToRest, Release
  <2>4. \A o \in Procs : status'[o] = IF o = c THEN "FREE" ELSE status[o]
    BY <1>1, <2>2, <2>3 DEF Agree, Kept
  <2>5. \A p \in Procs : p # running => pc'[p] = pc[p]
    BY <1>2, <2>3
  <2> QED
    BY <2>2, <2>4, <2>5 DEF Alone, Live
<1>4. CASE SleepOnSelf
  <2>1. PICK st : st = [status EXCEPT ![running] = "SLEEP"]
    OBVIOUS
  <2>2. PICK sl : sl = enqueue(sleepList, running, priority)
    OBVIOUS
  <2>3. scheduler(st, readyQueue) /\ pc' = [pc EXCEPT ![running] = "kwait"]
    BY <1>4, <2>1 DEF SleepOnSelf, ksleep
  <2>4. /\ Kept(st, priority, freeList, readyQueue, sl)
        /\ \A p \in Procs : st[p] = IF p = running THEN "SLEEP" ELSE status[p]
        /\ \A p \in Procs : st[p] = "RUNNING" => p = running
        /\ st[0] \in {"RUNNING", "READY"}
    BY <2>1, <2>2, KsleepLists
  <2>5. /\ \A p \in Procs : st[p] = "STOPPED" <=> status[p] = "STOPPED"
        /\ \A p \in Procs : p # running /\ status[p] \in Live => st[p] \in Live
    BY <1>2, <2>4
  <2>6. \A p \in Procs : p # running => pc'[p] = pc[p]
    BY <1>2, <2>3
  <2> QED
    BY <2>3, <2>4, <2>5, <2>6, SwitchAlone
<1> QED
  BY <1>3, <1>4

(* The system calls that are not reads, and main.                            *)
Others ==
    \/ MainFork
    \/ MainSwitch
    \/ WaitAgain
    \/ InUser /\ (DoTswitch \/ DoKfork \/ DoWait \/ \E value \in ExitValues : kkexit(value))

(* They are steps of ProcKernel that leave the readers alone.                *)
LEMMA OthersAlone ==
  ASSUME KInv, Others
  PROVE  KInv' /\ Alone
<1>1. Sane /\ Agree
  BY TwoHalves
<1>2. running \in Procs /\ pc \in [Procs -> Places] /\ 0 \in Procs
  BY <1>1 DEF Sane, Procs
<1>3. CASE MainFork
  <2>1. \A p \in Procs : p # running => pc'[p] = pc[p]
    BY <1>2, <1>3 DEF MainFork
  <2> QED
    BY <1>3, <2>1, NextKeeps, KforkAlone DEF MainFork, Next
<1>4. CASE MainSwitch
  <2>1. \A p \in Procs : p # running => pc'[p] = pc[p]
    BY <1>2, <1>4 DEF MainSwitch
  <2> QED
    BY <1>4, <2>1, NextKeeps, TswitchAlone DEF MainSwitch, Next
<1>5. CASE WaitAgain
  <2>1. running # 0
    BY <1>1, <1>5 DEF WaitAgain, Sane
  <2> QED
    BY <1>5, <2>1, NextKeeps, KwaitAlone DEF WaitAgain, Next
<1>6. CASE InUser /\ DoTswitch
  BY <1>6, NextKeeps, TswitchAlone DEF DoTswitch, Next, body
<1>7. CASE InUser /\ DoKfork
  BY <1>7, NextKeeps, KforkAlone DEF DoKfork, Next, body
<1>8. CASE InUser /\ DoWait
  BY <1>8, NextKeeps, KwaitAlone DEF DoWait, InUser, Next, body
<1>9. CASE InUser /\ \E value \in ExitValues : kkexit(value)
  <2>1. PICK value \in ExitValues : kkexit(value)
    BY <1>9
  <2>2. DoExit(value) /\ running # 0
    BY <1>9, <2>1 DEF kkexit, DoExit, MayExit, AtPrompt, InUser
  <2>3. kexit(value)
    BY <2>1 DEF kkexit
  <2> QED
    BY <2>2, <2>3, NextKeeps, KexitAlone DEF Next, body
<1> QED
  BY <1>3, <1>4, <1>5, <1>6, <1>7, <1>8, <1>9 DEF Others

-----------------------------------------------------------------------------
(* A P that blocks is, for the processes, a stop.                            *)
LEMMA PStops ==
  ASSUME KInv, AtPrompt, UNCHANGED othersVars,
         scheduler([status EXCEPT ![running] = "STOPPED"], readyQueue)
  PROVE  /\ KInv'
         /\ \A p \in Procs : status'[p] = "STOPPED" <=> p = running \/ status[p] = "STOPPED"
         /\ \A p \in Procs : status[p] \in Live => status'[p] \in Live
<1>1. Sane /\ Agree
  BY TwoHalves
<1>2. DoStop
  BY DEF DoStop, othersVars
<1>3. KInv'
  BY <1>2, NextKeeps DEF Next, body
<1>4. running # 0 /\ running \in Procs /\ status[running] = "RUNNING" /\ 0 \in Procs
  BY SMTT(30), <1>1 DEF Sane, AtPrompt, Procs
<1>5. PICK st : st = [status EXCEPT ![running] = "STOPPED"]
  OBVIOUS
<1>6. \A p \in Procs : st[p] = IF p = running THEN "STOPPED" ELSE status[p]
  BY <1>1, <1>5 DEF Agree, Kept
<1>7. Kept(st, priority, freeList, readyQueue, sleepList)
  <2>1. st \in [Procs -> Statuses]
    BY <1>1, <1>5 DEF Agree, Kept, Statuses
  <2> QED
    BY <1>1, <1>4, <1>6, <2>1 DEF Agree, Kept
<1>8. /\ \A p \in Procs : st[p] = "RUNNING" => p = running
      /\ st[0] \in {"RUNNING", "READY"}
  BY <1>1, <1>4, <1>6 DEF Sane
<1>9. \A p \in Procs : IF st[p] \in {"RUNNING", "READY"}
                       THEN status'[p] \in {"RUNNING", "READY"}
                       ELSE status'[p] = st[p]
  BY <1>5, <1>7, <1>8, SwitchedFrom
<1> QED
  BY <1>3, <1>4, <1>6, <1>9 DEF Live

(* A V that wakes makes a stopped process ready, whoever has the machine.    *)
LEMMA VWakes ==
  ASSUME KInv, NEW q \in Procs, status[q] = "STOPPED",
         status' = [status EXCEPT ![q] = "READY"],
         readyQueue' = enqueue(readyQueue, q, priority),
         UNCHANGED <<running, rflag>>, UNCHANGED othersVars
  PROVE  /\ KInv'
         /\ \A p \in Procs : status'[p] = IF p = q THEN "READY" ELSE status[p]
<1>1. Sane /\ Agree
  BY TwoHalves
<1>2. \A p \in Procs : status'[p] = IF p = q THEN "READY" ELSE status[p]
  BY <1>1 DEF Agree, Kept
<1>3. Enqueued(Procs, readyQueue, q, priority, readyQueue')
  BY <1>1, EnqueueProperties DEF Agree, Kept
<1>4. /\ readyQueue' \in Seq(Procs) /\ IsInjective(readyQueue')
      /\ Range(readyQueue') = Range(readyQueue) \cup {q}
      /\ Sorted(readyQueue', priority)
  BY <1>1, <1>3 DEF Enqueued, Agree, Kept
<1>5. UNCHANGED <<ppid, parent, priority, event, exitCode, freeList, sleepList, nproc, pc>>
  BY DEF othersVars
<1>6. Agree'
  <2>1. status' \in [Procs -> Statuses]
    BY <1>1 DEF Agree, Kept, Statuses
  <2> QED
    BY <1>1, <1>2, <1>4, <1>5, <2>1 DEF Agree, Kept
<1>7. 0 \in Procs
  BY DEF Procs
<1> QED
  BY <1>1, <1>2, <1>5, <1>6, <1>7, StayKeeps DEF Sane

(* Nothing that the processes are made of changes.                           *)
LEMMA NothingKeeps ==
  ASSUME KInv, UNCHANGED listVars, UNCHANGED othersVars
  PROVE  KInv'
<1>1. UNCHANGED vars
  BY DEF vars, listVars, othersVars
<1> QED
  BY <1>1, NextKeeps

-----------------------------------------------------------------------------
(* Only user processes read, and they do nothing else meanwhile.             *)
ReadersAreLive ==
    /\ where[0] = "user"
    /\ \A p \in Procs : where[p] # "user" => pc[p] = "body" /\ status[p] \in Live

(* Who has stopped waits for one of the semaphores, each from its own place. *)
QueuesHoldReaders ==
    /\ Fits(inchars) /\ Fits(inmutex)
    /\ \A p \in Procs : p \in Range(inmutex.queue) => where[p] = "ksin" /\ status[p] = "STOPPED"
    /\ \A p \in Procs : p \in Range(inchars.queue) => where[p] = "sgetc" /\ status[p] = "STOPPED"
    /\ \A p \in Procs : status[p] = "STOPPED" =>
           p \in Range(inmutex.queue) \/ p \in Range(inchars.queue)

(* The mutex is free, or one process has it.                                 *)
MutexIsHeld ==
    /\ inmutex.value <= 1
    /\ inmutex.value = 1 => Readers = {}
    /\ inmutex.value <= 0 => \E r \in Procs : Readers = {r}

Getting == {p \in Procs : where[p] = "sgetc"}

(* inchars counts the characters in the buffer, less the one that is         *)
(* promised.                                                                 *)
CharsPromised == inchars.value = Len(pending) - IF Getting = {} THEN 0 ELSE 1

(* The inductive invariant.                                                  *)
SerialIInv ==
    /\ KInv
    /\ SerialTypeOK
    /\ ReadersAreLive
    /\ QueuesHoldReaders
    /\ MutexIsHeld
    /\ CharsPromised
    /\ CharsInOrder

(* The one that gets a character is the one that reads.                      *)
LEMMA GettingReads ==
  ASSUME SerialIInv
  PROVE  \A p \in Getting : Readers = {p} /\ Getting = {p} /\ inmutex.value <= 0
<1> SUFFICES ASSUME NEW p \in Getting PROVE Readers = {p} /\ Getting = {p} /\ inmutex.value <= 0
  OBVIOUS
<1>1. Getting \subseteq Readers
  BY DEF Getting, Readers, SerialIInv, QueuesHoldReaders
<1>2. inmutex.value \in Int /\ inmutex.value # 1 /\ inmutex.value <= 1
  BY <1>1 DEF SerialIInv, MutexIsHeld, SerialTypeOK
<1>3. PICK r \in Procs : Readers = {r}
  BY <1>2 DEF SerialIInv, MutexIsHeld
<1> QED
  BY <1>1, <1>2, <1>3

(* Whoever has the machine does not wait.                                    *)
LEMMA RunningWaitsNot ==
  ASSUME SerialIInv
  PROVE  /\ running \in Procs /\ status[running] = "RUNNING"
         /\ running \notin Range(inmutex.queue) /\ running \notin Range(inchars.queue)
         /\ priority \in [Procs -> Int] /\ status \in [Procs -> Statuses]
<1>1. Sane /\ Agree
  BY TwoHalves DEF SerialIInv
<1> QED
  BY <1>1 DEF Sane, Agree, Kept, SerialIInv, QueuesHoldReaders

(* Whoever reads is not P0, and is at the prompt as far as processes go.     *)
LEMMA ReaderIsUser ==
  ASSUME SerialIInv, running # NULL, where[running] # "user"
  PROVE  running # 0 /\ AtPrompt
<1>1. running \in Procs
  BY RunningWaitsNot
<1> QED
  BY <1>1 DEF SerialIInv, ReadersAreLive, AtPrompt

-----------------------------------------------------------------------------
(* In the beginning nobody reads and nothing is typed.                       *)
LEMMA SerialInitKeeps == SerialInit => SerialIInv
<1> SUFFICES ASSUME SerialInit PROVE SerialIInv
  OBVIOUS
<1>1. 0 \in Procs
  BY DEF Procs
<1>2. KInv
  <2>1. Fresh
    BY DEF SerialInit, Fresh
  <2> QED
    BY <2>1, FreshIsSound
<1>3. /\ inchars.value = 0 /\ inchars.queue = << >>
      /\ inmutex.value = 1 /\ inmutex.queue = << >>
      /\ pending = << >>
      /\ \A p \in Procs : where[p] = "user" /\ status[p] # "STOPPED"
  BY DEF SerialInit, Semaphore
<1>4. << >> \in Seq(Procs) /\ IsInjective(<< >>) /\ Range(<< >>) = {} /\ Len(<< >>) = 0
  BY DEF IsInjective, Range
<1>5. SerialTypeOK
  <2>1. /\ inbuf \in [0 .. BUFLEN - 1 -> Chars \cup {NULL}]
        /\ inhead \in 0 .. BUFLEN - 1 /\ intail \in 0 .. BUFLEN - 1
        /\ where \in [Procs -> {"user", "ksin", "sgetc"}]
        /\ irq \in [Procs -> {"off", "moment", "on"}]
    BY DEF SerialInit
  <2> QED
    BY <1>3, <2>1 DEF SerialTypeOK
<1>6. ReadersAreLive
  BY <1>1, <1>3 DEF ReadersAreLive
<1>7. QueuesHoldReaders
  BY <1>3, <1>4 DEF QueuesHoldReaders, Fits, Counts
<1>8. MutexIsHeld
  BY <1>3 DEF MutexIsHeld, Readers
<1>9. CharsPromised
  <2>1. Getting = {}
    BY <1>3 DEF Getting
  <2> QED
    BY <1>3, <2>1 DEF CharsPromised
<1>10. CharsInOrder
  <2>1. inhead = 0 /\ intail = 0 /\ 0 % BUFLEN = 0
    BY ModOnce DEF SerialInit
  <2> QED
    BY <1>3, <2>1 DEF CharsInOrder
<1> QED
  BY <1>2, <1>5, <1>6, <1>7, <1>8, <1>9, <1>10 DEF SerialIInv

(* The system calls that do not read.                                        *)
LEMMA OthersKeep ==
  ASSUME SerialIInv, Others, UNCHANGED serialVars
  PROVE  SerialIInv'
<1>1. KInv' /\ Alone
  BY OthersAlone DEF SerialIInv
<1>2. UNCHANGED <<inbuf, inhead, intail, inchars, inmutex, pending, where, irq>>
  BY DEF serialVars, sttyVars
<1>3. where[running] = "user"
  <2>1. running \in Procs
    BY RunningWaitsNot
  <2> QED
    BY <2>1 DEF Others, InUser, MainFork, MainSwitch, WaitAgain, SerialIInv, ReadersAreLive
<1>4. SerialTypeOK'
  BY <1>2 DEF SerialIInv, SerialTypeOK
<1>5. ReadersAreLive'
  BY <1>1, <1>2, <1>3 DEF SerialIInv, ReadersAreLive, Alone
<1>6. QueuesHoldReaders'
  <2>1. Fits(inchars)' /\ Fits(inmutex)'
    BY <1>2 DEF SerialIInv, QueuesHoldReaders, Fits, Counts
  <2>2. \A p \in Procs : status'[p] = "STOPPED" <=> status[p] = "STOPPED"
    BY <1>1 DEF Alone
  <2> QED
    BY <1>2, <2>1, <2>2 DEF SerialIInv, QueuesHoldReaders
<1>7. MutexIsHeld' /\ CharsPromised' /\ CharsInOrder'
  BY <1>2 DEF SerialIInv, MutexIsHeld, Readers, CharsPromised, Getting, CharsInOrder
<1> QED
  BY <1>1, <1>4, <1>5, <1>6, <1>7 DEF SerialIInv

(* What a P of semaphore s, becoming d, does to the processes.               *)
LEMMA PKeeps ==
  ASSUME SerialIInv, AtPrompt, NEW s, P(s), UNCHANGED othersVars
  PROVE  /\ KInv'
         /\ Blocks(s) => \A p \in Procs :
                status'[p] = "STOPPED" <=> p = running \/ status[p] = "STOPPED"
         /\ ~Blocks(s) => status' = status
         /\ \A p \in Procs : status[p] \in Live => status'[p] \in Live
<1>1. CASE Blocks(s)
  <2>1. scheduler([status EXCEPT ![running] = "STOPPED"], readyQueue)
    BY <1>1 DEF P
  <2> QED
    BY <1>1, <2>1, PStops DEF SerialIInv
<1>2. CASE ~Blocks(s)
  <2>1. UNCHANGED listVars
    BY <1>2 DEF P
  <2> QED
    BY <1>2, <2>1, NothingKeeps DEF SerialIInv, listVars
<1> QED
  BY <1>1, <1>2

(* ksin waits for the line to be free, or has it.                            *)
LEMMA KsinKeeps ==
  ASSUME SerialIInv, ksin
  PROVE  SerialIInv'
<1>1. /\ running \in Procs /\ status[running] = "RUNNING"
      /\ running \notin Range(inmutex.queue) /\ running \notin Range(inchars.queue)
      /\ priority \in [Procs -> Int]
  BY RunningWaitsNot
<1>2. /\ AtPrompt /\ running # 0 /\ where[running] = "user" /\ pc[running] = "body"
      /\ P(inmutex)
      /\ UNCHANGED <<inbuf, inhead, intail, inchars, pending>>
      /\ UNCHANGED othersVars
  BY DEF ksin, InUser, AtPrompt
<1>3. PICK w : w = [where EXCEPT ![running] = "ksin"]
  OBVIOUS
<1>4. /\ where' = w /\ w \in [Procs -> {"user", "ksin", "sgetc"}]
      /\ \A p \in Procs : w[p] = IF p = running THEN "ksin" ELSE where[p]
  BY <1>1, <1>3 DEF ksin, SerialIInv, SerialTypeOK
<1>5. /\ KInv'
      /\ Blocks(inmutex) => \A p \in Procs :
             status'[p] = "STOPPED" <=> p = running \/ status[p] = "STOPPED"
      /\ ~Blocks(inmutex) => status' = status
      /\ \A p \in Procs : status[p] \in Live => status'[p] \in Live
  BY <1>2, PKeeps
<1>6. /\ Fits(inmutex')
      /\ inmutex'.value = inmutex.value - 1
      /\ Blocks(inmutex) => Range(inmutex'.queue) = Range(inmutex.queue) \cup {running}
      /\ ~Blocks(inmutex) => inmutex'.queue = inmutex.queue
  <2>1. PICK d : d = Down(inmutex, running, priority)
    OBVIOUS
  <2>2. inmutex' = d
    BY <2>1 DEF ksin
  <2>3. Fits(inmutex)
    BY DEF SerialIInv, QueuesHoldReaders
  <2>4. /\ Fits(d)
        /\ d.value = inmutex.value - 1
        /\ Blocks(inmutex) => Range(d.queue) = Range(inmutex.queue) \cup {running}
        /\ ~Blocks(inmutex) => d.queue = inmutex.queue
    BY <1>1, <2>1, <2>3, DownFits
  <2> QED
    BY <2>2, <2>4
<1>7. SerialTypeOK'
  <2>1. inmutex'.value \in Int /\ inmutex'.queue \in Seq(Procs)
    BY <1>6 DEF Fits
  <2>2. irq' \in [Procs -> {"off", "moment", "on"}]
    BY <1>1 DEF ksin, SerialIInv, SerialTypeOK
  <2> QED
    BY <1>2, <1>4, <2>1, <2>2 DEF SerialIInv, SerialTypeOK
<1>8. ReadersAreLive'
  <2>1. UNCHANGED pc /\ 0 \in Procs
    BY <1>2 DEF othersVars, Procs
  <2> QED
    BY <1>1, <1>2, <1>4, <1>5, <2>1 DEF SerialIInv, ReadersAreLive, Live
<1>9. QueuesHoldReaders'
  <2>1. Fits(inchars') /\ Fits(inmutex')
    BY <1>2, <1>6 DEF SerialIInv, QueuesHoldReaders
  <2>2. CASE Blocks(inmutex)
    BY <1>1, <1>2, <1>4, <1>5, <1>6, <2>1, <2>2 DEF SerialIInv, QueuesHoldReaders
  <2>3. CASE ~Blocks(inmutex)
    BY <1>1, <1>2, <1>4, <1>5, <1>6, <2>1, <2>3 DEF SerialIInv, QueuesHoldReaders
  <2> QED
    BY <2>2, <2>3
<1>10. MutexIsHeld'
  <2>1. inmutex.value \in Int /\ inmutex.value <= 1
    BY DEF SerialIInv, MutexIsHeld, SerialTypeOK
  <2>2. CASE Blocks(inmutex)
    <3>1. Readers' = Readers
      BY <1>1, <1>2, <1>4, <1>6, <2>2 DEF Readers
    <3> QED
      BY <1>6, <2>1, <2>2, <3>1 DEF SerialIInv, MutexIsHeld, Blocks
  <2>3. CASE ~Blocks(inmutex)
    <3>1. inmutex.value = 1 /\ Readers = {}
      BY <2>1, <2>3 DEF SerialIInv, MutexIsHeld, Blocks
    <3>2. Readers' = {running}
      BY <1>1, <1>4, <1>6, <2>3, <3>1 DEF Readers
    <3> QED
      BY <1>1, <1>6, <3>1, <3>2 DEF MutexIsHeld
  <2> QED
    BY <2>2, <2>3
<1>11. CharsPromised' /\ CharsInOrder'
  <2>1. Getting' = Getting
    BY <1>2, <1>4 DEF Getting
  <2> QED
    BY <1>2, <2>1 DEF SerialIInv, CharsPromised, CharsInOrder
<1> QED
  BY <1>5, <1>7, <1>8, <1>9, <1>10, <1>11 DEF SerialIInv

(* sgetc is promised a character, there or to come.                          *)
LEMMA AwaitCharKeeps ==
  ASSUME SerialIInv, AwaitChar
  PROVE  SerialIInv'
<1>1. /\ running \in Procs /\ status[running] = "RUNNING"
      /\ running \notin Range(inmutex.queue) /\ running \notin Range(inchars.queue)
      /\ priority \in [Procs -> Int]
  BY RunningWaitsNot
<1>2. /\ where[running] = "ksin"
      /\ P(inchars)
      /\ UNCHANGED <<inbuf, inhead, intail, inmutex, pending>>
      /\ UNCHANGED othersVars
  BY DEF AwaitChar
<1>3. PICK w : w = [where EXCEPT ![running] = "sgetc"]
  OBVIOUS
<1>4. /\ where' = w /\ w \in [Procs -> {"user", "ksin", "sgetc"}]
      /\ \A p \in Procs : w[p] = IF p = running THEN "sgetc" ELSE where[p]
  BY <1>1, <1>3 DEF AwaitChar, SerialIInv, SerialTypeOK
<1>5. /\ KInv'
      /\ Blocks(inchars) => \A p \in Procs :
             status'[p] = "STOPPED" <=> p = running \/ status[p] = "STOPPED"
      /\ ~Blocks(inchars) => status' = status
      /\ \A p \in Procs : status[p] \in Live => status'[p] \in Live
  <2>1. AtPrompt
    BY <1>2, ReaderIsUser DEF AwaitChar
  <2> QED
    BY <1>2, <2>1, PKeeps
<1>6. /\ Fits(inchars')
      /\ inchars'.value = inchars.value - 1
      /\ Blocks(inchars) => Range(inchars'.queue) = Range(inchars.queue) \cup {running}
      /\ ~Blocks(inchars) => inchars'.queue = inchars.queue
  <2>1. PICK d : d = Down(inchars, running, priority)
    OBVIOUS
  <2>2. inchars' = d
    BY <2>1 DEF AwaitChar
  <2>3. Fits(inchars)
    BY DEF SerialIInv, QueuesHoldReaders
  <2>4. /\ Fits(d)
        /\ d.value = inchars.value - 1
        /\ Blocks(inchars) => Range(d.queue) = Range(inchars.queue) \cup {running}
        /\ ~Blocks(inchars) => d.queue = inchars.queue
    BY <1>1, <2>1, <2>3, DownFits
  <2> QED
    BY <2>2, <2>4
<1>7. SerialTypeOK'
  <2>1. inchars'.value \in Int /\ inchars'.queue \in Seq(Procs)
    BY <1>6 DEF Fits
  <2>2. irq' \in [Procs -> {"off", "moment", "on"}]
    BY <1>1 DEF AwaitChar, AfterP, SerialIInv, SerialTypeOK
  <2> QED
    BY <1>2, <1>4, <2>1, <2>2 DEF SerialIInv, SerialTypeOK
<1>8. ReadersAreLive'
  <2>1. UNCHANGED pc /\ 0 \in Procs
    BY <1>2 DEF othersVars, Procs
  <2> QED
    BY <1>1, <1>2, <1>4, <1>5, <2>1 DEF SerialIInv, ReadersAreLive, Live
<1>9. QueuesHoldReaders'
  <2>1. Fits(inchars') /\ Fits(inmutex')
    BY <1>2, <1>6 DEF SerialIInv, QueuesHoldReaders
  <2>2. CASE Blocks(inchars)
    BY <1>1, <1>2, <1>4, <1>5, <1>6, <2>1, <2>2 DEF SerialIInv, QueuesHoldReaders
  <2>3. CASE ~Blocks(inchars)
    BY <1>1, <1>2, <1>4, <1>5, <1>6, <2>1, <2>3 DEF SerialIInv, QueuesHoldReaders
  <2> QED
    BY <2>2, <2>3
<1>10. Readers' = Readers
  BY <1>1, <1>2, <1>4 DEF Readers
<1>11. MutexIsHeld'
  BY <1>2, <1>10 DEF SerialIInv, MutexIsHeld
<1>12. CharsPromised' /\ CharsInOrder'
  <2>1. running \in Readers
    BY <1>1, <1>2 DEF Readers
  <2>2. Getting = {}
    <3>1. ASSUME NEW p \in Getting PROVE FALSE
      <4>1. Readers = {p} /\ where[p] = "sgetc"
        BY <3>1, GettingReads DEF Getting
      <4> QED
        BY <1>2, <2>1, <4>1
    <3> QED
      BY <3>1
  <2>3. running \in Getting'
    BY <1>1, <1>4 DEF Getting
  <2>4. inchars.value \in Int /\ Len(pending) \in Nat /\ inchars.value = Len(pending)
    BY <2>2 DEF SerialIInv, SerialTypeOK, CharsPromised
  <2>5. inchars'.value = Len(pending') - 1
    BY <1>2, <1>6, <2>4
  <2>6. CharsPromised'
    BY <2>3, <2>5 DEF CharsPromised
  <2> QED
    BY <1>2, <2>6 DEF SerialIInv, CharsInOrder
<1> QED
  BY <1>5, <1>7, <1>8, <1>9, <1>11, <1>12 DEF SerialIInv

(* What a V of a semaphore does: the first that waits for it can go on.      *)
LEMMA VKeeps ==
  ASSUME SerialIInv, NEW s, Fits(s), V(s), UNCHANGED othersVars,
         \A p \in Range(s.queue) : status[p] = "STOPPED"
  PROVE  /\ KInv'
         /\ Wakes(s) => \A p \in Procs :
                status'[p] = IF p = Head(s.queue) THEN "READY" ELSE status[p]
         /\ ~Wakes(s) => status' = status
         /\ UNCHANGED running
<1>1. CASE Wakes(s)
  <2>1. PICK q : q = Head(s.queue)
    OBVIOUS
  <2>2. PICK u : u = Up(s)
    OBVIOUS
  <2>3. q \in Procs /\ q \in Range(s.queue)
    BY <1>1, <2>1, <2>2, UpFits
  <2>4. status[q] = "STOPPED"
    BY <2>3
  <2>5. /\ status' = [status EXCEPT ![q] = "READY"]
        /\ readyQueue' = enqueue(readyQueue, q, priority)
        /\ UNCHANGED <<running, rflag>>
    BY <1>1, <2>1 DEF V, dequeue
  <2> QED
    BY <1>1, <2>1, <2>3, <2>4, <2>5, VWakes DEF SerialIInv
<1>2. CASE ~Wakes(s)
  <2>1. UNCHANGED listVars
    BY <1>2 DEF V, listVars
  <2> QED
    BY <1>2, <2>1, NothingKeeps DEF SerialIInv, listVars
<1> QED
  BY <1>1, <1>2

(* The oldest character leaves the buffer, and the others stay in order.     *)
LEMMA TakeInOrder ==
  ASSUME SerialTypeOK, CharsInOrder, pending # << >>,
         intail' = After(intail), pending' = Tail(pending),
         UNCHANGED <<inbuf, inhead>>
  PROVE  /\ CharsInOrder'
         /\ intail' \in 0 .. BUFLEN - 1
         /\ pending' \in Seq(Chars) /\ Len(pending') = Len(pending) - 1
<1>1. PICK n \in Nat : n = Len(pending) /\ n >= 1 /\ n <= BUFLEN + 1
  BY DEF SerialTypeOK, CharsInOrder
<1>2. /\ pending' \in Seq(Chars) /\ Len(pending') = n - 1
      /\ \A i \in 1 .. n - 1 : pending'[i] = pending[i + 1]
  BY <1>1 DEF SerialTypeOK
<1>3. intail \in 0 .. BUFLEN - 1 /\ intail' = (intail + 1) % BUFLEN
  BY DEF SerialTypeOK, After
<1>4. intail' = IF intail + 1 = BUFLEN THEN 0 ELSE intail + 1
  <2>1. CASE intail + 1 = BUFLEN
    BY <1>3, <2>1, ModTwice
  <2>2. CASE intail + 1 < BUFLEN
    BY <1>3, <2>2, ModOnce
  <2> QED
    BY <1>3, <2>1, <2>2
<1>5. intail' \in 0 .. BUFLEN - 1
  BY <1>3, <1>4
<1>6. \A k \in 0 .. BUFLEN : (intail' + k) % BUFLEN = (intail + 1 + k) % BUFLEN
  <2> TAKE k \in 0 .. BUFLEN
  <2>1. CASE intail + 1 < BUFLEN
    BY <1>3, <1>4, <2>1
  <2>2. CASE intail + 1 = BUFLEN
    <3>1. intail' + k = k /\ intail + 1 + k = BUFLEN + k
      BY <1>3, <1>4, <2>2
    <3>2. CASE k < BUFLEN
      BY SMTT(30), <3>1, <3>2, ModOnce, ModTwice
    <3>3. CASE k = BUFLEN
      BY <3>1, <3>3, ModTwice, ModThrice
    <3> QED
      BY <3>2, <3>3
  <2> QED
    BY <1>3, <2>1, <2>2
<1>7. inhead = (intail + n) % BUFLEN
  BY <1>1 DEF CharsInOrder
<1>8. inhead' = (intail' + Len(pending')) % BUFLEN
  <2>1. (intail' + (n - 1)) % BUFLEN = (intail + 1 + (n - 1)) % BUFLEN
    BY <1>1, <1>6
  <2>2. intail + 1 + (n - 1) = intail + n
    BY <1>1, <1>3
  <2> QED
    BY <1>2, <1>7, <2>1, <2>2
<1>9. ASSUME NEW i \in DOMAIN pending', i > Len(pending') - BUFLEN
      PROVE  inbuf'[(intail' + i - 1) % BUFLEN] = pending'[i]
  <2>1. i \in 1 .. n - 1 /\ i > n - 1 - BUFLEN
    BY <1>1, <1>2, <1>9
  <2>2. inbuf[(intail + (i + 1) - 1) % BUFLEN] = pending[i + 1]
    <3>1. i + 1 \in DOMAIN pending /\ i + 1 > Len(pending) - BUFLEN
      BY SMTT(30), <1>1, <2>1 DEF SerialTypeOK
    <3> QED
      BY <3>1 DEF CharsInOrder
  <2>3. (intail' + (i - 1)) % BUFLEN = (intail + 1 + (i - 1)) % BUFLEN
    BY <1>1, <1>6, <2>1
  <2>4. intail' + i - 1 = intail' + (i - 1) /\ intail + 1 + (i - 1) = intail + (i + 1) - 1
    BY <1>3, <1>5, <2>1
  <2> QED
    BY <1>2, <2>1, <2>2, <2>3, <2>4
<1>10. Len(pending') <= BUFLEN + 1
  BY <1>1, <1>2
<1>11. CharsInOrder'
  BY <1>8, <1>9, <1>10 DEF CharsInOrder
<1> QED
  BY <1>1, <1>2, <1>5, <1>11

(* When sgetc is back from its P there is a character to take: the one that  *)
(* is promised to nobody else, as whoever waits is not running.              *)
LEMMA SomethingToTake ==
  ASSUME SerialIInv, running # NULL, where[running] = "sgetc"
  PROVE  pending # << >>
<1> SUFFICES ASSUME pending = << >> PROVE FALSE
  OBVIOUS
<1>1. running \in Procs /\ running \notin Range(inchars.queue)
  BY RunningWaitsNot
<1>2. running \in Getting
  BY <1>1 DEF Getting
<1>3. Getting = {running}
  BY <1>2, GettingReads
<1>4. inchars.value = -1
  <2>1. Len(pending) = 0
    OBVIOUS
  <2>2. inchars.value = Len(pending) - 1
    BY <1>2 DEF SerialIInv, CharsPromised
  <2> QED
    BY <2>1, <2>2
<1>5. inchars.queue \in Seq(Procs) /\ Len(inchars.queue) = 1
  <2>1. Fits(inchars)
    BY DEF SerialIInv, QueuesHoldReaders
  <2>2. PICK v \in Int : v = inchars.value
    BY <2>1 DEF Fits
  <2>3. Len(inchars.queue) = IF v < 0 THEN -v ELSE 0
    BY <2>1, <2>2 DEF Fits, Counts
  <2>4. inchars.queue \in Seq(Procs) /\ v + 1 = 0
    BY <1>4, <2>1, <2>2 DEF Fits
  <2> QED
    BY <2>3, <2>4
<1>6. PICK q \in Procs : q \in Range(inchars.queue)
  <2>1. 1 \in DOMAIN inchars.queue /\ inchars.queue[1] \in Procs
    BY <1>5
  <2> QED
    BY <2>1 DEF Range
<1>7. q \in Getting
  BY <1>6 DEF SerialIInv, QueuesHoldReaders, Getting
<1> QED
  BY <1>1, <1>3, <1>6, <1>7

(* sgetc takes a character, and at the end of the line ksin lets the next    *)
(* one read.                                                                 *)
LEMMA TakeCharKeeps ==
  ASSUME SerialIInv, TakeChar
  PROVE  SerialIInv'
<1>1. /\ running \in Procs /\ status[running] = "RUNNING"
      /\ running \notin Range(inmutex.queue) /\ running \notin Range(inchars.queue)
      /\ priority \in [Procs -> Int]
  BY RunningWaitsNot
<1>2. /\ running # NULL /\ where[running] = "sgetc"
      /\ intail' = After(intail)
      /\ pending' = Tail(pending)
      /\ UNCHANGED <<inbuf, inhead, inchars>>
      /\ UNCHANGED othersVars
  BY DEF TakeChar
<1>3. /\ CharsInOrder'
      /\ intail' \in 0 .. BUFLEN - 1
      /\ pending' \in Seq(Chars) /\ Len(pending') = Len(pending) - 1
  <2>1. pending # << >>
    BY <1>2, SomethingToTake
  <2> QED
    BY <1>2, <2>1, TakeInOrder DEF SerialIInv
<1>4. running \in Getting /\ Getting = {running} /\ Readers = {running} /\ inmutex.value <= 0
  <2>1. running \in Getting
    BY <1>1, <1>2 DEF Getting
  <2> QED
    BY <2>1, GettingReads
<1>5. UNCHANGED pc /\ 0 \in Procs /\ running # 0
  BY <1>2, ReaderIsUser DEF othersVars, Procs
<1>6. inmutex.value \in Int /\ Fits(inmutex) /\ Fits(inchars) /\ Fits(inchars')
  BY <1>2 DEF SerialIInv, SerialTypeOK, QueuesHoldReaders
<1>7. ASSUME NEW w, w \in {"user", "ksin"}, where' = [where EXCEPT ![running] = w],
             NEW i, i \in {"off", "on"}, irq' = [irq EXCEPT ![running] = i]
      PROVE  /\ where' \in [Procs -> {"user", "ksin", "sgetc"}]
             /\ irq' \in [Procs -> {"off", "moment", "on"}]
             /\ \A p \in Procs : where'[p] = IF p = running THEN w ELSE where[p]
             /\ CharsPromised'
  <2>1. \A p \in Procs : where'[p] = IF p = running THEN w ELSE where[p]
    BY <1>1, <1>7 DEF SerialIInv, SerialTypeOK
  <2>2. Getting' = {}
    <3>1. ASSUME NEW p \in Procs, where'[p] = "sgetc" PROVE FALSE
      <4>1. p # running /\ where[p] = "sgetc"
        BY <1>7, <2>1, <3>1
      <4> QED
        BY <1>4, <4>1 DEF Getting
    <3> QED
      BY <3>1 DEF Getting
  <2>3. inchars.value = Len(pending) - 1
    BY <1>4 DEF SerialIInv, CharsPromised
  <2>4. CharsPromised'
    <3>1. inchars'.value = Len(pending')
      BY <1>2, <1>3, <2>3
    <3>2. Len(pending') \in Nat
      BY <1>3
    <3> QED
      BY <2>2, <3>1, <3>2 DEF CharsPromised
  <2>5. /\ where' \in [Procs -> {"user", "ksin", "sgetc"}]
        /\ irq' \in [Procs -> {"off", "moment", "on"}]
    BY <1>1, <1>7 DEF SerialIInv, SerialTypeOK
  <2> QED
    BY <2>1, <2>4, <2>5
<1>8. CASE /\ UNCHANGED <<inmutex, listVars>>
           /\ where' = [where EXCEPT ![running] = "ksin"]
           /\ irq' = [irq EXCEPT ![running] = "on"]
  <2>1. /\ where' \in [Procs -> {"user", "ksin", "sgetc"}]
        /\ irq' \in [Procs -> {"off", "moment", "on"}]
        /\ \A p \in Procs : where'[p] = IF p = running THEN "ksin" ELSE where[p]
        /\ CharsPromised'
    BY <1>7, <1>8
  <2>2. UNCHANGED status /\ UNCHANGED inmutex
    BY <1>8 DEF listVars
  <2>3. KInv'
    BY <1>2, <1>8, NothingKeeps DEF SerialIInv
  <2>4. SerialTypeOK'
    BY <1>2, <1>3, <2>1, <2>2 DEF SerialIInv, SerialTypeOK
  <2>5. ReadersAreLive'
    BY <1>2, <1>5, <2>1, <2>2 DEF SerialIInv, ReadersAreLive
  <2>6. QueuesHoldReaders'
    BY <1>1, <1>2, <1>6, <2>1, <2>2 DEF SerialIInv, QueuesHoldReaders
  <2>7. MutexIsHeld'
    <3>1. Readers' = Readers
      BY <1>2, <2>1, <2>2 DEF Readers
    <3> QED
      BY <2>2, <3>1 DEF SerialIInv, MutexIsHeld
  <2> QED
    BY <1>3, <2>1, <2>3, <2>4, <2>5, <2>6, <2>7 DEF SerialIInv
<1>9. CASE /\ EndOfLine(inbuf[intail])
           /\ where' = [where EXCEPT ![running] = "user"]
           /\ irq' = [irq EXCEPT ![running] = "off"]
  <2>1. /\ where' \in [Procs -> {"user", "ksin", "sgetc"}]
        /\ irq' \in [Procs -> {"off", "moment", "on"}]
        /\ \A p \in Procs : where'[p] = IF p = running THEN "user" ELSE where[p]
        /\ CharsPromised'
    BY <1>7, <1>9
  <2>2. V(inmutex)
    BY <1>9 DEF EndOfLine
  <2>3. PICK u : u = Up(inmutex)
    OBVIOUS
  <2>4. inmutex' = u
    BY <1>9, <2>3 DEF EndOfLine
  <2>5. PICK h : h = Head(inmutex.queue)
    OBVIOUS
  <2>6. /\ Fits(u)
        /\ u.value = inmutex.value + 1
        /\ Wakes(inmutex) => /\ h \in Procs
                             /\ Range(inmutex.queue) = Range(u.queue) \cup {h}
                             /\ h \notin Range(u.queue)
        /\ ~Wakes(inmutex) => u.queue = inmutex.queue
    BY <1>6, <2>3, <2>5, UpFits
  <2>7. /\ KInv'
        /\ Wakes(inmutex) => \A p \in Procs :
               status'[p] = IF p = h THEN "READY" ELSE status[p]
        /\ ~Wakes(inmutex) => status' = status
        /\ UNCHANGED running
    <3>1. \A p \in Range(inmutex.queue) : status[p] = "STOPPED"
      BY <1>6, RangeOfProcs DEF Fits, SerialIInv, QueuesHoldReaders
    <3> QED
      BY <1>2, <1>6, <2>2, <2>5, <3>1, VKeeps
  <2>8. Fits(inmutex') /\ inmutex'.value = inmutex.value + 1 /\ inmutex'.queue = u.queue
    BY <2>4, <2>6
  <2>9. SerialTypeOK'
    <3>1. inmutex'.value \in Int /\ inmutex'.queue \in Seq(Procs)
      BY <2>8 DEF Fits
    <3> QED
      BY <1>2, <1>3, <2>1, <3>1 DEF SerialIInv, SerialTypeOK
  <2>10. ReadersAreLive'
    <3>1. \A p \in Procs : status[p] \in Live => status'[p] \in Live
      BY <2>7 DEF Live
    <3> QED
      BY <1>5, <2>1, <3>1 DEF SerialIInv, ReadersAreLive
  <2>11. QueuesHoldReaders'
    <3>1. CASE Wakes(inmutex)
      <4>1. h \in Range(inmutex.queue)
        BY <2>6, <3>1
      <4>2. where[h] = "ksin" /\ h \notin Range(inchars.queue) /\ h # running
        BY <1>2, <2>6, <3>1, <4>1 DEF SerialIInv, QueuesHoldReaders
      <4>3. \A p \in Procs : p \in Range(inmutex'.queue) =>
                p \in Range(inmutex.queue) /\ p # h
        BY <2>6, <2>8, <3>1
      <4>4. \A p \in Procs : p \in Range(inmutex'.queue) => where'[p] = "ksin" /\ status'[p] = "STOPPED"
        BY <1>1, <2>1, <2>7, <3>1, <4>3 DEF SerialIInv, QueuesHoldReaders
      <4>5. \A p \in Procs : p \in Range(inchars.queue) => where'[p] = "sgetc" /\ status'[p] = "STOPPED"
        BY <1>1, <2>1, <2>7, <3>1, <4>2 DEF SerialIInv, QueuesHoldReaders
      <4>6. \A p \in Procs : status'[p] = "STOPPED" =>
                p \in Range(inmutex'.queue) \/ p \in Range(inchars.queue)
        <5> TAKE p \in Procs
        <5> HAVE status'[p] = "STOPPED"
        <5>1. p # h /\ status[p] = "STOPPED"
          BY <2>7, <3>1
        <5> QED
          BY <2>6, <2>8, <3>1, <5>1 DEF SerialIInv, QueuesHoldReaders
      <4> QED
        BY <1>2, <1>6, <2>8, <4>4, <4>5, <4>6 DEF QueuesHoldReaders
    <3>2. CASE ~Wakes(inmutex)
      BY <1>1, <1>2, <1>6, <2>1, <2>6, <2>7, <2>8, <3>2 DEF SerialIInv, QueuesHoldReaders
    <3> QED
      BY <3>1, <3>2
  <2>12. MutexIsHeld'
    <3>1. CASE Wakes(inmutex)
      <4>1. h \in Range(inmutex.queue)
        BY <2>6, <3>1
      <4>2. where[h] = "ksin" /\ h # running /\ h \in Procs
        BY <1>2, <2>6, <3>1, <4>1 DEF SerialIInv, QueuesHoldReaders
      <4>3. \A p \in Procs : where[p] # "user" /\ p # running => p \in Range(inmutex.queue)
        BY <1>4 DEF Readers
      <4>4. \A p \in Procs : p \in Readers' <=> p = h
        BY <2>1, <2>6, <2>8, <3>1, <4>2, <4>3 DEF Readers
      <4>5. Readers' = {h}
        BY <4>2, <4>4 DEF Readers
      <4>6. inmutex'.value <= 0
        BY <1>6, <2>8, <3>1 DEF Wakes
      <4> QED
        <5>1. inmutex'.value \in Int /\ inmutex'.value # 1 /\ inmutex'.value <= 1
          BY <2>8, <4>6 DEF Fits
        <5> QED
          BY <4>2, <4>5, <5>1 DEF MutexIsHeld
    <3>2. CASE ~Wakes(inmutex)
      <4>1. inmutex.value = 0
        BY <1>4, <1>6, <3>2 DEF Wakes
      <4>2. Readers' = {}
        <5>1. \A p \in Procs : where[p] # "user" /\ p # running => p \in Range(inmutex.queue)
          BY <1>4 DEF Readers
        <5> QED
          BY <2>1, <2>6, <2>8, <3>2, <5>1 DEF Readers
      <4> QED
        BY <2>8, <4>1, <4>2 DEF MutexIsHeld
    <3> QED
      BY <3>1, <3>2
  <2> QED
    BY <1>3, <2>1, <2>7, <2>9, <2>10, <2>11, <2>12 DEF SerialIInv
<1> QED
  BY <1>8, <1>9 DEF TakeChar

(* The newest character enters the buffer after all others; at worst it      *)
(* takes the place of the oldest.                                            *)
LEMMA PutInOrder ==
  ASSUME SerialTypeOK, CharsInOrder, Len(pending) <= BUFLEN, NEW c \in Chars,
         inbuf' = [inbuf EXCEPT ![inhead] = c],
         inhead' = (inhead + 1) % BUFLEN,
         pending' = Append(pending, c),
         UNCHANGED intail
  PROVE  /\ CharsInOrder'
         /\ inbuf' \in [0 .. BUFLEN - 1 -> Chars \cup {NULL}]
         /\ inhead' \in 0 .. BUFLEN - 1
         /\ pending' \in Seq(Chars) /\ Len(pending') = Len(pending) + 1
<1>1. PICK n \in Nat : n = Len(pending) /\ n <= BUFLEN
  BY DEF SerialTypeOK
<1>2. /\ pending' \in Seq(Chars) /\ Len(pending') = n + 1
      /\ \A i \in 1 .. n : pending'[i] = pending[i]
      /\ pending'[n + 1] = c
  BY <1>1 DEF SerialTypeOK
<1>3. /\ intail \in 0 .. BUFLEN - 1
      /\ inhead \in 0 .. BUFLEN - 1
      /\ inhead = (intail + n) % BUFLEN
  BY <1>1 DEF SerialTypeOK, CharsInOrder
<1>4. inhead' = (intail + (n + 1)) % BUFLEN /\ inhead' \in 0 .. BUFLEN - 1
  <2>1. intail + n \in 0 .. 3 * BUFLEN - 2 /\ intail + n + 1 \in 0 .. 3 * BUFLEN - 1
    BY SMTT(30), <1>1, <1>3
  <2>2. inhead' = (intail + n + 1) % BUFLEN
    BY <1>3, <2>1, ModStep
  <2>3. intail + n + 1 = intail + (n + 1)
    BY <1>1, <1>3
  <2> QED
    BY <2>1, <2>2, <2>3, ModInside
<1>5. /\ inbuf' \in [0 .. BUFLEN - 1 -> Chars \cup {NULL}]
      /\ \A k \in 0 .. BUFLEN - 1 : inbuf'[k] = IF k = inhead THEN c ELSE inbuf[k]
  BY <1>3 DEF SerialTypeOK
<1>6. ASSUME NEW i \in DOMAIN pending', i > Len(pending') - BUFLEN
      PROVE  inbuf'[(intail' + i - 1) % BUFLEN] = pending'[i]
  <2>1. i \in 1 .. n + 1 /\ i > n + 1 - BUFLEN
    BY <1>2, <1>6
  <2>2. CASE i = n + 1
    <3>1. intail + i - 1 = intail + n
      BY <1>1, <1>3, <2>2
    <3> QED
      BY <1>2, <1>3, <1>5, <2>2, <3>1
  <2>3. CASE i # n + 1
    <3>1. i \in 1 .. n /\ i > n - BUFLEN
      BY <1>1, <2>1, <2>3
    <3>2. inbuf[(intail + i - 1) % BUFLEN] = pending[i]
      <4>1. i \in DOMAIN pending /\ i > Len(pending) - BUFLEN
        BY <1>1, <3>1 DEF SerialTypeOK
      <4> QED
        BY <4>1 DEF CharsInOrder
    <3>3. /\ intail + i - 1 \in 0 .. 3 * BUFLEN - 1
          /\ intail + n \in 0 .. 3 * BUFLEN - 1
          /\ intail + i - 1 < intail + n
          /\ intail + n < intail + i - 1 + BUFLEN
      <4>1. /\ i \in Int /\ 1 <= i /\ i <= n /\ n + 1 - BUFLEN < i
            /\ intail \in Int /\ 0 <= intail /\ intail <= BUFLEN - 1
            /\ n \in Int /\ n <= BUFLEN
        BY <1>1, <1>3, <2>1, <3>1
      <4> QED
        BY <4>1
    <3>4. (intail + i - 1) % BUFLEN # inhead
      BY <1>3, <3>3, ModDiffers
    <3>5. (intail + i - 1) % BUFLEN \in 0 .. BUFLEN - 1
      BY <3>3, ModInside
    <3> QED
      BY <1>2, <1>5, <3>1, <3>2, <3>4, <3>5
  <2> QED
    BY <2>2, <2>3
<1>7. Len(pending') <= BUFLEN + 1
  BY <1>1, <1>2
<1>8. CharsInOrder'
  BY <1>2, <1>4, <1>6, <1>7 DEF CharsInOrder
<1> QED
  BY <1>1, <1>2, <1>4, <1>5, <1>8

(* The receive interrupt, whoever it interrupts.                             *)
LEMMA DoRxKeeps ==
  ASSUME SerialIInv, NEW c \in Chars, do_rx(c)
  PROVE  SerialIInv'
<1>1. /\ running \in Procs /\ status[running] = "RUNNING"
      /\ running \notin Range(inmutex.queue) /\ running \notin Range(inchars.queue)
      /\ priority \in [Procs -> Int]
  BY RunningWaitsNot
<1>2. /\ ~Full
      /\ inbuf' = [inbuf EXCEPT ![inhead] = c]
      /\ inhead' = (inhead + 1) % BUFLEN
      /\ V(inchars)
      /\ pending' = Append(pending, c)
      /\ UNCHANGED <<intail, inmutex, where, irq>>
      /\ UNCHANGED othersVars
  BY DEF do_rx
<1>3. Fits(inchars) /\ Fits(inmutex)
  BY DEF SerialIInv, QueuesHoldReaders
<1>4. inchars.value \in Int /\ inchars.value < BUFLEN
  BY <1>2, <1>3 DEF Fits, Full
<1>5. Len(pending) \in Nat /\ Len(pending) <= BUFLEN
  <2>1. Len(pending) \in Nat
    BY DEF SerialIInv, SerialTypeOK
  <2>2. inchars.value = Len(pending) \/ inchars.value = Len(pending) - 1
    BY <2>1 DEF SerialIInv, CharsPromised
  <2> QED
    BY <1>4, <2>1, <2>2
<1>6. /\ CharsInOrder'
      /\ inbuf' \in [0 .. BUFLEN - 1 -> Chars \cup {NULL}]
      /\ inhead' \in 0 .. BUFLEN - 1
      /\ pending' \in Seq(Chars) /\ Len(pending') = Len(pending) + 1
  BY <1>2, <1>5, PutInOrder DEF SerialIInv
<1>7. PICK u : u = Up(inchars)
  OBVIOUS
<1>8. inchars' = u
  BY <1>7 DEF do_rx
<1>9. PICK h : h = Head(inchars.queue)
  OBVIOUS
<1>10. /\ Fits(u)
       /\ u.value = inchars.value + 1
       /\ Wakes(inchars) => /\ h \in Procs
                            /\ Range(inchars.queue) = Range(u.queue) \cup {h}
                            /\ h \notin Range(u.queue)
       /\ ~Wakes(inchars) => u.queue = inchars.queue
  BY <1>3, <1>7, <1>9, UpFits
<1>11. /\ KInv'
       /\ Wakes(inchars) => \A p \in Procs :
              status'[p] = IF p = h THEN "READY" ELSE status[p]
       /\ ~Wakes(inchars) => status' = status
  <2>1. \A p \in Range(inchars.queue) : status[p] = "STOPPED"
    BY <1>3, RangeOfProcs DEF Fits, SerialIInv, QueuesHoldReaders
  <2> QED
    BY <1>2, <1>3, <1>9, <2>1, VKeeps
<1>12. Fits(inchars') /\ inchars'.value = inchars.value + 1 /\ inchars'.queue = u.queue
  BY <1>8, <1>10
<1>13. SerialTypeOK'
  <2>1. inchars'.value \in Int /\ inchars'.queue \in Seq(Procs)
    BY <1>12 DEF Fits
  <2> QED
    BY <1>2, <1>6, <2>1 DEF SerialIInv, SerialTypeOK
<1>14. ReadersAreLive'
  <2>1. \A p \in Procs : status[p] \in Live => status'[p] \in Live
    BY <1>11 DEF Live
  <2>2. UNCHANGED pc
    BY <1>2 DEF othersVars
  <2> QED
    BY <1>2, <2>1, <2>2 DEF SerialIInv, ReadersAreLive
<1>15. QueuesHoldReaders'
  <2>1. CASE Wakes(inchars)
    <3>1. h \in Range(inchars.queue)
      BY <1>10, <2>1
    <3>2. where[h] = "sgetc" /\ h \notin Range(inmutex.queue)
      BY <1>10, <2>1, <3>1 DEF SerialIInv, QueuesHoldReaders
    <3>3. \A p \in Procs : p \in Range(inchars'.queue) => p \in Range(inchars.queue) /\ p # h
      BY <1>10, <1>12, <2>1
    <3>4. \A p \in Procs : p \in Range(inchars'.queue) => where[p] = "sgetc" /\ status'[p] = "STOPPED"
      BY <1>11, <2>1, <3>3 DEF SerialIInv, QueuesHoldReaders
    <3>5. \A p \in Procs : p \in Range(inmutex.queue) => where[p] = "ksin" /\ status'[p] = "STOPPED"
      BY <1>11, <2>1, <3>2 DEF SerialIInv, QueuesHoldReaders
    <3>6. ASSUME NEW p \in Procs, status'[p] = "STOPPED"
          PROVE  p \in Range(inmutex.queue) \/ p \in Range(inchars'.queue)
      <4>1. p # h /\ status[p] = "STOPPED"
        BY <1>11, <2>1, <3>6
      <4> QED
        BY <1>10, <1>12, <2>1, <4>1 DEF SerialIInv, QueuesHoldReaders
    <3> QED
      BY <1>2, <1>3, <1>12, <3>4, <3>5, <3>6 DEF QueuesHoldReaders
  <2>2. CASE ~Wakes(inchars)
    BY <1>2, <1>3, <1>10, <1>11, <1>12, <2>2 DEF SerialIInv, QueuesHoldReaders
  <2> QED
    BY <2>1, <2>2
<1>16. MutexIsHeld'
  BY <1>2 DEF SerialIInv, MutexIsHeld, Readers
<1>17. CharsPromised'
  <2>1. Getting' = Getting
    BY <1>2 DEF Getting
  <2>2. inchars.value = Len(pending) - IF Getting = {} THEN 0 ELSE 1
    BY DEF SerialIInv, CharsPromised
  <2> QED
    BY <1>5, <1>6, <1>12, <2>1, <2>2 DEF CharsPromised
<1> QED
  BY <1>6, <1>11, <1>13, <1>14, <1>15, <1>16, <1>17 DEF SerialIInv

(* Every step keeps the invariant.                                           *)
LEMMA SerialNextKeeps == SerialIInv /\ [SerialNext]_<<vars, serialVars>> => SerialIInv'
<1> SUFFICES ASSUME SerialIInv, [SerialNext]_<<vars, serialVars>> PROVE SerialIInv'
  OBVIOUS
<1>1. CASE Others /\ UNCHANGED serialVars
  BY <1>1, OthersKeep
<1>2. CASE ksin
  BY <1>2, KsinKeeps
<1>3. CASE AwaitChar
  BY <1>3, AwaitCharKeeps
<1>4. CASE TakeChar
  BY <1>4, TakeCharKeeps
<1>5. CASE \E c \in Chars : do_rx(c)
  BY <1>5, DoRxKeeps
<1>6. CASE UNCHANGED <<vars, serialVars>>
  <2>1. KInv'
    BY <1>6, NextKeeps DEF SerialIInv
  <2>2. UNCHANGED <<status, inbuf, inhead, intail, inchars, inmutex, pending, where, irq, pc>>
    BY <1>6 DEF vars, serialVars, sttyVars
  <2>3. SerialTypeOK' /\ ReadersAreLive' /\ MutexIsHeld' /\ CharsPromised' /\ CharsInOrder'
    BY <2>2 DEF SerialIInv, SerialTypeOK, ReadersAreLive, MutexIsHeld, Readers,
                CharsPromised, Getting, CharsInOrder
  <2>4. QueuesHoldReaders'
    BY <2>2 DEF SerialIInv, QueuesHoldReaders, Fits, Counts
  <2> QED
    BY <2>1, <2>3, <2>4 DEF SerialIInv
<1> QED
  BY <1>1, <1>2, <1>3, <1>4, <1>5, <1>6 DEF SerialNext, Others, kcinth

(* The invariant holds in every state that the readers, the typist and the   *)
(* other processes reach together.                                           *)
THEOREM SerialInvariance == SerialSpec => []SerialIInv
BY SerialInitKeeps, SerialNextKeeps, PTL DEF SerialSpec

(* The two queues as one list.                                               *)
LEMMA TwoQueues ==
  ASSUME NEW s \in Seq(Procs), NEW t \in Seq(Procs)
  PROVE  /\ Range(s \o t) = Range(s) \cup Range(t)
         /\ IsInjective(s) /\ IsInjective(t) /\ Range(s) \cap Range(t) = {}
               => IsInjective(s \o t)
<1>1. PICK m \in Nat, n \in Nat : m = Len(s) /\ n = Len(t)
  OBVIOUS
<1>2. PICK r : r = s \o t
  OBVIOUS
<1>3. /\ DOMAIN r = 1 .. m + n /\ DOMAIN s = 1 .. m /\ DOMAIN t = 1 .. n
      /\ \A i \in 1 .. m + n : r[i] = IF i <= m THEN s[i] ELSE t[i - m]
  BY <1>1, <1>2
<1>4. Range(r) = Range(s) \cup Range(t)
  <2>1. ASSUME NEW x \in Range(r) PROVE x \in Range(s) \cup Range(t)
    <3>1. PICK i \in 1 .. m + n : r[i] = x
      BY <1>3, <2>1 DEF Range
    <3>2. CASE i <= m
      BY <1>3, <3>1, <3>2 DEF Range
    <3>3. CASE i > m
      <4>1. i - m \in 1 .. n /\ x = t[i - m]
        BY <1>3, <3>1, <3>3
      <4> QED
        BY <1>3, <4>1 DEF Range
    <3> QED
      BY <3>1, <3>2, <3>3
  <2>2. ASSUME NEW i \in 1 .. m PROVE s[i] \in Range(r)
    <3>1. i \in 1 .. m + n /\ r[i] = s[i]
      BY <1>1, <1>3
    <3> QED
      BY <1>3, <3>1 DEF Range
  <2>3. ASSUME NEW i \in 1 .. n PROVE t[i] \in Range(r)
    <3>1. i + m \in 1 .. m + n /\ ~(i + m <= m) /\ (i + m) - m = i
      BY <1>1
    <3>2. r[i + m] = t[i]
      BY <1>3, <3>1
    <3> QED
      BY <1>3, <3>1, <3>2 DEF Range
  <2>4. Range(s) \subseteq Range(r) /\ Range(t) \subseteq Range(r)
    BY <1>3, <2>2, <2>3 DEF Range
  <2> QED
    BY <2>1, <2>4
<1>5. ASSUME IsInjective(s), IsInjective(t), Range(s) \cap Range(t) = {}
      PROVE  IsInjective(r)
  <2>1. ASSUME NEW i \in 1 .. m + n, NEW j \in 1 .. m + n, r[i] = r[j] PROVE i = j
    <3>1. \A k \in 1 .. m : s[k] \in Range(s)
      BY <1>3 DEF Range
    <3>2. \A k \in 1 .. n : t[k] \in Range(t)
      BY <1>3 DEF Range
    <3>3. \A k \in 1 .. m, l \in 1 .. n : s[k] # t[l]
      BY <1>5, <3>1, <3>2
    <3>4. CASE i <= m /\ j <= m
      <4>1. i \in 1 .. m /\ j \in 1 .. m /\ s[i] = s[j]
        BY <1>3, <2>1, <3>4
      <4> QED
        BY <1>3, <1>5, <4>1 DEF IsInjective
    <3>5. CASE i > m /\ j > m
      <4>1. i - m \in 1 .. n /\ j - m \in 1 .. n /\ t[i - m] = t[j - m]
        BY <1>3, <2>1, <3>5
      <4>2. i - m = j - m
        BY <1>3, <1>5, <4>1 DEF IsInjective
      <4> QED
        BY <4>2
    <3>6. CASE i <= m /\ j > m
      <4>1. i \in 1 .. m /\ j - m \in 1 .. n /\ s[i] = t[j - m]
        BY <1>3, <2>1, <3>6
      <4> QED
        BY <3>3, <4>1
    <3>7. CASE i > m /\ j <= m
      <4>1. j \in 1 .. m /\ i - m \in 1 .. n /\ s[j] = t[i - m]
        BY <1>3, <2>1, <3>7
      <4> QED
        BY <3>3, <4>1
    <3> QED
      BY <3>4, <3>5, <3>6, <3>7
  <2> QED
    BY <1>3, <2>1 DEF IsInjective
<1> QED
  BY <1>2, <1>4, <1>5

(* P and V count who waits, V never dequeues from an empty queue, and every  *)
(* process that P has stopped is on one of the two queues, once.             *)
THEOREM NobodyIsLostByPV == SerialSpec => []SemaphoresSound
<1>1. SerialIInv => SemaphoresSound
  <2> SUFFICES ASSUME SerialIInv PROVE SemaphoresSound
    OBVIOUS
  <2>1. /\ Fits(inchars) /\ Fits(inmutex)
        /\ \A p \in Procs : p \in Range(inmutex.queue) => where[p] = "ksin" /\ status[p] = "STOPPED"
        /\ \A p \in Procs : p \in Range(inchars.queue) => where[p] = "sgetc" /\ status[p] = "STOPPED"
        /\ \A p \in Procs : status[p] = "STOPPED" =>
               p \in Range(inmutex.queue) \/ p \in Range(inchars.queue)
    BY DEF SerialIInv, QueuesHoldReaders
  <2>2. /\ inchars.queue \in Seq(Procs) /\ inmutex.queue \in Seq(Procs)
        /\ IsInjective(inchars.queue) /\ IsInjective(inmutex.queue)
        /\ Counts(inchars) /\ Counts(inmutex)
    BY <2>1 DEF Fits
  <2>3. Range(inchars.queue) \subseteq Procs /\ Range(inmutex.queue) \subseteq Procs
    BY <2>2, RangeOfProcs
  <2>4. Range(inchars.queue) \cap Range(inmutex.queue) = {}
    BY <2>1, <2>3
  <2>5. /\ IsInjective(inchars.queue \o inmutex.queue)
        /\ Range(inchars.queue \o inmutex.queue) = Range(inchars.queue) \cup Range(inmutex.queue)
    BY <2>2, <2>4, TwoQueues
  <2>6. Range(inchars.queue) \cup Range(inmutex.queue) = WithStatus("STOPPED")
    BY <2>1, <2>3 DEF WithStatus
  <2> QED
    BY <2>2, <2>5, <2>6 DEF SemaphoresSound
<1> QED
  BY <1>1, SerialInvariance, PTL

(* From its first character to the end of the line one process reads,        *)
(* whoever else calls ksin, blocks, is woken or is interrupted meanwhile.    *)
THEOREM LinesDoNotMix == SerialSpec => []OneReader
<1>1. SerialIInv => OneReader
  <2> SUFFICES ASSUME SerialIInv PROVE OneReader
    OBVIOUS
  <2>1. /\ inmutex.value \in Int /\ inmutex.value <= 1
        /\ inmutex.value = 1 => Readers = {}
        /\ inmutex.value <= 0 => \E r \in Procs : Readers = {r}
    BY DEF SerialIInv, MutexIsHeld, SerialTypeOK
  <2>2. CASE inmutex.value <= 0
    <3>1. PICK r \in Procs : Readers = {r}
      BY <2>1, <2>2
    <3>2. Cardinality({r}) = 1
      BY FS_Singleton
    <3> QED
      BY <2>2, <3>1, <3>2 DEF OneReader
  <2>3. CASE ~(inmutex.value <= 0)
    <3>1. Readers = {}
      BY <2>1, <2>3
    <3>2. Cardinality({}) = 0
      BY FS_EmptySet
    <3> QED
      BY <2>3, <3>1, <3>2 DEF OneReader
  <2> QED
    BY <2>2, <2>3
<1> QED
  BY <1>1, SerialInvariance, PTL

(* What sgetc takes is what was typed, in that order, for any size of the    *)
(* buffer: none twice, and none left out but for the one that do_rx may      *)
(* overwrite.                                                                *)
THEOREM TypedIsRead == SerialSpec => []CharsInOrder
<1>1. SerialIInv => CharsInOrder
  BY DEF SerialIInv
<1> QED
  BY <1>1, SerialInvariance, PTL

(* No reader waits for a character that is there.                            *)
THEOREM NoCharIsForgotten == SerialSpec => []CharsCounted
<1>1. SerialIInv => CharsCounted
  <2> SUFFICES ASSUME SerialIInv PROVE CharsCounted
    OBVIOUS
  <2>1. Cardinality(Getting) = IF Getting = {} THEN 0 ELSE 1
    <3>1. CASE Getting = {}
      BY <3>1, FS_EmptySet
    <3>2. ASSUME NEW p \in Getting PROVE Cardinality(Getting) = 1
      <4>1. Getting = {p}
        BY <3>2, GettingReads
      <4>2. Cardinality({p}) = 1
        BY FS_Singleton
      <4> QED
        BY <4>1, <4>2
    <3> QED
      BY <3>1, <3>2
  <2>2. inchars.value = Len(pending) - Cardinality({p \in Procs : where[p] = "sgetc"})
    BY <2>1 DEF SerialIInv, CharsPromised, Getting
  <2> QED
    BY <2>2 DEF SerialIInv, CharsCounted
<1> QED
  BY <1>1, SerialInvariance, PTL

=============================================================================
