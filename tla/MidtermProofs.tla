--------------------------- MODULE MidtermProofs ---------------------------
(***************************************************************************)
(* Lab 5's kernel, in which segments, descriptors, pipes and the console   *)
(* meet, for any number of processes: what is proved of the pipes of lab 7 *)
(* holds with a console that stops, continues and wakes by hand and with   *)
(* forks that copy a segment; and fork, exec and wait behave as            *)
(* UnixProcess says with calls that sleep in a pipe or kill their caller.  *)
(***************************************************************************)
EXTENDS Midterm, ForkExecProofs, PipeProofs

USE ProcKernelAssumption, TestsRunning, ForkExecAssumption,
    PipeAssumption, PipeKernelAssumption DEF NULL

-----------------------------------------------------------------------------
(* No command or call of the process kernel, those of the console included,  *)
(* disturbs who does not take it.  P0 only makes P1 and gives the machine    *)
(* away.                                                                     *)
LEMMA NextUndisturbed ==
  ASSUME KInv, [Next]_vars
  PROVE  Undisturbed
<1>1. Sane /\ Agree
  BY TwoHalves
<1>2. /\ running \in Procs /\ status[running] = "RUNNING"
      /\ pc \in [Procs -> Places] /\ event \in [Procs -> Int]
      /\ AtPrompt \/ WaitAgain => running # 0
  BY <1>1 DEF Sane, AtPrompt, WaitAgain
<1>3. CASE MainFork
  <2>1. kfork /\ running = 0 /\ pc' = [pc EXCEPT ![0] = "loop"]
    BY <1>3 DEF MainFork
  <2>2. \A p \in Procs : p # running => pc'[p] = pc[p]
    BY <1>2, <2>1
  <2> QED
    BY <2>1, <2>2, KforkUndisturbed
<1>4. CASE MainSwitch
  <2>1. /\ scheduler(status, readyQueue) /\ running = 0
        /\ pc' = [pc EXCEPT ![0] = "tswitch"] /\ event' = event
    BY <1>4 DEF MainSwitch
  <2>2. \A p \in Procs : p # running => pc'[p] = pc[p] /\ event'[p] = event[p]
    BY <1>2, <2>1
  <2> QED
    BY <2>1, <2>2, TswitchUndisturbed
<1>5. CASE DoTswitch
  BY <1>5, TswitchUndisturbed DEF DoTswitch
<1>6. CASE DoKfork
  BY <1>6, KforkUndisturbed DEF DoKfork
<1>7. CASE DoStop
  <2>1. PICK st : st = [status EXCEPT ![running] = "STOPPED"]
    OBVIOUS
  <2>2. scheduler(st, readyQueue) /\ running # 0 /\ UNCHANGED <<pc, event>>
    BY <1>2, <1>7, <2>1 DEF DoStop
  <2>3. /\ st \in [Procs -> Statuses]
        /\ \A p \in Procs : st[p] = IF p = running THEN "STOPPED" ELSE status[p]
    <3>1. status \in [Procs -> Statuses]
      BY <1>1 DEF Agree, Kept
    <3>2. running \in Procs
      BY <1>2
    <3> QED
      BY <2>1, <3>1, <3>2 DEF Statuses
  <2>4. Kept(st, priority, freeList, readyQueue, sleepList)
    BY <1>1, <1>2, <2>3 DEF Agree, Kept
  <2>5. /\ \A p \in Procs : st[p] = "RUNNING" => p = running
        /\ st[0] \in {"RUNNING", "READY"}
    BY <1>1, <2>2, <2>3, ZeroAndOne DEF Sane
  <2> QED
    BY <2>2, <2>3, <2>4, <2>5, SwitchUndisturbed
<1>8. CASE \E pid \in UserPids : DoContinue(pid)
  <2>1. PICK pid \in UserPids : DoContinue(pid)
    BY <1>8
  <2>2. /\ status' = [status EXCEPT ![pid] = "READY"] /\ UNCHANGED <<pc, event>>
        /\ status[pid] = "STOPPED"
    BY <2>1 DEF DoContinue, Continuable
  <2>3. \A p \in Procs : p # pid => status'[p] = status[p]
    BY <1>1, <2>2 DEF Agree, Kept
  <2> QED
    BY <2>2, <2>3 DEF Undisturbed, Awaiting
<1>9. CASE \E ev \in UserEvents : DoSleep(ev)
  <2>1. PICK ev \in UserEvents : DoSleep(ev)
    BY <1>9
  <2>2. PICK st : st = [status EXCEPT ![running] = "SLEEP"]
    OBVIOUS
  <2>3. PICK sl : sl = enqueue(sleepList, running, priority)
    OBVIOUS
  <2>4. /\ scheduler(st, readyQueue) /\ pc' = pc /\ running # 0
        /\ event' = [event EXCEPT ![running] = ev]
    BY <1>2, <2>1, <2>2 DEF DoSleep, ksleep
  <2>5. /\ Kept(st, priority, freeList, readyQueue, sl)
        /\ \A p \in Procs : st[p] = IF p = running THEN "SLEEP" ELSE status[p]
        /\ \A p \in Procs : st[p] = "RUNNING" => p = running
        /\ st[0] \in {"RUNNING", "READY"}
    BY <2>2, <2>3, <2>4, KsleepLists
  <2>6. \A p \in Procs : p # running => event'[p] = event[p]
    BY <1>2, <2>4
  <2> QED
    BY <2>4, <2>5, <2>6, SwitchUndisturbed
<1>10. CASE \E ev \in UserEvents : DoWakeup(ev)
  <2>1. PICK ev \in UserEvents : DoWakeup(ev)
    BY <1>10
  <2>2. PICK l : l = kwakeup(Lists, ev)
    OBVIOUS
  <2>3. status' = l.status /\ UNCHANGED <<pc, event>>
    BY <2>1, <2>2 DEF DoWakeup
  <2>4. Lists.status = status /\ Lists.ready = readyQueue /\ Lists.sleep = sleepList
    BY DEF Lists
  <2>5. Woken(Lists, ev, freeList, l)
    BY <1>1, <2>2, <2>4, WakeupKeeps DEF Agree
  <2>6. \A p \in Procs : l.status[p] = IF status[p] = "SLEEP" /\ event[p] = ev
                                       THEN "READY" ELSE status[p]
    BY <2>4, <2>5 DEF Woken
  <2> QED
    BY <2>3, <2>6 DEF Undisturbed, Awaiting
<1>11. CASE \E pid \in UserPids, pri \in UserPris : DoChpriority(pid, pri)
  BY <1>11 DEF DoChpriority, Undisturbed
<1>12. CASE DoWait \/ WaitAgain
  BY <1>2, <1>12, KwaitUndisturbed DEF DoWait, WaitAgain
<1>13. CASE \E value \in ExitValues : DoExit(value)
  BY <1>2, <1>13, KexitUndisturbed DEF DoExit
<1>14. CASE UNCHANGED vars
  BY <1>14 DEF vars, Undisturbed
<1> QED
  BY <1>3, <1>4, <1>5, <1>6, <1>7, <1>8, <1>9, <1>10, <1>11, <1>12, <1>13, <1>14
     DEF Next, body

-----------------------------------------------------------------------------
(* A process that sleeps in a pipe call has left body for its program: body  *)
(* itself calls no pipe, and kfork begins in PROCs that are in no call.      *)
CallersAreOut == \A p \in Procs : call[p].op # "none" => umode[p]

(* It asked for no more than a program may ask for.                          *)
CallsAreShort == \A p \in Procs : call[p].n \in 0 .. MaxBytes

MidInv == PipeIInv /\ CallersAreOut /\ CallsAreShort /\ P1First /\ MemInv

(* What a system call on a descriptor, or one that is refused, may do to     *)
(* what programs see: its caller gets an answer and runs on, or the machine  *)
(* goes to somebody else.                                                    *)
Sizes == {-1} \cup (0 .. MaxBytes)

FdCall ==
    /\ AtMenu
    /\ UNCHANGED <<freeList, umode>>
    /\ int80h \/ UNCHANGED memVars
    /\ \/ UNCHANGED retval
       \/ UNCHANGED running /\ \E r \in Sizes : Returns(r)

(* The answer of a pipe call is one of these.                                *)
LEMMA AnswersFit ==
  ASSUME NEW r \in 0 .. MaxBytes, Answers(r)
  PROVE  /\ UNCHANGED umode
         /\ UNCHANGED retval \/ (UNCHANGED running /\ \E n \in Sizes : Returns(n))
BY DEF Answers, Ends, Sizes

(* Calls that are refused answer at once.                                    *)
LEMMA RefusalsFit ==
  ASSUME AtMenu, Fails \/ (Informs /\ int80h)
  PROVE  FdCall
<1>1. UNCHANGED <<freeList, running, umode>> /\ int80h
  BY DEF Fails, Informs, vars
<1>2. \E r \in Sizes : Returns(r)
  <2>1. 0 \in Sizes /\ -1 \in Sizes
    BY DEF Sizes
  <2> QED
    BY <2>1 DEF Fails, Informs
<1> QED
  BY <1>1, <1>2 DEF FdCall

(* The loops of pipe.c leave the free list and the families alone.           *)
LEMMA TurnsMakeNobody ==
  ASSUME NEW k, NEW n, ReadTurn(k, n) \/ WriteTurn(k, n)
  PROVE  UNCHANGED freeList
BY DEF ReadTurn, WriteTurn, familyVars, kexit

(* A pipe never holds less than nothing, so that what a read takes is a size.*)
LEMMA TakenFits ==
  ASSUME PipeIInv, NEW k \in Pipes, NEW n \in Nat, n <= MaxBytes
  PROVE  Taken(k, n) \in 0 .. MaxBytes
<1>1. pipes[k].data \in Nat
  BY DEF PipeIInv, Shapes, Rings
<1> QED
  BY <1>1 DEF Taken, Less
(* The steps of this kernel that belong to the kernel of lab 4, of a process *)
(* that is in no pipe call, and those that belong to the pipes of lab 7.     *)
Ordinary ==
    /\ MemStep /\ [Next]_vars /\ UNCHANGED pipeVars
    /\ call[running].op = "none"

PipeMove == [PipeNext]_<<vars, pipeVars>>

Forking == AtMenu /\ fork /\ forkWithFds /\ InUmode

Idle == UNCHANGED <<memAll, pipeVars>>

Sorted4 == Ordinary \/ Forking \/ (FdCall /\ PipeMove) \/ Idle

(* A system call of a program that is in no pipe call.                       *)
LEMMA MidCallSorts ==
  ASSUME MidInv, AtMenu, call[running] = NoCall, NEW a, MidCall(a)
  PROVE  Sorted4
<1>1. InUmode /\ AtPrompt /\ call[running].op = "none"
  BY DEF InUmode, AtMenu, NoCall
<1>2. MaxBytes \in Nat /\ 0 \in 0 .. MaxBytes
  OBVIOUS
<1>3. CASE Earlier(a)
  <2>1. kcinth(a) /\ UNCHANGED pipeVars
    BY <1>3 DEF Earlier
  <2>2. [Next]_vars
    BY <2>1, CallIsNext
  <2>3. MemStep
    BY <2>1 DEF MemStep
  <2> QED
    BY <1>1, <2>1, <2>2, <2>3 DEF Sorted4, Ordinary
<1>4. CASE (Fails \/ (Informs /\ int80h)) /\ UNCHANGED pipeVars
  <2>1. FdCall
    BY <1>1, <1>4, RefusalsFit
  <2>2. PipeMove
    BY <1>4 DEF PipeMove, Fails, Informs
  <2> QED
    BY <2>1, <2>2 DEF Sorted4
<1>5. CASE forkWithFds /\ fork
  BY <1>1, <1>5 DEF Sorted4, Forking
<1>6. CASE MidPipe
  <2>1. kpipe /\ int80h /\ UNCHANGED freeList
    BY <1>6 DEF MidPipe, kpipe, vars
  <2>2. FdCall
    BY <1>1, <1>2, <1>6, <2>1, AnswersFit DEF MidPipe, FdCall
  <2>3. PipeMove
    BY <2>1 DEF PipeMove, PipeNext, kcinthWithFds
  <2> QED
    BY <2>2, <2>3 DEF Sorted4
<1>7. CASE \E i \in FDs : kclosepipe(i) /\ Answers(0) /\ int80h
  <2>1. PICK i \in FDs : kclosepipe(i) /\ Answers(0) /\ int80h
    BY <1>7
  <2>2. UNCHANGED freeList
    BY <2>1 DEF kclosepipe, familyVars
  <2>3. FdCall
    BY <1>1, <1>2, <2>1, <2>2, AnswersFit DEF FdCall
  <2>4. PipeMove
    BY <2>1 DEF PipeMove, PipeNext, kcinthWithFds
  <2> QED
    BY <2>3, <2>4 DEF Sorted4
<1>8. CASE \E i \in FDs, n \in 1 .. MaxBytes :
               kreadpipe(i, n) /\ Answers(Taken(oft[fd[running][i]].pipe, n)) /\ int80h
  <2>1. PICK i \in FDs, n \in 1 .. MaxBytes :
               kreadpipe(i, n) /\ Answers(Taken(oft[fd[running][i]].pipe, n)) /\ int80h
    BY <1>8
  <2>2. PICK k : k = oft[fd[running][i]].pipe
    OBVIOUS
  <2>3. fd[running][i] # NULL /\ ReadTurn(k, n)
    BY <2>1, <2>2 DEF kreadpipe
  <2>4. k \in Pipes
    BY <2>2, <2>3, DescriptorHolds DEF MidInv
  <2>5. n \in Nat /\ n <= MaxBytes
    OBVIOUS
  <2>6. Taken(k, n) \in 0 .. MaxBytes
    BY <2>4, <2>5, TakenFits DEF MidInv
  <2>7. UNCHANGED freeList
    BY <2>3, TurnsMakeNobody
  <2>8. FdCall
    BY <1>1, <2>1, <2>2, <2>6, <2>7, AnswersFit DEF FdCall
  <2>9. PipeMove
    BY <2>1 DEF PipeMove, PipeNext, kcinthWithFds
  <2> QED
    BY <2>8, <2>9 DEF Sorted4
<1>9. CASE \E i \in FDs, s \in BoundedSeq(Bytes, MaxBytes) \ {<< >>} :
               kwritepipe(i, s) /\ Answers(Len(s)) /\ int80h
  <2>1. PICK i \in FDs, s \in BoundedSeq(Bytes, MaxBytes) \ {<< >>} :
               kwritepipe(i, s) /\ Answers(Len(s)) /\ int80h
    BY <1>9
  <2>2. PICK k : k = oft[fd[running][i]].pipe
    OBVIOUS
  <2>3. WriteTurn(k, s)
    BY <2>1, <2>2 DEF kwritepipe
  <2>4. Len(s) \in 0 .. MaxBytes
    <3>1. PICK m \in 0 .. MaxBytes : s \in [1 .. m -> Bytes]
      BY DEF BoundedSeq, SeqOf
    <3>2. s \in Seq(Bytes) /\ Len(s) = m
      BY <3>1
    <3> QED
      BY <3>2
  <2>5. UNCHANGED freeList
    BY <2>3, TurnsMakeNobody
  <2>6. FdCall
    BY <1>1, <2>1, <2>4, <2>5, AnswersFit DEF FdCall
  <2>7. PipeMove
    BY <2>1 DEF PipeMove, PipeNext, kcinthWithFds
  <2> QED
    BY <2>6, <2>7 DEF Sorted4
<1>10. CASE a = 3 /\ MidFork
  BY <1>4, <1>5, <1>10 DEF MidFork
<1>11. CASE MidClose
  BY <1>4, <1>7, <1>11 DEF MidClose
<1>12. CASE MidRead
  BY <1>4, <1>8, <1>12 DEF MidRead, Refuses
<1>13. CASE MidWrite
  BY <1>4, <1>9, <1>13 DEF MidWrite, Refuses
<1> QED
  BY <1>3, <1>4, <1>6, <1>10, <1>11, <1>12, <1>13 DEF MidCall

(* The turn that a process takes when it is woken in a pipe call.            *)
LEMMA MidTurnSorts ==
  ASSUME MidInv, MidReadAgain \/ MidWriteAgain
  PROVE  FdCall /\ PipeMove
<1>1. /\ running \in Procs /\ Shapes /\ Tables /\ PointerStaysGood
      /\ CallersAreOut /\ CallsAreShort
  BY RunnerIsThere DEF MidInv, PipeIInv
<1>2. PICK c : c = call[running]
  OBVIOUS
<1>3. CASE MidReadAgain
  <2>1. /\ ReadAgain /\ AtPrompt /\ c.op = "read" /\ ReadTurn(c.pipe, c.n)
        /\ Answers(Taken(c.pipe, c.n)) /\ UNCHANGED memVars
    BY <1>2, <1>3 DEF MidReadAgain, ReadAgain
  <2>2. c.pipe \in Pipes /\ c.n \in Nat /\ c.n <= MaxBytes /\ umode[running]
    BY <1>1, <1>2, <2>1, CallerHolds DEF CallersAreOut, CallsAreShort
  <2>3. Taken(c.pipe, c.n) \in 0 .. MaxBytes
    BY <2>2, TakenFits DEF MidInv
  <2>4. FdCall
    BY <2>1, <2>2, <2>3, AnswersFit, TurnsMakeNobody DEF FdCall, AtMenu
  <2> QED
    BY <2>1, <2>4 DEF PipeMove, PipeNext
<1>4. CASE MidWriteAgain
  <2>1. PICK n \in Len(c.text) .. MaxBytes :
               /\ WriteAgain /\ AtPrompt /\ c.op = "write" /\ WriteTurn(c.pipe, c.text)
               /\ Answers(n) /\ UNCHANGED memVars
    BY <1>2, <1>4 DEF MidWriteAgain, WriteAgain
  <2>2. umode[running] /\ c.text \in Seq(Bytes)
    BY <1>1, <1>2, <2>1 DEF CallersAreOut, Shapes, CallRecords
  <2>3. n \in 0 .. MaxBytes
    BY <2>2
  <2>4. FdCall
    BY <2>1, <2>2, <2>3, AnswersFit, TurnsMakeNobody DEF FdCall, AtMenu
  <2> QED
    BY <2>1, <2>4 DEF PipeMove, PipeNext
<1> QED
  BY <1>3, <1>4

(* Every step of this kernel belongs to one of the two.                      *)
LEMMA MidStepSorts ==
  ASSUME MidInv, [MidNext]_<<memAll, pipeVars>>
  PROVE  Sorted4
<1>1. /\ running \in Procs /\ call[0].op = "none" /\ CallersAreOut
      /\ pc[running] # "body" => call[running].op = "none"
  BY RunnerIsThere DEF MidInv
<1>2. CASE MidBoot
  <2>1. running = 0 /\ Next /\ UNCHANGED pipeVars
    BY <1>2 DEF MidBoot, Boot, MainFork, MainSwitch, Next
  <2>2. MemStep
    BY <1>2 DEF MidBoot, MemStep
  <2> QED
    BY <1>1, <2>1, <2>2 DEF Sorted4, Ordinary
<1>3. CASE Console
  <2>1. Body /\ UNCHANGED pipeVars
    BY <1>3 DEF Console
  <2>2. AtBody
    BY <2>1 DEF Body, do_kfork, Commands, do_tswitch, do_stop, do_continue, do_sleep,
         do_wakeup, do_exit, do_wait, do_chpriority, goUmode
  <2>3. call[running].op = "none"
    BY <1>1, <2>2 DEF AtBody, CallersAreOut
  <2>4. MemStep /\ [Next]_vars
    BY <2>1, BodyIsNext DEF MemStep
  <2> QED
    BY <2>1, <2>3, <2>4 DEF Sorted4, Ordinary
<1>4. CASE MidMenu
  <2>1. PICK a : AtMenu /\ call[running] = NoCall /\ MidCall(a)
    BY <1>4 DEF MidMenu, MidWrapper
  <2> QED
    BY <2>1, MidCallSorts
<1>5. CASE MidReadAgain \/ MidWriteAgain
  BY <1>5, MidTurnSorts DEF Sorted4
<1>6. CASE KwaitGoesOn /\ UNCHANGED <<memVars, pipeVars>>
  <2>1. WaitAgain /\ UNCHANGED pipeVars /\ UNCHANGED memVars
    BY <1>6 DEF KwaitGoesOn
  <2>2. call[running].op = "none"
    BY <1>1, <2>1 DEF WaitAgain
  <2>3. MemStep /\ [Next]_vars
    BY <1>6, <2>1 DEF MemStep, Next
  <2> QED
    BY <2>1, <2>2, <2>3 DEF Sorted4, Ordinary
<1> QED
  BY <1>2, <1>3, <1>4, <1>5, <1>6 DEF MidNext, Sorted4, Idle

-----------------------------------------------------------------------------
(* The pipes, whoever takes the step.                                        *)
LEMMA SortedCarries ==
  ASSUME MidInv, Sorted4
  PROVE  PipeIInv' /\ Carries
<1>1. PipeIInv /\ KInv
  BY DEF MidInv, PipeIInv
<1>2. CASE Ordinary
  <2>1. KInv' /\ Undisturbed
    BY <1>1, <1>2, NextKeeps, NextUndisturbed DEF Ordinary
  <2> QED
    BY <1>1, <1>2, <2>1, QuietKeeps DEF Ordinary
<1>3. CASE Forking
  BY <1>1, <1>3, ForkWithFdsKeeps DEF Forking
<1>4. CASE PipeMove
  BY <1>1, <1>4, PipeStep DEF PipeMove
<1>5. CASE Idle
  <2>1. UNCHANGED <<vars, pipeVars>>
    BY <1>5 DEF Idle, memAll
  <2> QED
    BY <1>1, <2>1, PipeStutters
<1> QED
  BY <1>2, <1>3, <1>4, <1>5 DEF Sorted4

(* What a step does to the calls: it changes that of the running process at  *)
(* most, and that stays short.                                               *)
LEMMA CallsChange ==
  ASSUME PipeIInv, CallsAreShort, PipeMove
  PROVE  /\ CallsAreShort'
         /\ \A p \in Procs : p # running => call'[p] = call[p]
<1> DEFINE Sets(c) == c.n \in 0 .. MaxBytes /\ call' = [call EXCEPT ![running] = c]
<1>1. /\ call \in [Procs -> CallRecords] /\ running \in Procs
      /\ NoCall.n \in 0 .. MaxBytes
      /\ \A p \in Procs : call[p].n \in 0 .. MaxBytes
  BY RunnerIsThere DEF Shapes, NoCall, CallsAreShort
<1>2. (\E c : Sets(c)) \/ call' = call
  <2>1. ASSUME NEW k, NEW n \in 0 .. MaxBytes, ReadTurn(k, n) PROVE \E c : Sets(c)
    <3>1. call' = [call EXCEPT ![running] = NoCall] \/ call' = [call EXCEPT ![running] = Reading(k, n)]
      BY <2>1 DEF ReadTurn, Return, SleepOn
    <3>2. Reading(k, n).n = n
      BY DEF Reading
    <3>3. Sets(NoCall) \/ Sets(Reading(k, n))
      BY <1>1, <3>1, <3>2
    <3> QED
      BY <3>3
  <2>2. ASSUME NEW k, NEW s, WriteTurn(k, s) PROVE \E c : Sets(c)
    <3>1. PICK m : \/ call' = [call EXCEPT ![running] = NoCall]
                   \/ call' = [call EXCEPT ![running] = Writing(k, m)]
      BY <2>2 DEF WriteTurn, Return, SleepOn
    <3>2. Writing(k, m).n \in 0 .. MaxBytes
      BY DEF Writing
    <3>3. Sets(NoCall) \/ Sets(Writing(k, m))
      BY <1>1, <3>1, <3>2
    <3> QED
      BY <3>3
  <2>3. CASE \E i \in FDs : kclosepipe(i)
    <3>1. Sets(NoCall)
      BY <1>1, <2>3 DEF kclosepipe, Return
    <3> QED
      BY <3>1
  <2>4. CASE \/ \E i \in FDs, n \in 1 .. MaxBytes : kreadpipe(i, n)
             \/ \E i \in FDs, s \in BoundedSeq(Bytes, MaxBytes) \ {<< >>} : kwritepipe(i, s)
             \/ ReadAgain
             \/ WriteAgain
    <3>1. call[running].n \in 0 .. MaxBytes /\ \A n \in 1 .. MaxBytes : n \in 0 .. MaxBytes
      BY <1>1
    <3>2. \/ \E k, n : n \in 0 .. MaxBytes /\ ReadTurn(k, n)
          \/ \E k, s : WriteTurn(k, s)
      BY <2>4, <3>1 DEF kreadpipe, kwritepipe, ReadAgain, WriteAgain
    <3> QED
      BY <2>1, <2>2, <3>2
  <2>5. CASE UNCHANGED pipeVars
    BY <2>5 DEF pipeVars
  <2>6. CASE forkWithFds \/ kpipe
    BY <2>6 DEF forkWithFds, kpipe
  <2> HIDE DEF Sets
  <2> QED
    BY <2>3, <2>4, <2>5, <2>6 DEF PipeMove, PipeNext, kcinthWithFds, kkexitWithFds
<1>3. \A p \in Procs : p # running => call'[p] = call[p]
  BY <1>1, <1>2
<1>4. call'[running].n \in 0 .. MaxBytes
  BY <1>1, <1>2
<1>5. \A p \in Procs : call'[p].n \in 0 .. MaxBytes
  BY <1>1, <1>3, <1>4
<1> QED
  BY <1>3, <1>5 DEF CallsAreShort

-----------------------------------------------------------------------------
(* What a call on a descriptor does to the segments: nothing but push a      *)
(* frame, and nobody comes or goes.                                          *)
LEMMA FdCallKeeps ==
  ASSUME KInv, MemInv, KInv', FdCall
  PROVE  MemInv' /\ Users' = Users /\ ImagesStay(Users) /\ running \in Users
<1>1. running \in Users /\ Users' = Users
  BY CallerIsUser, SameUsers DEF FdCall
<1>2. FrameInv' /\ ImagesStay(Users)
  BY <1>1, Int80hKeeps, AloneKeeps DEF FdCall, MemInv, ImagesStay
<1>3. retval' \in [Procs -> Int]
  <2>1. CASE UNCHANGED retval
    BY <2>1 DEF MemInv, SysTyped
  <2>2. CASE \E r \in Sizes : Returns(r)
    <3>1. PICK r \in Sizes : retval' = [retval EXCEPT ![running] = r]
      BY <2>2 DEF Returns
    <3>2. r \in Int
      BY DEF Sizes
    <3> QED
      BY <3>1, <3>2, ResultTyped DEF MemInv
  <2> QED
    BY <2>1, <2>2 DEF FdCall
<1>4. umode' \in [Procs -> BOOLEAN]
  BY DEF FdCall, MemInv, SysTyped
<1> QED
  BY <1>1, <1>2, <1>3, <1>4 DEF MemInv, SysTyped

(* The fork that shares descriptors is lab 4's, for the segments.            *)
LEMMA ForkingIsMem == Forking => MemStep
<1> SUFFICES ASSUME Forking PROVE MemStep
  OBVIOUS
<1>1. kcinth(3)
  BY DEF Forking, kcinth
<1> QED
  BY <1>1 DEF Forking, MemStep

(* The segments see a step of lab 4 or a call on a descriptor.               *)
LEMMA SortedForMem == Sorted4 => MemStep \/ FdCall
BY ForkingIsMem DEF Sorted4, Ordinary, Idle, MemStep

(* The segments, frames and results, whoever takes the step.                 *)
LEMMA SortedKeepsMem ==
  ASSUME MidInv, Sorted4, KInv'
  PROVE  MemInv'
<1>1. KInv /\ P1First /\ MemInv
  BY DEF MidInv, PipeIInv
<1> QED
  BY <1>1, SortedForMem, MemStepKeeps, FdCallKeeps

(* A process is sent back to body only when its PROC is taken from the free  *)
(* list.                                                                     *)
LEMMA OutStaysOut ==
  ASSUME KInv, MemInv, P1First, MemStep, NEW p \in Procs, umode[p], status[p] # "FREE"
  PROVE  umode'[p]
<1>1. umode \in [Procs -> BOOLEAN]
  BY DEF MemInv, SysTyped
<1>2. ASSUME NEW c, status[c] = "FREE", InBody(c) PROVE umode'[p]
  BY <1>1, <1>2 DEF InBody
<1>3. ASSUME kfork, InBody(Head(freeList)) PROVE umode'[p]
  <2>1. Head(freeList) \in Procs \ {0} /\ Head(freeList) \notin Users
    BY <1>3, KforkMakesOne
  <2>2. status[Head(freeList)] = "FREE"
    BY <2>1 DEF Users
  <2> QED
    BY <1>2, <1>3, <2>2
<1>4. CASE MainFork /\ Forked(1)
  <2>1. kfork /\ Head(freeList) = 1
    BY <1>4 DEF MainFork, P1First
  <2> QED
    BY <1>3, <1>4, <2>1 DEF Forked
<1>5. CASE DoKfork /\ Forked(Head(freeList))
  BY <1>3, <1>5 DEF DoKfork, Forked
<1>6. CASE fork
  BY <1>3, <1>6 DEF fork
<1>7. CASE UNCHANGED umode
  BY <1>7
<1>8. CASE goUmode
  BY <1>1, <1>8 DEF goUmode
<1>9. Boot => (MainFork /\ Forked(1)) \/ UNCHANGED umode
  BY DEF Boot, sysVars
<1>10. Body => (DoKfork /\ Forked(Head(freeList))) \/ goUmode \/ UNCHANGED umode
  BY DEF Body, do_kfork, Commands, do_tswitch, do_stop, do_continue, do_sleep, do_wakeup,
         do_exit, do_wait, do_chpriority, sysVars
<1>11. ASSUME NEW a, kcinth(a) PROVE fork \/ UNCHANGED umode
  BY <1>11 DEF kcinth, kgetpid, Informs, Fails, ktswitch, kkwait, kkexit, kexec, khop, sysVars
<1>12. KwaitGoesOn \/ UNCHANGED memAll => UNCHANGED umode
  BY DEF KwaitGoesOn, memAll, sysVars
<1> QED
  BY <1>4, <1>5, <1>6, <1>7, <1>8, <1>9, <1>10, <1>11, <1>12 DEF MemStep

(* Callers are out of body after every step, and asked for little.           *)
LEMMA SortedKeepsCalls ==
  ASSUME MidInv, Sorted4
  PROVE  CallersAreOut' /\ CallsAreShort'
<1>1. KInv /\ P1First /\ MemInv /\ CallersAreOut /\ CallsAreShort /\ PipeIInv
  BY DEF MidInv, PipeIInv
<1>2. \A p \in Procs : call[p].op # "none" => umode[p] /\ status[p] # "FREE"
  BY <1>1 DEF CallersAreOut, PipeIInv, CallersWait, WaitsWell, Awaiting
<1>3. CASE MemStep /\ UNCHANGED call
  BY <1>1, <1>2, <1>3, OutStaysOut DEF CallersAreOut, CallsAreShort
<1>4. CASE FdCall /\ PipeMove
  <2>1. CallsAreShort' /\ \A p \in Procs : p # running => call'[p] = call[p]
    BY <1>1, <1>4, CallsChange
  <2>2. umode' = umode /\ umode[running]
    BY <1>4 DEF FdCall, AtMenu
  <2> QED
    BY <1>1, <2>1, <2>2 DEF CallersAreOut
<1>5. Ordinary => MemStep /\ UNCHANGED call
  BY DEF Ordinary, pipeVars
<1>6. Forking => MemStep /\ UNCHANGED call
  BY ForkingIsMem DEF Forking, forkWithFds
<1>7. Idle => MemStep /\ UNCHANGED call
  BY DEF Idle, MemStep, pipeVars
<1> QED
  BY <1>3, <1>4, <1>5, <1>6, <1>7 DEF Sorted4

(* A pipe call leaves P0 where it is.                                        *)
LEMMA PipeMoveLeavesMain ==
  ASSUME KInv, PipeMove, AtPrompt
  PROVE  pc'[0] = pc[0] /\ running # 0
<1>1. running # 0 /\ pc[running] = "body" /\ pc \in [Procs -> Places]
  BY TwoHalves DEF AtPrompt, Sane
<1>2. ASSUME NEW k, NEW n, ReadTurn(k, n) \/ WriteTurn(k, n) PROVE UNCHANGED pc
  BY <1>2 DEF ReadTurn, WriteTurn, familyVars, kexit
<1>3. CASE UNCHANGED pc
  BY <1>1, <1>3
<1>4. CASE DoWait
  <2>1. \E place \in {"body", "kwait"} : pc' = [pc EXCEPT ![running] = place]
    BY <1>4 DEF DoWait, LayToRest, SleepOnSelf
  <2> QED
    BY <1>1, <2>1, ZeroAndOne
<1>5. kcinthWithFds => DoWait \/ UNCHANGED pc
  <2>1. (\E i \in FDs, n \in 1 .. MaxBytes : kreadpipe(i, n)) => UNCHANGED pc
    BY <1>2 DEF kreadpipe
  <2>2. (\E i \in FDs, s \in BoundedSeq(Bytes, MaxBytes) \ {<< >>} : kwritepipe(i, s))
          => UNCHANGED pc
    BY <1>2 DEF kwritepipe
  <2>3. ASSUME NEW i, kclosepipe(i) PROVE UNCHANGED pc
    <3>1. UNCHANGED familyVars
      BY <2>3 DEF kclosepipe
    <3> QED
      BY <3>1 DEF familyVars
  <2>4. (\E value \in ExitValues : kkexitWithFds(value)) => UNCHANGED pc
    BY DEF kkexitWithFds, kexit
  <2>5. DoTswitch \/ forkWithFds \/ kpipe => UNCHANGED pc
    BY DEF DoTswitch, forkWithFds, kpipe, vars
  <2> QED
    BY <2>1, <2>2, <2>3, <2>4, <2>5 DEF kcinthWithFds
<1>6. ReadAgain \/ WriteAgain => UNCHANGED pc
  BY <1>2 DEF ReadAgain, WriteAgain
<1>7. ~MainFork /\ ~MainSwitch /\ ~WaitAgain
  BY <1>1 DEF MainFork, MainSwitch, WaitAgain
<1>8. UNCHANGED <<vars, pipeVars>> => UNCHANGED pc
  BY DEF vars
<1> QED
  BY <1>1, <1>3, <1>4, <1>5, <1>6, <1>7, <1>8 DEF PipeMove, PipeNext

(* Until main has made P1 there is nobody but P0.                            *)
LEMMA SortedKeepsP1First ==
  ASSUME MidInv, Sorted4
  PROVE  P1First'
<1>1. KInv /\ P1First
  BY DEF MidInv, PipeIInv
<1>2. Sane
  BY <1>1, TwoHalves
<1>3. CASE Kinds
  <2>1. running \in Procs /\ pc \in [Procs -> Places] /\ 0 \in Procs
    BY <1>2, ZeroAndOne DEF Sane
  <2>2. CASE \E c \in Procs : Forks(c)
    BY <1>1, <2>1, <2>2 DEF Forks, P1First
  <2>3. CASE \E value \in ExitValues : Dies(value)
    BY <1>1, <2>1, <2>3 DEF Dies, P1First
  <2>4. CASE \E c \in Procs : Buries(c)
    BY <1>1, <2>1, <2>4 DEF Buries, P1First
  <2>5. CASE Stays
    BY <1>1, <2>1, <2>5 DEF Stays, P1First
  <2> QED
    BY <1>3, <2>2, <2>3, <2>4, <2>5 DEF Kinds
<1>4. CASE pc'[0] = pc[0] /\ running # 0
  BY <1>1, <1>4 DEF P1First
<1>5. Ordinary \/ Idle => Kinds
  BY <1>1, NextKinds DEF Ordinary, Idle, memAll
<1>6. Forking => pc'[0] = pc[0] /\ running # 0
  BY <1>2 DEF Forking, forkWithFds, AtMenu, AtPrompt, Sane
<1>7. FdCall /\ PipeMove => pc'[0] = pc[0] /\ running # 0
  BY <1>1, PipeMoveLeavesMain DEF FdCall, AtMenu
<1> QED
  BY <1>3, <1>4, <1>5, <1>6, <1>7 DEF Sorted4

(* Every step keeps what the proofs need, and carries the bytes of the pipes *)
(* as PipeChannel says.                                                      *)
LEMMA MidStep ==
  (MidInv /\ [MidNext]_<<memAll, pipeVars>>) => MidInv' /\ Carries /\ Sorted4
<1> SUFFICES ASSUME MidInv, [MidNext]_<<memAll, pipeVars>>
             PROVE  MidInv' /\ Carries /\ Sorted4
  OBVIOUS
<1>1. Sorted4
  BY MidStepSorts
<1>2. PipeIInv' /\ Carries
  BY <1>1, SortedCarries
<1>3. KInv'
  BY <1>2 DEF PipeIInv
<1>4. MemInv' /\ CallersAreOut' /\ CallsAreShort' /\ P1First'
  BY <1>1, <1>3, SortedKeepsMem, SortedKeepsCalls, SortedKeepsP1First
<1> QED
  BY <1>1, <1>2, <1>4 DEF MidInv

(* It holds when init has returned and no process is made yet.               *)
LEMMA MidStart == MidInit => MidInv /\ Channel!ChannelInit
<1> SUFFICES ASSUME MidInit PROVE MidInv /\ Channel!ChannelInit
  OBVIOUS
<1>1. PipeIInv /\ Channel!ChannelInit
  BY PipeStart DEF MidInit
<1>2. \A p \in Procs : call[p] = NoCall
  BY DEF MidInit, PipeInit
<1>3. CallersAreOut /\ CallsAreShort
  BY <1>2 DEF CallersAreOut, CallsAreShort, NoCall
<1>4. P1First
  BY ZeroAndOne DEF MidInit, PipeInit, P1First
<1>5. Users = {}
  BY DEF MidInit, PipeInit, Users
<1>6. MemInv
  <2>1. \A s \in Segments : Loaded(s, "none", NoLine, Frame) \in Images
    BY SegmentsAreInts DEF Loaded, Images, Frame
  <2>2. mem \in [Segments -> Images]
    BY <2>1 DEF MidInit, MemStart
  <2> QED
    BY <1>5, <2>2 DEF MidInit, MemStart, SysStart, MemInv, FrameInv, SysTyped
<1> QED
  BY <1>1, <1>3, <1>4, <1>6 DEF MidInv

(* What this kernel keeps.                                                   *)
THEOREM MidInvariance == MidSpec => []MidInv
BY MidStart, MidStep, PTL DEF MidSpec

(* Nobody sleeps for data or room that is there, although the console may    *)
(* stop a sleeper's neighbours, wake it by hand or change its priority: each *)
(* transfer wakes everybody for whom it makes a difference.                  *)
THEOREM MidSleepersAreWoken == MidSpec => []NoMissedWakeup
<1>1. MidInv => NoMissedWakeup
  BY NobodyMissesIt DEF MidInv
<1> QED
  BY <1>1, MidInvariance, PTL

(* The pipes are sound here too: the circular buffers, the counters of their *)
(* users, the pointers that sleeping calls keep.                             *)
THEOREM MidPipesAreSound == MidSpec => [](RingsSound /\ CountsCover /\ PointerStaysGood)
<1>1. MidInv => RingsSound /\ CountsCover /\ PointerStaysGood
  BY InvariantCounts DEF MidInv, PipeIInv, HeldSound, RingsSound
<1> QED
  BY <1>1, MidInvariance, PTL

(* What is written to a pipe is read in order, once, whatever the console    *)
(* does in between.                                                          *)
THEOREM MidPipesCarryBytes == MidSpec => CarriesBytes
BY MidStart, MidStep, MidInvariance, PTL
   DEF MidSpec, CarriesBytes, Channel!ChannelSpec, Carries

(* Whoever goes to user mode, from body, from a fork, after a call that slept*)
(* in a pipe or after a burial, finds its frame in its own segment.          *)
THEOREM MidFramesStayOwn == MidSpec => []FramesAreOwn
<1>1. MidInv => FramesAreOwn
  BY MemIsFramed DEF MidInv, PipeIInv
<1> QED
  BY <1>1, MidInvariance, PTL

(* A call on a descriptor pushes its frame where every call does.            *)
LEMMA SortedKeepsStacks == (MidInv /\ MidInv' /\ Stacks /\ Sorted4) => Stacks'
<1> SUFFICES ASSUME MidInv, MidInv', Stacks, Sorted4 PROVE Stacks'
  OBVIOUS
<1>1. KInv /\ P1First /\ MemInv /\ FrameInv /\ KInv'
  BY DEF MidInv, PipeIInv, MemInv
<1>2. CASE MemStep
  BY <1>1, <1>2, MemStepKeepsStacks
<1>3. CASE FdCall
  <2>1. Users' = Users /\ running \in Users
    BY <1>1, <1>3, FdCallKeeps
  <2>2. CASE int80h
    BY <1>1, <2>1, <2>2, Int80hKeeps, PushKeepsStacks
  <2>3. CASE UNCHANGED memVars
    BY <2>1, <2>3, AloneKeepsStacks
  <2> QED
    BY <1>3, <2>2, <2>3 DEF FdCall
<1> QED
  BY <1>2, <1>3, SortedForMem

(* How far the stacks of 5-midterm with its sixteen PROCs go: no address of  *)
(* a stack wraps round, but kfork's stack of P12 to P15 lies behind the      *)
(* 16 * SEGSIZE bytes of its segment, which is in the next one, and stays    *)
(* there, also in a child that inherits it; nothing else but an exec in the  *)
(* segment of P13 to P15, or one as high that was hopped to, puts one there. *)
THEOREM MidStacksOfLab5 == MidSpec => [](Lab5 => \A p \in Users : Lab5Reach(p))
<1>1. MidInit => Stacks
  <2> SUFFICES ASSUME MidInit PROVE Stacks
    OBVIOUS
  <2>1. Users = {}
    BY DEF MidInit, PipeInit, Users
  <2> QED
    BY <2>1 DEF Stacks
<1> QED
  BY <1>1, StacksOfLab5, MidInvariance, MidStep, SortedKeepsStacks, PTL DEF MidSpec

-----------------------------------------------------------------------------
(* What Unix allows, UnixWithFds allows too: it has more answers.            *)
LEMMA Wider ==
  /\ Unix!UnixNext => UnixWithFds!UnixNext
  /\ Unix!UnixInit => UnixWithFds!UnixInit
  /\ Unix!unixVars = UnixWithFds!unixVars
<1>1. Unix!UnixNext => UnixWithFds!UnixNext
  BY DEF Unix!UnixNext, UnixWithFds!UnixNext, Unix!Yield, UnixWithFds!Yield, Unix!Spawn,
     UnixWithFds!Spawn, Unix!Fork, UnixWithFds!Fork, Unix!Gone, UnixWithFds!Gone, Unix!Exec,
     UnixWithFds!Exec, Unix!Answer, UnixWithFds!Answer, Unix!Free, UnixWithFds!Free
<1>2. Unix!UnixInit => UnixWithFds!UnixInit
  BY DEF Unix!UnixInit, UnixWithFds!UnixInit
<1>3. Unix!unixVars = UnixWithFds!unixVars
  BY DEF Unix!unixVars, UnixWithFds!unixVars
<1> QED
  BY <1>1, <1>2, <1>3

(* A call on a descriptor answers its caller or gives the machine away.      *)
LEMMA FdCallIsUnix ==
  ASSUME KInv, MemInv, KInv', Seen, Seen', FdCall
  PROVE  UnixWithFds!UnixNext
<1>1. Users' = Users /\ ImagesStay(Users) /\ running \in Users
  BY FdCallKeeps
<1>2. CASE UNCHANGED retval
  <2>1. Sane'
    BY TwoHalves, PTL
  <2>2. running' \in Procs
    BY <2>1 DEF Sane
  <2>3. Unix!Yield
    BY <1>1, <1>2, <2>2, YieldStep
  <2> QED
    BY <2>3, Wider DEF Unix!UnixNext
<1>3. CASE UNCHANGED running /\ \E r \in Sizes : Returns(r)
  <2>1. PICK r \in Sizes : retval' = [retval EXCEPT ![running] = r]
    BY <1>3 DEF Returns
  <2>2. Unix!Answer(r)
    BY <1>1, <1>3, <2>1, AnswerStep
  <2>3. UnixWithFds!Answer(r)
    BY <2>2 DEF Unix!Answer, UnixWithFds!Answer
  <2>4. r \in Procs \cup {-1} \cup (0 .. MaxBytes)
    BY DEF Sizes
  <2> QED
    BY <2>3, <2>4 DEF UnixWithFds!UnixNext
<1> QED
  BY <1>2, <1>3 DEF FdCall

(* Every step of this kernel is one of Unix or a stutter.                    *)
LEMMA MidUnixStep ==
  (MidInv /\ MidInv' /\ Sorted4)
     => [UnixWithFds!UnixNext]_(UnixWithFds!unixVars)
<1> SUFFICES ASSUME MidInv, MidInv', Sorted4
             PROVE  [UnixWithFds!UnixNext]_(UnixWithFds!unixVars)
  OBVIOUS
<1>1. KInv /\ P1First /\ MemInv /\ KInv' /\ MemInv'
  BY DEF MidInv, PipeIInv
<1>2. Seen /\ Seen'
  BY <1>1, MemIsSeen, PTL
<1>3. CASE MemStep
  <2>1. [Unix!UnixNext]_(Unix!unixVars)
    BY <1>1, <1>2, <1>3, UnixStep
  <2>2. UNCHANGED Unix!unixVars => UNCHANGED UnixWithFds!unixVars
    BY DEF Unix!unixVars, UnixWithFds!unixVars
  <2> QED
    BY <2>1, <2>2, Wider
<1>4. CASE FdCall
  BY <1>1, <1>2, <1>4, FdCallIsUnix
<1> QED
  BY <1>3, <1>4, SortedForMem

(* It starts where Unix starts.                                              *)
LEMMA MidUnixStart == MidInit => UnixWithFds!UnixInit
<1> SUFFICES ASSUME MidInit PROVE UnixWithFds!UnixInit
  OBVIOUS
<1>1. running = 0 /\ \A p \in Procs : p \notin Users
  BY DEF MidInit, PipeInit, Users
<1> QED
  BY <1>1 DEF SeenPrograms, SeenLines, SeenResults, Reachable, UnixWithFds!UnixInit

(* fork, exec and wait behave as in Unix although calls sleep in pipes: the  *)
(* answer of a call comes once, to its caller, when the call ends; a process *)
(* that is killed in a write, or that shares descriptors, changes nobody's   *)
(* program, command line or result.                                          *)
THEOREM MidtermAsInUnix == MidSpec => KeepsUnixPromiseWithFds
BY MidUnixStart, MidStep, MidUnixStep, MidInvariance, PTL
   DEF MidSpec, KeepsUnixPromiseWithFds, UnixWithFds!UnixSpec
=============================================================================
