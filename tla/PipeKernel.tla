----------------------------- MODULE PipeKernel -----------------------------
(***************************************************************************)
(* Pipes between user processes, in the kernel of 7-semaphores-serial:     *)
(* pipe.c, the fork of forkexec.c that copies file descriptors, and the    *)
(* system calls of int.c for tswitch, fork, wait and exit.  Scheduling,    *)
(* sleeping, waking, waiting and dying are those of ProcKernel, whose code *)
(* this kernel carries on unchanged; a process is at "body" in pc when it  *)
(* is in user mode or in a pipe call, and call says which.  The kernel     *)
(* gives the machine away only in tswitch, so a system call is one step up *)
(* to its ksleep and one step for each time it is woken.                   *)
(***************************************************************************)
EXTENDS ProcKernel, Pipe

CONSTANTS NPIPES, NOFT, NFD,    \* sizes of pipes[], oft[] and fd[]
          Bytes,                \* bytes written to a pipe
          MaxBytes,             \* bound: bytes asked for in one call
          MaxCount,             \* bound: users of an OFT that fork makes
          PipeBase              \* address of pipes[0]

ASSUME PipeKernelAssumption ==
    /\ NPIPES \in Nat /\ NOFT \in Nat /\ NFD \in Nat
    /\ MaxBytes \in Nat /\ MaxCount \in Nat \ {0}
    /\ PipeBase \in Int /\ PipeBase > ProcBase + NPROC + 2

VARIABLES fd,           \* PROC.fd[]: the OFT behind each descriptor
          oft, pipes,
          call,         \* the pipe call in which a process sleeps
          delivered     \* what kreadpipe last put into a user's buffer

pipeVars == <<fd, oft, pipes, call, delivered>>
familyVars == <<ppid, parent, priority, exitCode, freeList, nproc, pc>>

FDs == 0 .. NFD - 1
OFTs == 0 .. NOFT - 1
Pipes == 0 .. NPIPES - 1

(* &pipe->data and &pipe->room, NULL for pipe included.                      *)
DataOf(k) == PipeBase + 2 * k
RoomOf(k) == PipeBase + 2 * k + 1

NoCall == [op |-> "none", pipe |-> NULL, n |-> 0, text |-> << >>]
Reading(k, n) == [op |-> "read", pipe |-> k, n |-> n, text |-> << >>]
Writing(k, s) == [op |-> "write", pipe |-> k, n |-> 0, text |-> s]

(* As ProcKernel starts, but P0 is its own parent; oft and pipes are zero.   *)
PipeInit ==
    /\ running = 0
    /\ status = [p \in Procs |-> IF p = 0 THEN "RUNNING" ELSE "FREE"]
    /\ ppid = [p \in Procs |-> 0]
    /\ parent = [p \in Procs |-> IF p = 0 THEN 0 ELSE NULL]
    /\ priority = [p \in Procs |-> 0]
    /\ event = [p \in Procs |-> 0]
    /\ exitCode = [p \in Procs |-> 0]
    /\ freeList = [i \in 1 .. NPROC - 1 |-> i]
    /\ readyQueue = << >> /\ sleepList = << >>
    /\ nproc = 1 /\ rflag = 0
    /\ pc = [p \in Procs |-> IF p = 0 THEN "kfork" ELSE "body"]
    /\ fd = [p \in Procs |-> [i \in FDs |-> NULL]]
    /\ oft = [o \in OFTs |-> [mode |-> "none", refCount |-> 0, pipe |-> NULL]]
    /\ pipes = [k \in Pipes |-> [buf |-> [i \in Slots |-> 0], head |-> 0, tail |-> 0,
                                 data |-> 0, room |-> 0, nreader |-> 0, nwriter |-> 0]]
    /\ call = [p \in Procs |-> NoCall]
    /\ delivered = << >>

InUmode == AtPrompt /\ call[running] = NoCall

(* The call ends with the lists l, and the process runs on.                  *)
Return(l) ==
    /\ status' = l.status /\ readyQueue' = l.ready /\ sleepList' = l.sleep
    /\ call' = [call EXCEPT ![running] = NoCall]
    /\ UNCHANGED <<running, event, rflag>>

(* The call sleeps on ev, the lists being l, to go on as c.                  *)
SleepOn(l, ev, c) ==
    /\ event' = [event EXCEPT ![running] = ev]
    /\ sleepList' = enqueue(l.sleep, running, priority)
    /\ scheduler([l.status EXCEPT ![running] = "SLEEP"], l.ready)
    /\ call' = [call EXCEPT ![running] = c]

-----------------------------------------------------------------------------
(* getFreeOFTIndex looks at the first NPIPES OFTs, which are all of them:    *)
(* NPIPES and NOFT are both 10.                                              *)
FreePipes == {k \in Pipes : pipes[k].nreader = 0 /\ pipes[k].nwriter = 0}
FreeOFTs == {o \in OFTs : oft[o].refCount = 0}

(* running's descriptors that are free when the OFTs are those of table.     *)
FreeFDs(table) ==
    {i \in FDs : fd[running][i] = NULL \/ table[fd[running][i]].refCount = 0}

(* kpipe while the tables have room; past their end the code has no          *)
(* defined result and the model stops.                                       *)
kpipe ==
    /\ InUmode
    /\ FreePipes # {} /\ Cardinality(FreeOFTs) >= 2
    /\ LET k == Min(FreePipes)
           r == Min(FreeOFTs)
           w == Min(FreeOFTs \ {r})
           table == [oft EXCEPT
                         ![r] = [mode |-> "read", refCount |-> 1, pipe |-> k],
                         ![w] = [mode |-> "write", refCount |-> 1, pipe |-> k]]
           i == Min(FreeFDs(table))
           j == Min(FreeFDs(table) \ {i})
       IN  /\ Cardinality(FreeFDs(table)) >= 2
           /\ pipes' = [pipes EXCEPT ![k] = Opened(@)]
           /\ oft' = table
           /\ fd' = [fd EXCEPT ![running][i] = r, ![running][j] = w]
    /\ UNCHANGED <<vars, call, delivered>>

(* Slip: a half closed pipe is given back.                                   *)
LeftWithout_half(p, mode) ==
    LET q == IF mode = "read" THEN [p EXCEPT !.nreader = @ - 1]
             ELSE [p EXCEPT !.nwriter = @ - 1]
    IN  IF q.nreader = 0 \/ q.nwriter = 0 THEN Emptied(q) ELSE q

(* A pipe that one user of the end mode leaves; the last of all empties it.  *)
LeftWithout(p, mode) ==
    LET q == IF mode = "read" THEN [p EXCEPT !.nreader = @ - 1]
             ELSE [p EXCEPT !.nwriter = @ - 1]
    IN  IF q.nreader = 0 /\ q.nwriter = 0 THEN Emptied(q) ELSE q

UsersOf(p, mode) == IF mode = "read" THEN p.nreader ELSE p.nwriter

(* kclosepipe.  The event it wakes is computed from the OFT's pipe_ptr after *)
(* the last close of the end has cleared it.                                 *)
kclosepipe(i) ==
    LET o == fd[running][i]
        mode == oft[o].mode
        left == LeftWithout(pipes[oft[o].pipe], mode)
        last == UsersOf(left, mode) = 0
        ptr == IF last THEN NULL ELSE oft[o].pipe
        l == kwakeup(Lists, IF mode = "read" THEN DataOf(ptr) ELSE RoomOf(ptr))
    IN  /\ InUmode
        /\ o # NULL
        /\ fd' = [fd EXCEPT ![running][i] = NULL]
        /\ pipes' = [pipes EXCEPT ![oft[o].pipe] = left]
        /\ oft' = [oft EXCEPT ![o] =
                      IF last THEN [mode |-> "read", refCount |-> 0, pipe |-> NULL]
                      ELSE [oft[o] EXCEPT !.refCount = @ - 1]]
        /\ Return(l)
        /\ UNCHANGED <<familyVars, delivered>>

-----------------------------------------------------------------------------
Less(a, b) == IF a < b THEN a ELSE b

(* Slip: writers are not told of the room.                                   *)
AfterRead_silent(k) == Lists

(* The wakeup of kreadpipe, for writers.                                     *)
AfterRead(k) == kwakeup(Lists, RoomOf(k))

(* One turn of kreadpipe's loop on pipe k for n bytes.                       *)
ReadTurn(k, n) ==
    LET p == pipes[k]
        m == Less(n, p.data)
    IN  \/ /\ p.data > 0
           /\ pipes' = [pipes EXCEPT ![k] = Drained(p, m)]
           /\ delivered' = Oldest(p, m)
           /\ Return(AfterRead(k))
           /\ UNCHANGED <<familyVars, fd, oft>>
        \/ /\ p.data = 0 /\ p.nwriter > 0
           /\ SleepOn(AfterRead(k), DataOf(k), Reading(k, n))
           /\ UNCHANGED <<familyVars, fd, oft, pipes, delivered>>
        \/ /\ p.data = 0 /\ p.nwriter <= 0
           /\ Return(Lists)
           /\ UNCHANGED <<familyVars, fd, oft, pipes, delivered>>

kreadpipe(i, n) ==
    /\ InUmode
    /\ fd[running][i] # NULL /\ oft[fd[running][i]].mode = "read"
    /\ ReadTurn(oft[fd[running][i]].pipe, n)

ReadAgain ==
    /\ AtPrompt /\ call[running].op = "read"
    /\ ReadTurn(call[running].pipe, call[running].n)

(* The wakeup of kwritepipe, for readers.                                    *)
AfterWrite(k) == kwakeup(Lists, DataOf(k))

(* One turn of kwritepipe's loop on pipe k for the bytes s.  Without a       *)
(* reader the writer is killed, with exit value 13.                          *)
WriteTurn(k, s) ==
    LET p == pipes[k]
        m == Less(Len(s), p.room)
        all == m = Len(s)
    IN  \/ /\ p.nreader = 0
           /\ kexit(13)
           /\ call' = [call EXCEPT ![running] = NoCall]
           /\ UNCHANGED <<fd, oft, pipes, delivered>>
        \/ /\ p.nreader # 0
           /\ pipes' = [pipes EXCEPT ![k] = Filled(p, SubSeq(s, 1, m))]
           /\ IF all THEN Return(AfterWrite(k))
              ELSE SleepOn(AfterWrite(k), RoomOf(k),
                           Writing(k, SubSeq(s, m + 1, Len(s))))
           /\ UNCHANGED <<familyVars, fd, oft, delivered>>

kwritepipe(i, s) ==
    /\ InUmode
    /\ fd[running][i] # NULL /\ oft[fd[running][i]].mode = "write"
    /\ WriteTurn(oft[fd[running][i]].pipe, s)

WriteAgain ==
    /\ AtPrompt /\ call[running].op = "write"
    /\ WriteTurn(call[running].pipe, call[running].text)

-----------------------------------------------------------------------------
(* Slip: fork does not count the descriptors it copies.                      *)
Copies_none(o) == 0

(* How many of running's descriptors name the OFT o.                         *)
Copies(o) == Cardinality({i \in FDs : fd[running][i] = o})

(* Slip: the pipe's own counters are not raised.                             *)
Shared_oftOnly == UNCHANGED pipes

(* fork raises the counters of each pipe end by the descriptors that copy it.*)
Shared ==
    pipes' = [k \in Pipes |->
                LET Added(mode) ==
                        Cardinality({i \in FDs : fd[running][i] # NULL
                                       /\ oft[fd[running][i]].pipe = k
                                       /\ oft[fd[running][i]].mode = mode})
                IN  [pipes[k] EXCEPT !.nreader = @ + Added("read"),
                                     !.nwriter = @ + Added("write")]]

(* The calls of 4-fork-exec that file descriptors change are named WithFds.  *)
(* fork: a descriptor that the parent has not opened stays what it was in    *)
(* the PROC the child gets.                                                  *)
forkWithFds ==
    /\ \A o \in OFTs : oft[o].refCount + Copies(o) <= MaxCount
    /\ kfork
    /\ fd' = [fd EXCEPT ![Head(freeList)] =
                 [i \in FDs |-> IF fd[running][i] # NULL THEN fd[running][i] ELSE @[i]]]
    /\ oft' = [o \in OFTs |-> [oft[o] EXCEPT !.refCount = @ + Copies(o)]]
    /\ Shared
    /\ UNCHANGED <<pc, call, delivered>>

(* kkexit does not let P1 die.                                               *)
kkexitWithFds(value) ==
    /\ InUmode
    /\ running # 1
    /\ kexit(value)
    /\ UNCHANGED pipeVars

(* The system calls, by their cases in kcinth.                               *)
kcinthWithFds ==
    \/ InUmode /\ DoTswitch /\ UNCHANGED pipeVars
    \/ InUmode /\ forkWithFds
    \/ InUmode /\ DoWait /\ UNCHANGED pipeVars
    \/ \E value \in ExitValues : kkexitWithFds(value)
    \/ kpipe
    \/ \E i \in FDs : kclosepipe(i)
    \/ \E i \in FDs, n \in 1 .. MaxBytes : kreadpipe(i, n)
    \/ \E i \in FDs, s \in BoundedSeq(Bytes, MaxBytes) \ {<< >>} : kwritepipe(i, s)

PipeNext ==
    \/ MainFork /\ UNCHANGED pipeVars
    \/ MainSwitch /\ UNCHANGED pipeVars
    \/ kcinthWithFds
    \/ WaitAgain /\ UNCHANGED pipeVars
    \/ ReadAgain
    \/ WriteAgain

PipeSpec == PipeInit /\ [][PipeNext]_<<vars, pipeVars>>

-----------------------------------------------------------------------------
Modes == {"none", "read", "write"}

(* Every variable of the pipes stays of its type.                            *)
PipeTypeOK ==
    /\ fd \in [Procs -> [FDs -> OFTs \cup {NULL}]]
    /\ \A o \in OFTs : /\ oft[o].mode \in Modes
                       /\ oft[o].refCount \in 0 .. MaxCount
                       /\ oft[o].pipe \in Pipes \cup {NULL}
    /\ \A k \in Pipes : /\ pipes[k].nreader \in 0 .. MaxCount
                        /\ pipes[k].nwriter \in 0 .. MaxCount
    /\ \A p \in Procs : /\ call[p].op \in Modes
                        /\ call[p].pipe \in Pipes \cup {NULL}
    /\ delivered \in BoundedSeq(Bytes, PSIZE)

Held(k) == pipes[k].nreader + pipes[k].nwriter > 0

(* The circular buffer of a pipe in use stays sound through wraps, partial   *)
(* reads and writes, closes and reuse.                                       *)
RingsSound == \A k \in Pipes : Held(k) => RingIsSound(pipes[k])

DescriptorsTo(o) == {x \in Procs \X FDs : fd[x[1]][x[2]] = o}

UsersCounted ==
    \A o \in OFTs : oft[o].refCount >= Cardinality(DescriptorsTo(o))

EndsCounted ==
    \A o \in OFTs : oft[o].refCount > 0 =>
        /\ oft[o].pipe # NULL
        /\ UsersOf(pipes[oft[o].pipe], oft[o].mode) = oft[o].refCount

EndsAreThere ==
    \A k \in Pipes, mode \in {"read", "write"} : UsersOf(pipes[k], mode) > 0 =>
        \E o \in OFTs : oft[o].refCount > 0 /\ oft[o].pipe = k /\ oft[o].mode = mode

(* refCount never falls below the number of descriptors that name the OFT,   *)
(* those of dead processes and of free PROCs included, and the counters of   *)
(* the pipe follow the refCounts of its two ends: no pipe can be given back  *)
(* under a process that may still use it.                                    *)
CountsCover == PipeTypeOK /\ UsersCounted /\ EndsCounted /\ EndsAreThere

AsleepIn(op, k) == {p \in Procs : status[p] = "SLEEP" /\ call[p].op = op
                                  /\ call[p].pipe = k}

(* kreadpipe and kwritepipe keep the pipe pointer over ksleep: when they are *)
(* woken the process still has a descriptor of that end of that pipe.        *)
PointerStaysGood ==
    \A p \in Procs : call[p].op # "none" =>
        \E i \in FDs : /\ fd[p][i] # NULL
                       /\ oft[fd[p][i]].refCount > 0
                       /\ oft[fd[p][i]].mode = call[p].op
                       /\ oft[fd[p][i]].pipe = call[p].pipe

(* Nobody sleeps for data that is there or for room that is there.           *)
NoMissedWakeup ==
    \A k \in Pipes : /\ AsleepIn("read", k) # {} => pipes[k].data = 0
                     /\ AsleepIn("write", k) # {} => pipes[k].room = 0

(* Bytes come out of every pipe in the order in which they went in, once     *)
(* each, and none vanishes while somebody holds the pipe.                    *)
Channel == INSTANCE PipeChannel WITH
    Capacity <- PSIZE,
    held <- [k \in Pipes |-> Held(k)],
    chan <- [k \in Pipes |-> Contents(pipes[k])]

CarriesBytes == Channel!ChannelSpec

=============================================================================
