------------------------------ MODULE Midterm ------------------------------
(***************************************************************************)
(* The kernel of 5-midterm, which puts together what the other modules     *)
(* model apart: kernel.c and wait.c with the console of body, forkexec.c   *)
(* and int.c over user segments, and pipe.c over shared descriptors.  What *)
(* is new is how they meet: fork copies a segment and shares descriptors,  *)
(* a system call that sleeps in a pipe answers the program later, typed    *)
(* wakeups reach processes in a pipe, a broken pipe kills.                 *)
(***************************************************************************)
EXTENDS ForkExec, PipeKernel

(* init: P0 is its own parent, nothing is open.                              *)
MidInit == PipeInit /\ SysStart /\ MemStart

MidBoot == Boot /\ UNCHANGED pipeVars

(* The commands that body reads until it is left by u.                       *)
Console == Body /\ UNCHANGED pipeVars

-----------------------------------------------------------------------------
(* fork shares the descriptors and copies the segment.                       *)
MidFork ==
    \/ forkWithFds /\ fork
    \/ freeList = << >> /\ Fails /\ UNCHANGED pipeVars

(* The calls that pipes have no part in: those of 4-fork-exec, and hop.      *)
Earlier(a) == a # find_cmd.fork /\ kcinth(a) /\ UNCHANGED pipeVars

(* pipe.c.  A call that ends at once answers the program with r; one that    *)
(* goes to sleep, or kills its caller, leaves AX as it was.                  *)
Ends == call'[running] = NoCall /\ running' = running

(* Slip: AX is written when the call begins, not when it ends.               *)
Answers_early(r) == Returns(r) /\ UNCHANGED umode

Answers(r) ==
    /\ IF Ends THEN Returns(r) ELSE UNCHANGED retval
    /\ UNCHANGED umode

MidPipe == kpipe /\ Answers(0) /\ int80h

MidClose ==
    \E i \in FDs :
        \/ kclosepipe(i) /\ Answers(0) /\ int80h
        \/ fd[running][i] = NULL /\ Fails /\ UNCHANGED pipeVars

(* What a call on a descriptor that is not open for it gives.                *)
Refuses(i, mode) ==
    /\ ~(fd[running][i] # NULL /\ oft[fd[running][i]].mode = mode)
    /\ Informs /\ int80h
    /\ UNCHANGED pipeVars

Taken(k, n) == Less(n, pipes[k].data)

MidRead ==
    \E i \in FDs, n \in 1 .. MaxBytes :
        \/ /\ kreadpipe(i, n)
           /\ Answers(Taken(oft[fd[running][i]].pipe, n))
           /\ int80h
        \/ Refuses(i, "read")

MidReadAgain ==
    /\ ReadAgain
    /\ Answers(Taken(call[running].pipe, call[running].n))
    /\ UNCHANGED memVars

MidWrite ==
    \E i \in FDs, s \in BoundedSeq(Bytes, MaxBytes) \ {<< >>} :
        \/ kwritepipe(i, s) /\ Answers(Len(s)) /\ int80h
        \/ Refuses(i, "write")

(* The bytes of the turns before are counted too, and some were left for     *)
(* this one.                                                                 *)
MidWriteAgain ==
    /\ WriteAgain
    /\ \E n \in Len(call[running].text) .. MaxBytes : Answers(n)
    /\ UNCHANGED memVars

(* The menu of this lab's u1, u2 and u3, and its system calls.               *)
MidCommands ==
    [pipe |-> 11, read |-> 12, write |-> 13, close |-> 14, pfd |-> 15] @@ find_cmd

MidCall(a) ==
    \/ Earlier(a)
    \/ a = 3 /\ MidFork
    \/ a = 11 /\ MidPipe
    \/ a = 12 /\ MidRead
    \/ a = 13 /\ MidWrite
    \/ a = 14 /\ MidClose
    \/ a = 15 /\ Informs /\ int80h /\ UNCHANGED pipeVars

(* As wrapper, with pipe, read_pipe, write_pipe, close_pipe and pfd.         *)
MidWrapper(name) == MidCall(MidCommands[name])

MidMenu ==
    AtMenu /\ call[running] = NoCall /\
        \E name \in DOMAIN MidCommands : MidWrapper(name)

MidNext ==
    \/ MidBoot
    \/ Console
    \/ MidMenu
    \/ MidReadAgain \/ MidWriteAgain
    \/ KwaitGoesOn /\ UNCHANGED <<memVars, pipeVars>>

MidSpec == MidInit /\ [][MidNext]_<<memAll, pipeVars>>

-----------------------------------------------------------------------------
(* What a program of this lab sees of its calls: those on pipes answer with  *)
(* the number of bytes they moved.                                           *)
UnixWithFds == INSTANCE UnixProcess WITH
    doer <- running, program <- SeenPrograms, cmdline <- SeenLines, result <- SeenResults,
    Results <- Procs \cup {-1} \cup (0 .. MaxBytes)

(* fork, exec and wait behave as in Unix although calls now sleep in pipes:  *)
(* the answer of a call waits for the call to end, and a process that is     *)
(* killed in one, or whose descriptors are shared, changes nobody's image.   *)
KeepsUnixPromiseWithFds == UnixWithFds!UnixSpec
=============================================================================
