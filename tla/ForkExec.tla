------------------------------ MODULE ForkExec ------------------------------
(***************************************************************************)
(* fork, exec and the user segments of 4-fork-exec: kernel.c, int.c, ts.s  *)
(* and the programs of USER, over the system calls of SyscallKernel; khop  *)
(* is that of 5-midterm/int.c.  A segment holds a program, its command     *)
(* line, its stack and, on the stack, the frame that INT 80 and int80h     *)
(* push and goUmode pops.  What a process does next in user mode is        *)
(* decided by the frame that its uss and usp lead to.                      *)
(***************************************************************************)
EXTENDS SyscallKernel

CONSTANTS SEGSIZE,      \* paragraphs from one user segment to the next
          SegShift,     \* where the segments begin, and
          TopShift,     \* how far into them the stacks: 0 but in 5-midterm
          Depth,        \* bytes of stack in use when a program issues INT 80
          Programs,     \* files in /bin, "u1" among them
          CommandLines, \* what is typed as a command line, [file, len]
          HopSegments   \* the segments typed to hop to; none in 4-fork-exec

(* A command line and the zeros behind it fit cmdline[32].                   *)
ASSUME ForkExecAssumption ==
    /\ SEGSIZE \in Nat \ {0} /\ SegShift \in Nat /\ TopShift \in Nat /\ Depth \in Nat
    /\ "u1" \in Programs
    /\ \A line \in CommandLines : line.len \in 1 .. 31
    /\ HopSegments \subseteq Nat

VARIABLES uss, usp,     \* a process's saved user segment and stack pointer
          mem           \* what the segments hold

memVars == <<uss, usp, mem>>

Frame == 24                                    \* bytes of a saved frame
NoLine == [file |-> "none", len |-> 0]

(* kfork's segment for a process and the end of its stack; in 5-midterm      *)
(* (pid - 1) * 0x800 + 0x2000 and (pid + 1) * 0x800 + 0x2000.                *)
u_segment(p) == (p + 1) * SEGSIZE + SegShift

(* Slip: the end of the stack is taken for the segment, in bytes.            *)
n_segment_bytes(p) == 16 * (p + 2) * SEGSIZE

n_segment(p) == (p + 2) * SEGSIZE + TopShift

Segments == {u_segment(p) : p \in Procs \ {0}} \cup HopSegments

(* A segment into which a file was loaded, with a frame where its stack ends *)
(* and in which the program begins; AX of the frame is retval.               *)
Loaded(seg, file, line, top) ==
    [prog |-> file, line |-> line, stack |-> top,
     frame |-> [at |-> top - Frame, ds |-> seg, es |-> seg, cs |-> seg]]

MemStart ==
    /\ uss = [p \in Procs |-> 0]
    /\ usp = [p \in Procs |-> 0]
    /\ mem = [s \in Segments |-> Loaded(s, "none", NoLine, Frame)]

MemInit == SysInit /\ MemStart

-----------------------------------------------------------------------------
(* kfork loads u1 into the segment of the new PROC.                          *)
kforkU1(p) ==
    /\ uss' = [uss EXCEPT ![p] = u_segment(p)]
    /\ usp' = [usp EXCEPT ![p] = n_segment(p) - Frame]
    /\ mem' = [mem EXCEPT ![u_segment(p)] =
                  Loaded(u_segment(p), "u1", NoLine, n_segment(p))]

Boot ==
    \/ MainFork /\ Forked(1) /\ kforkU1(1)
    \/ MainSwitch /\ UNCHANGED <<sysVars, memVars>>

(* Every command but f leaves the segments alone.                            *)
Body ==
    \/ do_kfork /\ kforkU1(Head(freeList))
    \/ Commands /\ UNCHANGED memVars

-----------------------------------------------------------------------------
(* INT 80 and int80h: the frame is pushed where the program's stack has got  *)
(* to, with the segment registers that the program runs with.                *)
Saved == mem[uss[running]].stack - Depth - Frame

Pushed == [mem[uss[running]] EXCEPT !.frame.at = Saved]

int80h ==
    /\ usp' = [usp EXCEPT ![running] = Saved]
    /\ mem' = [mem EXCEPT ![uss[running]] = Pushed]
    /\ UNCHANGED uss

(* Slip: the code segment stays the parent's.                                *)
Copied_parentsCode(seg) == [Pushed EXCEPT !.frame.ds = seg, !.frame.es = seg]

(* copySegment, and the segment registers of the frame set to the new one.   *)
Copied(seg) == [Pushed EXCEPT !.frame.ds = seg, !.frame.es = seg, !.frame.cs = seg]

(* Slip: the stack pointer stays the one that kfork set.                     *)
ChildStack_ofKfork(c) == n_segment(c) - Frame

ChildStack(c) == Saved

ChildResult(c) == 0

fork ==
    LET c == Head(freeList)
        seg == u_segment(c)
    IN  /\ freeList # << >>
        /\ kfork
        /\ InBody(c)
        /\ retval' = [retval EXCEPT ![running] = c, ![c] = ChildResult(c)]
        /\ uss' = [uss EXCEPT ![c] = seg]
        /\ usp' = [usp EXCEPT ![running] = Saved, ![c] = ChildStack(c)]
        /\ mem' = [mem EXCEPT ![uss[running]] = Pushed, ![seg] = Copied(seg)]
        /\ UNCHANGED pc

Fails == Returns(-1) /\ int80h /\ UNCHANGED <<vars, umode>>

(* An even number of bytes for the command line and the 0 behind it.         *)
Padded(len) == 2 * ((len + 2) \div 2)

(* Where the stack of the program begins: below the command line and the     *)
(* word that points to it.                                                   *)
stkp(line) == uss[running] + SEGSIZE - Padded(line.len) - 2

(* The file is loaded over the segment that the process is in.  kexec        *)
(* returns nothing in particular, and kcinth puts that into the new frame.   *)
kexec(line) ==
    /\ line.file \in Programs
    /\ \E r \in {0, -1} : Returns(r)
    /\ usp' = [usp EXCEPT ![running] = stkp(line) - Frame]
    /\ mem' = [mem EXCEPT ![uss[running]] = Loaded(uss[running], line.file, line, stkp(line))]
    /\ UNCHANGED <<vars, umode, uss>>

Hopped(seg) == Copied(seg)

(* hop of 5-midterm, to a segment that no process is in.                     *)
khop(seg) ==
    /\ \A p \in Procs : status[p] # "FREE" => uss[p] # seg
    /\ Returns(0)
    /\ uss' = [uss EXCEPT ![running] = seg]
    /\ usp' = [usp EXCEPT ![running] = Saved]
    /\ mem' = [mem EXCEPT ![uss[running]] = Pushed, ![seg] = Hopped(seg)]
    /\ UNCHANGED <<vars, umode>>

(* The call that each command of the menu is for.                            *)
find_cmd == [getpid |-> 0, ps |-> 1, chname |-> 2, fork |-> 3, switch |-> 4,
             wait |-> 5, exit |-> 6, exec |-> 9, hop |-> 10]

kcinth(a) ==
    \/ a = 0 /\ kgetpid /\ int80h
    \/ a \in {1, 2} /\ Informs /\ int80h
    \/ a = 3 /\ (fork \/ (freeList = << >> /\ Fails))
    \/ a = 4 /\ ktswitch /\ int80h
    \/ a = 5 /\ kkwait /\ int80h
    \/ a = 6 /\ (\E value \in ExitValues : kkexit(value)) /\ int80h
    \/ a = 9 /\ \E line \in CommandLines :
                    kexec(line) \/ (line.file \notin Programs /\ Fails)
    \/ a = 10 /\ \E seg \in HopSegments : khop(seg)

(* The function of ucode.c for a command: INT 80 with the number of its call *)
(* and what the user types for it.  It may call getpid as well.              *)
wrapper(name) == kcinth(find_cmd[name])

(* The menu of u1, u2 and u3, which differ in the name they show.            *)
menu == AtMenu /\ \E name \in DOMAIN find_cmd : wrapper(name)

MemNext ==
    \/ Boot
    \/ Body
    \/ menu
    \/ KwaitGoesOn /\ UNCHANGED memVars

memAll == <<vars, sysVars, memVars>>

MemSpec == MemInit /\ [][MemNext]_memAll

-----------------------------------------------------------------------------
MemTypeOK ==
    /\ TypeOK
    /\ umode \in [Procs -> BOOLEAN]
    /\ retval \in [Procs -> Int]
    /\ uss \in [Procs -> Segments \cup {0}]
    /\ usp \in [Procs -> Int]
    /\ DOMAIN mem = Segments

Users == {p \in Procs \ {0} : status[p] # "FREE"}

(* Every process that goes to user mode next, goes there with a frame of its *)
(* own segment: where usp points there is a frame, and its code, data and    *)
(* extra segments are the one that the process owns.                         *)
FramesAreOwn ==
    /\ MemTypeOK
    /\ \A p \in Users : mem[uss[p]].frame =
        [at |-> usp[p], ds |-> uss[p], es |-> uss[p], cs |-> uss[p]]

(* The stack that kfork, fork or exec gave a process, where INT 80 saves its *)
(* frame, lies inside its own segment and not in the one above ("calculate   *)
(* offsets for start and end of user segment", 5-midterm/kernel.c:32).       *)
StackInOwnSegment ==
    \A p \in Users : usp[p] >= 0 /\ usp[p] + Frame <= 16 * SEGSIZE

(* The program, command line and last result of a process as user mode will  *)
(* find them, through uss, usp and the segment registers of the frame.       *)
FrameOf(p) == mem[uss[p]].frame
Reachable(p) == p \in Users /\ FrameOf(p).at = usp[p]

SeenPrograms ==
    [p \in Procs |-> IF p \notin Users THEN "none"
                     ELSE IF Reachable(p) THEN mem[FrameOf(p).cs].prog ELSE "lost"]
SeenLines == [p \in Procs |-> IF Reachable(p) THEN mem[FrameOf(p).ds].line ELSE NoLine]
SeenResults == [p \in Procs |-> IF Reachable(p) THEN retval[p] ELSE 0]

Unix == INSTANCE UnixProcess WITH
    doer <- running, program <- SeenPrograms, cmdline <- SeenLines, result <- SeenResults,
    Results <- Procs \cup {-1}

(* fork and exec behave as in Unix (4-fork-exec/README.md:10,23): the kernel *)
(* with its segments, frames and switches implements UnixProcess.            *)
KeepsUnixPromise == Unix!UnixSpec
=============================================================================
