--------------------------- MODULE ForkExecProofs ---------------------------
(***************************************************************************)
(* Lab 4's kernel for any number of processes and any segments: it runs    *)
(* the processes as the kernel of 2-tswitch does, so that all that is      *)
(* proved of that one holds of it; every process that goes to user mode    *)
(* finds its frame, in the segment that it is in; and fork, exec and wait  *)
(* behave as UnixProcess says.                                             *)
(***************************************************************************)
EXTENDS ForkExec, ProcKernelProofs

(* What is typed for hop is not a segment that kfork may want.               *)
ASSUME HopsElsewhere == HopSegments \cap {u_segment(p) : p \in Procs} = {}

USE ProcKernelAssumption, TestsRunning, ForkExecAssumption DEF NULL

(* Every step is one of 2-tswitch's or leaves its variables alone: a system  *)
(* call is a command of body, with its guards.                               *)
LEMMA BodyIsNext == Body => [Next]_vars
<1>1. do_kfork => Next
  BY DEF do_kfork, Next, body
<1>2. Commands => [Next]_vars
  BY DEF Commands, do_tswitch, do_stop, do_continue, do_sleep, do_wakeup, do_exit,
         do_wait, do_chpriority, goUmode, Next, body
<1> QED
  BY <1>1, <1>2 DEF Body

(* What kcinth does for a call is a command of the kernel of 2-tswitch.      *)
LEMMA CallIsNext ==
  ASSUME NEW a, AtMenu, kcinth(a)
  PROVE  [Next]_vars
<1>1. AtPrompt
  BY DEF AtMenu
<1>2. CASE kgetpid \/ Informs
  BY <1>2 DEF kgetpid, Informs
<1>3. CASE fork
  BY <1>1, <1>3 DEF fork, DoKfork, Next, body
<1>4. CASE Fails
  BY <1>4 DEF Fails
<1>5. CASE ktswitch
  BY <1>5 DEF ktswitch, Next, body
<1>6. CASE kkwait
  BY <1>6 DEF kkwait, Next, body
<1>7. CASE \E value \in ExitValues : kkexit(value)
  BY <1>1, <1>7 DEF kkexit, DoExit, MayExit, Next, body
<1>8. CASE \E line \in CommandLines : kexec(line)
  BY <1>8 DEF kexec
<1>9. CASE \E seg \in HopSegments : khop(seg)
  BY <1>9 DEF khop
<1> QED
  BY <1>2, <1>3, <1>4, <1>5, <1>6, <1>7, <1>8, <1>9 DEF kcinth

(* Whatever lab 4 does, its processes do what those of 2-tswitch may do.     *)
LEMMA MemNextIsNext == [MemNext]_memAll => [Next]_vars
<1>1. Boot => Next
  BY DEF Boot, Next
<1>2. menu => [Next]_vars
  BY CallIsNext DEF menu, wrapper
<1>3. KwaitGoesOn => Next
  BY DEF KwaitGoesOn, Next
<1>4. UNCHANGED memAll => UNCHANGED vars
  BY DEF memAll
<1> QED
  BY <1>1, <1>2, <1>3, <1>4, BodyIsNext DEF MemNext

(* fork and the other calls of 4-fork-exec treat processes as the kernel of  *)
(* 2-tswitch does: its lists, statuses and families are in order here too.   *)
THEOREM RunsProcKernel == MemSpec => Spec
<1>1. MemInit => Init
  BY DEF MemInit, SysInit
<1> QED
  BY <1>1, MemNextIsNext, PTL DEF MemSpec, Spec

(* kwait as a system call, and after it body's, is not left asleep.          *)
THEOREM CallersAreWoken == MemSpec => []WaitersAreWoken
BY RunsProcKernel, NobodyWaitsInVain, PTL

-----------------------------------------------------------------------------
(* What a segment may hold.                                                  *)
Images == [prog : Programs \cup {"none"},
           line : CommandLines \cup {NoLine},
           stack : Int,
           frame : [at : Int, ds : Int, es : Int, cs : Int]]

(* A process is in its own segment or has hopped to one of its own, with a   *)
(* frame there; no two processes are in the same segment.                    *)
Framed(p) ==
    /\ mem[uss[p]].prog \in Programs
    /\ uss[p] \in Segments /\ uss[p] \in {u_segment(p)} \cup HopSegments
    /\ mem[uss[p]].frame = [at |-> usp[p], ds |-> uss[p], es |-> uss[p], cs |-> uss[p]]

ProgOf(p) == mem[uss[p]].prog
LineOf(p) == mem[uss[p]].line
TopOf(p) == mem[uss[p]].stack

FrameInv ==
    /\ uss \in [Procs -> Segments \cup {0}]
    /\ usp \in [Procs -> Int]
    /\ mem \in [Segments -> Images]
    /\ \A p \in Users : Framed(p)
    /\ \A p, q \in Users : uss[p] = uss[q] => p = q

SysTyped == umode \in [Procs -> BOOLEAN] /\ retval \in [Procs -> Int]

(* The stacks of the processes in A stay; p has a frame at sp, on a stack    *)
(* that ends at top.                                                         *)
StacksStay(A) == \A p \in A : usp'[p] = usp[p] /\ TopOf(p)' = TopOf(p)
StackIs(p, sp, top) == usp'[p] = sp /\ mem'[uss'[p]].stack = top

(* Segments are numbers, and every process but P0 has one.                   *)
LEMMA SegmentsAreInts ==
  /\ Segments \subseteq Int
  /\ \A p \in Procs : u_segment(p) \in Int /\ n_segment(p) \in Int
  /\ \A p \in Procs \ {0} : u_segment(p) \in Segments
<1>1. \A p \in Procs : u_segment(p) \in Int /\ n_segment(p) \in Int
  BY DEF u_segment, n_segment, Procs
<1> QED
  BY <1>1 DEF Segments

(* kfork's segments are different ones.                                      *)
LEMMA SegmentsDiffer ==
  ASSUME NEW p \in Procs, NEW q \in Procs, u_segment(p) = u_segment(q)
  PROVE  p = q
<1>1. p \in Int /\ q \in Int
  BY DEF Procs
<1>2. (p + 1) * SEGSIZE = (q + 1) * SEGSIZE
  BY <1>1 DEF u_segment
<1> QED
  BY <1>1, <1>2

(* A command that leaves the segments alone and makes no process.            *)
LEMMA AloneKeeps ==
  ASSUME FrameInv, Users' \subseteq Users, UNCHANGED memVars
  PROVE  /\ FrameInv'
         /\ \A p \in Users : ProgOf(p)' = ProgOf(p) /\ LineOf(p)' = LineOf(p)
BY DEF FrameInv, memVars, Framed, Segments, u_segment, ProgOf, LineOf

(* kfork gives its child u1 and a frame, in a segment nobody is in.          *)
LEMMA Kfork1Keeps ==
  ASSUME FrameInv, NEW c \in Procs \ {0}, Users' \subseteq Users \cup {c}, c \notin Users,
         kforkU1(c)
  PROVE  /\ FrameInv'
         /\ \A p \in Users : ProgOf(p)' = ProgOf(p) /\ LineOf(p)' = LineOf(p)
         /\ ProgOf(c)' = "u1" /\ LineOf(c)' = NoLine
         /\ StacksStay(Users) /\ StackIs(c, n_segment(c) - Frame, n_segment(c))
<1> DEFINE s == u_segment(c)
           top == n_segment(c)
<1>1. s \in Segments /\ s \in Int /\ top \in Int
  BY SegmentsAreInts
<1>2. Loaded(s, "u1", NoLine, top) \in Images
  BY <1>1 DEF Loaded, Images, Frame
<1>3. \A p \in Users : uss[p] # s /\ uss[p] \in Segments
  <2> TAKE p \in Users
  <2>1. uss[p] \in {u_segment(p)} \cup HopSegments /\ p \in Procs /\ p # c /\ uss[p] \in Segments
    BY DEF FrameInv, Framed, Users
  <2>2. s \notin HopSegments
    BY HopsElsewhere
  <2> QED
    BY <2>1, <2>2, SegmentsDiffer
<1>4. /\ uss' \in [Procs -> Segments \cup {0}]
      /\ usp' \in [Procs -> Int]
      /\ mem' \in [Segments -> Images]
  BY <1>1, <1>2 DEF FrameInv, kforkU1, Frame
<1>5. /\ \A p \in Users : uss'[p] = uss[p] /\ usp'[p] = usp[p] /\ mem'[uss[p]] = mem[uss[p]]
      /\ uss'[c] = s /\ usp'[c] = top - Frame /\ mem'[s] = Loaded(s, "u1", NoLine, top)
  BY <1>1, <1>3 DEF FrameInv, kforkU1, Users
<1>6. \A p \in Users : Framed(p)'
  BY <1>5 DEF FrameInv, Framed, Segments, u_segment
<1>7. Framed(c)'
  BY <1>1, <1>5 DEF Loaded, Framed, Segments, u_segment, ForkExecAssumption
<1>8. \A p, q \in Users \cup {c} : uss'[p] = uss'[q] => p = q
  BY <1>3, <1>5 DEF FrameInv
<1>9. FrameInv'
  BY <1>4, <1>6, <1>7, <1>8 DEF FrameInv
<1> QED
  BY <1>5, <1>9 DEF ProgOf, LineOf, Loaded, StacksStay, StackIs, TopOf

(* The frame that INT 80 and int80h push.                                    *)
LEMMA PushedFrame ==
  ASSUME FrameInv, running \in Users
  PROVE  /\ uss[running] \in Segments /\ Saved \in Int /\ Pushed \in Images
         /\ Pushed.frame = [at |-> Saved, ds |-> uss[running],
                            es |-> uss[running], cs |-> uss[running]]
         /\ Pushed.prog = ProgOf(running) /\ Pushed.line = LineOf(running)
         /\ Pushed.stack = TopOf(running) /\ Pushed.prog \in Programs
<1>1. uss[running] \in Segments /\ uss[running] \in Int
  BY SegmentsAreInts DEF FrameInv, Framed
<1>2. mem[uss[running]] \in Images
  BY <1>1 DEF FrameInv
<1>3. Saved \in Int
  BY <1>2 DEF Saved, Images, Frame
<1>4. mem[uss[running]].frame = [at |-> usp[running], ds |-> uss[running],
                                 es |-> uss[running], cs |-> uss[running]]
  BY DEF FrameInv, Framed
<1>5. Pushed.frame = [mem[uss[running]].frame EXCEPT !.at = Saved]
  BY <1>2 DEF Pushed, Images
<1>6. Pushed.frame = [at |-> Saved, ds |-> uss[running],
                      es |-> uss[running], cs |-> uss[running]]
  BY <1>4, <1>5
<1>7. Pushed \in Images
  BY <1>1, <1>2, <1>3, <1>6 DEF Pushed, Images
<1>8. /\ Pushed.prog = ProgOf(running) /\ Pushed.line = LineOf(running)
      /\ Pushed.stack = TopOf(running) /\ Pushed.prog \in Programs
  BY <1>2 DEF Pushed, Images, ProgOf, LineOf, TopOf, FrameInv, Framed
<1> QED
  BY <1>1, <1>3, <1>6, <1>7, <1>8

(* What a call writes for the running process only: a new frame, in the      *)
(* segment that it is in or in one that nobody is in.                        *)
LEMMA CallerKeeps ==
  ASSUME FrameInv, running \in Users, Users' \subseteq Users,
         NEW seg \in Segments, seg \in {uss[running]} \cup HopSegments,
         \A p \in Users \ {running} : uss[p] # seg,
         NEW top \in Int,
         uss' = [uss EXCEPT ![running] = seg],
         usp' = [usp EXCEPT ![running] = top],
         mem' \in [Segments -> Images],
         \A p \in Users \ {running} : mem'[uss[p]] = mem[uss[p]],
         mem'[seg].frame = [at |-> top, ds |-> seg, es |-> seg, cs |-> seg],
         mem'[seg].prog \in Programs
  PROVE  /\ FrameInv'
         /\ \A p \in Users : LET image == IF p = running THEN mem'[seg] ELSE mem[uss[p]]
                            IN  ProgOf(p)' = image.prog /\ LineOf(p)' = image.line
         /\ StacksStay(Users \ {running}) /\ StackIs(running, top, mem'[seg].stack)
<1>1. running \in Procs
  BY DEF Users
<1>2. uss' \in [Procs -> Segments \cup {0}] /\ usp' \in [Procs -> Int]
  BY <1>1 DEF FrameInv
<1>3. /\ uss'[running] = seg /\ usp'[running] = top
      /\ \A p \in Users \ {running} : uss'[p] = uss[p] /\ usp'[p] = usp[p]
  BY <1>1 DEF FrameInv, Users
<1>4. seg \in {u_segment(running)} \cup HopSegments
  BY DEF FrameInv, Framed
<1>5. \A p \in {running} : Framed(p)'
  BY <1>3, <1>4 DEF Framed, Segments, u_segment
<1>6. \A p \in Users \ {running} : Framed(p)'
  BY <1>3 DEF FrameInv, Framed, Segments, u_segment
<1>7. \A p, q \in Users : uss'[p] = uss'[q] => p = q
  BY <1>3 DEF FrameInv
<1>8. FrameInv'
  BY <1>2, <1>5, <1>6, <1>7 DEF FrameInv, Segments, u_segment
<1>9. StacksStay(Users \ {running}) /\ StackIs(running, top, mem'[seg].stack)
  <2>1. StackIs(running, top, mem'[seg].stack)
    BY <1>3 DEF StackIs
  <2>2. \A p \in Users \ {running} : mem'[uss'[p]] = mem[uss[p]]
    BY <1>3
  <2>3. \A p \in Users \ {running} : usp'[p] = usp[p] /\ TopOf(p)' = TopOf(p)
    BY <1>3, <2>2 DEF TopOf
  <2> QED
    BY <2>1, <2>3 DEF StacksStay
<1>10. \A p \in Users : LET image == IF p = running THEN mem'[seg] ELSE mem[uss[p]]
                        IN  ProgOf(p)' = image.prog /\ LineOf(p)' = image.line
  BY <1>3 DEF ProgOf, LineOf
<1> QED
  BY <1>8, <1>9, <1>10

(* A system call pushes its frame where the caller is and nowhere else.      *)
LEMMA Int80hKeeps ==
  ASSUME FrameInv, running \in Users, Users' \subseteq Users, int80h
  PROVE  /\ FrameInv'
         /\ \A p \in Users : ProgOf(p)' = ProgOf(p) /\ LineOf(p)' = LineOf(p)
         /\ StacksStay(Users \ {running}) /\ StackIs(running, Saved, TopOf(running))
<1>1. /\ uss[running] \in Segments /\ Saved \in Int /\ Pushed \in Images
      /\ Pushed.frame = [at |-> Saved, ds |-> uss[running],
                         es |-> uss[running], cs |-> uss[running]]
      /\ Pushed.prog = ProgOf(running) /\ Pushed.line = LineOf(running)
      /\ Pushed.stack = TopOf(running) /\ Pushed.prog \in Programs
  BY PushedFrame
<1>2. /\ usp' = [usp EXCEPT ![running] = Saved]
      /\ mem' = [mem EXCEPT ![uss[running]] = Pushed]
      /\ uss' = [uss EXCEPT ![running] = uss[running]]
  BY DEF int80h, FrameInv
<1>3. mem \in [Segments -> Images] /\ \A p \in Users : uss[p] \in Segments
  BY DEF FrameInv, Framed
<1>4. \A p \in Users \ {running} : uss[p] # uss[running]
  BY DEF FrameInv
<1>5. mem' \in [Segments -> Images] /\ mem'[uss[running]] = Pushed
  BY <1>1, <1>2, <1>3
<1>6. \A p \in Users \ {running} : mem'[uss[p]] = mem[uss[p]]
  BY <1>2, <1>3, <1>4
<1>7. /\ FrameInv'
      /\ \A p \in Users : LET image == IF p = running THEN mem'[uss[running]] ELSE mem[uss[p]]
                         IN  ProgOf(p)' = image.prog /\ LineOf(p)' = image.line
      /\ StacksStay(Users \ {running}) /\ StackIs(running, Saved, mem'[uss[running]].stack)
  BY <1>1, <1>2, <1>4, <1>5, <1>6, CallerKeeps
<1> QED
  BY <1>1, <1>5, <1>7 DEF ProgOf, LineOf

(* kexec leaves a frame of its own in the segment of its caller; the other   *)
(* segments do not change.                                                   *)
LEMMA KexecKeeps ==
  ASSUME FrameInv, running \in Users, Users' \subseteq Users,
         NEW line \in CommandLines, kexec(line)
  PROVE  /\ FrameInv'
         /\ \A p \in Users : /\ ProgOf(p)' = IF p = running THEN line.file ELSE ProgOf(p)
                            /\ LineOf(p)' = IF p = running THEN line ELSE LineOf(p)
         /\ StacksStay(Users \ {running})
         /\ StackIs(running, stkp(line) - Frame, stkp(line))
<1> DEFINE seg == uss[running]
           image == Loaded(seg, line.file, line, stkp(line))
<1>1. seg \in Segments /\ seg \in Int
  BY SegmentsAreInts DEF FrameInv, Framed
<1>2. stkp(line) \in Int
  <2>1. line.len \in Int
    BY DEF ForkExecAssumption
  <2>2. Padded(line.len) \in Int
    BY <2>1 DEF Padded
  <2> QED
    BY <1>1, <2>2 DEF stkp
<1>3. image \in Images
  BY <1>1, <1>2 DEF kexec, Loaded, Images, Frame
<1>4. /\ usp' = [usp EXCEPT ![running] = stkp(line) - Frame]
      /\ mem' = [mem EXCEPT ![seg] = image]
      /\ uss' = [uss EXCEPT ![running] = seg]
  BY DEF kexec, FrameInv
<1>5. mem \in [Segments -> Images] /\ \A p \in Users : uss[p] \in Segments
  BY DEF FrameInv, Framed
<1>6. \A p \in Users \ {running} : uss[p] # seg
  BY DEF FrameInv
<1>7. /\ image.frame = [at |-> stkp(line) - Frame, ds |-> seg, es |-> seg, cs |-> seg]
      /\ image.prog = line.file /\ image.line = line /\ line.file \in Programs
      /\ image.stack = stkp(line)
  BY DEF Loaded, kexec
<1>8. stkp(line) - Frame \in Int
  BY <1>2 DEF Frame
<1> HIDE DEF image, seg
<1>9. mem' \in [Segments -> Images] /\ mem'[seg] = image
  BY <1>1, <1>3, <1>4, <1>5
<1>10. \A p \in Users \ {running} : mem'[uss[p]] = mem[uss[p]]
  BY <1>4, <1>5, <1>6
<1>11. mem'[seg].frame = [at |-> stkp(line) - Frame, ds |-> seg, es |-> seg, cs |-> seg]
  BY <1>7, <1>9
<1>12. /\ mem'[seg].prog = line.file /\ mem'[seg].line = line /\ line.file \in Programs
       /\ mem'[seg].stack = stkp(line)
  BY <1>7, <1>9
<1>13. seg = uss[running]
  BY DEF seg
<1>14. /\ FrameInv'
       /\ \A p \in Users : LET im == IF p = running THEN mem'[seg] ELSE mem[uss[p]]
                          IN  ProgOf(p)' = im.prog /\ LineOf(p)' = im.line
       /\ StacksStay(Users \ {running})
       /\ StackIs(running, stkp(line) - Frame, mem'[seg].stack)
  BY <1>1, <1>4, <1>6, <1>8, <1>9, <1>10, <1>11, <1>12, <1>13, CallerKeeps
<1> QED
  BY <1>12, <1>14 DEF ProgOf, LineOf

(* copySegment and the three registers of the copy's frame.                  *)
LEMMA CopiedFrame ==
  ASSUME FrameInv, running \in Users, NEW seg \in Segments
  PROVE  /\ Copied(seg) \in Images
         /\ Copied(seg).frame = [at |-> Saved, ds |-> seg, es |-> seg, cs |-> seg]
         /\ Copied(seg).prog = ProgOf(running) /\ Copied(seg).line = LineOf(running)
         /\ Copied(seg).stack = TopOf(running) /\ Copied(seg).prog \in Programs
<1>1. /\ Pushed \in Images /\ Saved \in Int
      /\ Pushed.frame = [at |-> Saved, ds |-> uss[running],
                         es |-> uss[running], cs |-> uss[running]]
      /\ Pushed.prog = ProgOf(running) /\ Pushed.line = LineOf(running)
      /\ Pushed.stack = TopOf(running) /\ Pushed.prog \in Programs
  BY PushedFrame
<1>2. seg \in Int
  BY SegmentsAreInts
<1>3. PICK a, b, k : /\ Pushed = [prog |-> a, line |-> b, stack |-> k, frame |-> Pushed.frame]
                     /\ a = Pushed.prog /\ b = Pushed.line /\ k = Pushed.stack
  BY <1>1 DEF Images
<1>4. Pushed = [prog |-> a, line |-> b, stack |-> k,
                frame |-> [at |-> Saved, ds |-> uss[running],
                           es |-> uss[running], cs |-> uss[running]]]
  BY <1>1, <1>3
<1> DEFINE with(d, e, s) == [prog |-> a, line |-> b, stack |-> k,
                             frame |-> [at |-> Saved, ds |-> d, es |-> e, cs |-> s]]
<1>5. Copied(seg) = with(seg, seg, seg)
  <2>1. PICK u : u = uss[running]
    OBVIOUS
  <2>2. [with(u, u, u) EXCEPT !.frame.ds = seg] = with(seg, u, u)
    OBVIOUS
  <2>3. [with(seg, u, u) EXCEPT !.frame.es = seg] = with(seg, seg, u)
    OBVIOUS
  <2>4. [with(seg, seg, u) EXCEPT !.frame.cs = seg] = with(seg, seg, seg)
    OBVIOUS
  <2>5. Copied(seg) = [[[Pushed EXCEPT !.frame.ds = seg] EXCEPT !.frame.es = seg]
                          EXCEPT !.frame.cs = seg]
    BY DEF Copied
  <2>6. Pushed = with(u, u, u)
    BY <1>4, <2>1
  <2> HIDE DEF with
  <2> QED
    BY <2>2, <2>3, <2>4, <2>5, <2>6
<1> QED
  BY <1>1, <1>2, <1>3, <1>5 DEF Images

(* A hop to a segment nobody is in takes the frame along.                    *)
LEMMA KhopKeeps ==
  ASSUME FrameInv, running \in Users, Users' \subseteq Users,
         NEW seg \in HopSegments, khop(seg)
  PROVE  /\ FrameInv'
         /\ \A p \in Users : ProgOf(p)' = ProgOf(p) /\ LineOf(p)' = LineOf(p)
         /\ StacksStay(Users \ {running}) /\ StackIs(running, Saved, TopOf(running))
<1>1. seg \in Segments
  BY DEF Segments
<1>2. /\ Copied(seg) \in Images
      /\ Copied(seg).frame = [at |-> Saved, ds |-> seg, es |-> seg, cs |-> seg]
      /\ Copied(seg).prog = ProgOf(running) /\ Copied(seg).line = LineOf(running)
      /\ Copied(seg).stack = TopOf(running) /\ Copied(seg).prog \in Programs
      /\ uss[running] \in Segments /\ Saved \in Int /\ Pushed \in Images
  BY <1>1, CopiedFrame, PushedFrame
<1>3. /\ uss' = [uss EXCEPT ![running] = seg]
      /\ usp' = [usp EXCEPT ![running] = Saved]
      /\ mem' = [mem EXCEPT ![uss[running]] = Pushed, ![seg] = Copied(seg)]
  BY DEF khop, Hopped
<1>4. mem \in [Segments -> Images] /\ \A p \in Users : uss[p] \in Segments
  BY DEF FrameInv, Framed
<1>5. \A p \in Users : uss[p] # seg
  BY DEF khop, Users
<1>6. \A p \in Users \ {running} : uss[p] # uss[running]
  BY DEF FrameInv
<1>7. mem' \in [Segments -> Images] /\ mem'[seg] = Copied(seg)
  BY <1>1, <1>2, <1>3, <1>4, <1>5
<1>8. \A p \in Users \ {running} : mem'[uss[p]] = mem[uss[p]]
  BY <1>3, <1>4, <1>5, <1>6
<1>9. /\ FrameInv'
      /\ \A p \in Users : LET image == IF p = running THEN mem'[seg] ELSE mem[uss[p]]
                         IN  ProgOf(p)' = image.prog /\ LineOf(p)' = image.line
      /\ StacksStay(Users \ {running}) /\ StackIs(running, Saved, mem'[seg].stack)
  BY <1>1, <1>2, <1>3, <1>5, <1>7, <1>8, CallerKeeps
<1> QED
  BY <1>2, <1>7, <1>9 DEF ProgOf, LineOf

(* fork: the child's segment is nobody's, and its frame is the copied one.   *)
LEMMA ForkKeeps ==
  ASSUME FrameInv, running \in Users, fork,
         Head(freeList) \in Procs \ {0}, Head(freeList) \notin Users,
         Users' \subseteq Users \cup {Head(freeList)}
  PROVE  /\ FrameInv'
         /\ \A p \in Users \cup {Head(freeList)} :
               LET q == IF p = Head(freeList) THEN running ELSE p
               IN  ProgOf(p)' = ProgOf(q) /\ LineOf(p)' = LineOf(q)
         /\ StacksStay(Users \ {running})
         /\ StackIs(running, Saved, TopOf(running))
         /\ StackIs(Head(freeList), Saved, TopOf(running))
<1>0. PICK c, r : c = Head(freeList) /\ r = running
  OBVIOUS
<1> DEFINE s == u_segment(c)
<1>1. s \in Segments /\ s \in Int /\ c # r /\ c \in Procs /\ r \in Procs
  BY <1>0, SegmentsAreInts DEF Users
<1>2. /\ Copied(s) \in Images
      /\ Copied(s).frame = [at |-> Saved, ds |-> s, es |-> s, cs |-> s]
      /\ uss[r] \in Segments /\ Saved \in Int /\ Pushed \in Images
      /\ Pushed.frame = [at |-> Saved, ds |-> uss[r], es |-> uss[r], cs |-> uss[r]]
      /\ Pushed.prog = ProgOf(r) /\ Pushed.line = LineOf(r)
      /\ Pushed.stack = TopOf(r) /\ Pushed.prog \in Programs
      /\ Copied(s).prog = ProgOf(r) /\ Copied(s).line = LineOf(r)
      /\ Copied(s).stack = TopOf(r) /\ Copied(s).prog \in Programs
  BY <1>0, <1>1, CopiedFrame, PushedFrame
<1>3. /\ uss' = [uss EXCEPT ![c] = s]
      /\ usp' = [usp EXCEPT ![r] = Saved, ![c] = Saved]
      /\ mem' = [mem EXCEPT ![uss[r]] = Pushed, ![s] = Copied(s)]
  BY <1>0 DEF fork, ChildStack
<1>4. \A p \in Users : uss[p] # s /\ uss[p] \in Segments
  <2> TAKE p \in Users
  <2>1. uss[p] \in {u_segment(p)} \cup HopSegments /\ p \in Procs /\ p # c /\ uss[p] \in Segments
    BY <1>0 DEF FrameInv, Framed, Users
  <2>2. s \notin HopSegments
    BY <1>1, HopsElsewhere
  <2> QED
    BY <1>1, <2>1, <2>2, SegmentsDiffer
<1>5. \A p \in Users \ {r} : uss[p] # uss[r]
  BY <1>0 DEF FrameInv
<1>6. /\ uss \in [Procs -> Segments \cup {0}] /\ usp \in [Procs -> Int]
      /\ mem \in [Segments -> Images] /\ Users \subseteq Procs
  BY DEF FrameInv, Users
<1>7. c \notin Users /\ r \in Users /\ Users' \subseteq Users \cup {c}
  BY <1>0
<1>8. u_segment(c) = s
  OBVIOUS
<1> HIDE DEF s
<1>9. /\ uss' \in [Procs -> Segments \cup {0}] /\ usp' \in [Procs -> Int]
      /\ mem' \in [Segments -> Images]
  BY <1>1, <1>2, <1>3, <1>6
<1>10. /\ uss'[c] = s /\ usp'[c] = Saved /\ mem'[s] = Copied(s)
       /\ uss'[r] = uss[r] /\ usp'[r] = Saved /\ mem'[uss[r]] = Pushed
       /\ \A p \in Users \ {r} :
             uss'[p] = uss[p] /\ usp'[p] = usp[p] /\ mem'[uss[p]] = mem[uss[p]]
  BY <1>1, <1>2, <1>3, <1>4, <1>5, <1>6, <1>7
<1>11. Framed(c)'
  BY <1>1, <1>2, <1>8, <1>10 DEF Framed, Segments, u_segment
<1>12. Framed(r)'
  <2>1. uss[r] \in {u_segment(r)} \cup HopSegments
    BY <1>7 DEF FrameInv, Framed
  <2> QED
    BY <1>2, <1>10, <2>1 DEF Framed, Segments, u_segment
<1>13. \A p \in Users \ {r} : Framed(p)'
  BY <1>10 DEF FrameInv, Framed, Segments, u_segment
<1>14. \A p, q \in Users \cup {c} : uss'[p] = uss'[q] => p = q
  BY <1>4, <1>7, <1>10 DEF FrameInv
<1>15. FrameInv'
  BY <1>7, <1>9, <1>11, <1>12, <1>13, <1>14 DEF FrameInv, Segments, u_segment
<1>16. \A p \in Users \cup {c} : LET q == IF p = c THEN r ELSE p
                                IN  ProgOf(p)' = ProgOf(q) /\ LineOf(p)' = LineOf(q)
  BY <1>2, <1>7, <1>10 DEF ProgOf, LineOf
<1>17. /\ StacksStay(Users \ {r})
       /\ StackIs(r, Saved, TopOf(r)) /\ StackIs(c, Saved, TopOf(r))
  BY <1>2, <1>10 DEF StacksStay, StackIs, TopOf
<1> QED
  BY <1>0, <1>15, <1>16, <1>17

-----------------------------------------------------------------------------
(* Who is a user after a step.                                               *)
LEMMA KforkMakesOne ==
  ASSUME KInv, kfork
  PROVE  /\ Head(freeList) \in Procs \ {0} /\ Head(freeList) \notin Users
         /\ Users' = Users \cup {Head(freeList)}
<1>1. Sane /\ Agree
  BY TwoHalves
<1>2. freeList # << >> /\ freeList \in Seq(Procs) /\ IsInjective(freeList)
  BY <1>1 DEF kfork, Agree, Kept
<1>3. PICK c : c = Head(freeList)
  OBVIOUS
<1>4. Dequeued(Procs, freeList, priority, c, Tail(freeList))
  BY <1>2, <1>3, DequeueProperties
<1>5. c \in Procs /\ c \in Range(freeList)
  BY <1>2, <1>4 DEF Dequeued
<1>6. status[c] = "FREE" /\ c # 0
  BY <1>1, <1>5 DEF Agree, Kept, Sane
<1>7. \A p \in Procs : status'[p] = IF p = c THEN "READY" ELSE status[p]
  BY <1>1, <1>3, <1>5 DEF kfork, dequeue, Agree, Kept
<1> QED
  BY <1>3, <1>5, <1>6, <1>7 DEF Users

(* Without a fork or a burial the same processes have an image.              *)
LEMMA SameUsers ==
  ASSUME KInv, KInv', UNCHANGED freeList
  PROVE  Users' = Users
<1>1. Agree /\ Agree'
  BY TwoHalves, PTL
<1>2. \A p \in Procs : (status[p] = "FREE" <=> p \in Range(freeList))
                    /\ (status'[p] = "FREE" <=> p \in Range(freeList))
  BY <1>1 DEF Agree, Kept
<1> QED
  BY <1>2 DEF Users

(* A burial takes one process from them.                                     *)
LEMMA BurialUsers ==
  ASSUME KInv, LayToRest
  PROVE  Users' = Users \ {Min(Dead(running))}
<1>1. Agree
  BY TwoHalves
<1>2. status' = [status EXCEPT ![Min(Dead(running))] = "FREE"]
  BY DEF LayToRest, Release
<1> QED
  BY <1>1, <1>2 DEF Users, Agree, Kept

(* Whoever is at the menu is a user, and whoever waits is one.               *)
LEMMA CallerIsUser ==
  ASSUME KInv, AtMenu
  PROVE  running \in Users
<1>1. Sane
  BY TwoHalves
<1> QED
  BY <1>1 DEF Sane, AtMenu, AtPrompt, Users

(* The results of system calls stay numbers when a child is buried,          *)
LEMMA BuriedTyped ==
  ASSUME SysTyped, Buried
  PROVE  retval' \in [Procs -> Int]
<1>1. CASE Dead(running) = {}
  BY <1>1 DEF Buried, SysTyped
<1>2. CASE Dead(running) # {}
  <2>1. Min(Dead(running)) \in Int
    BY <1>2, FirstDead DEF Dead, Children, Procs
  <2> QED
    BY <1>2, <2>1 DEF Buried, Returns, SysTyped
<1> QED
  BY <1>1, <1>2

(* and when any other result is stored.                                      *)
LEMMA ResultTyped ==
  ASSUME SysTyped, NEW p, NEW r \in Int, retval' = [retval EXCEPT ![p] = r]
  PROVE  retval' \in [Procs -> Int]
BY DEF SysTyped

MemInv == FrameInv /\ SysTyped

(* The first state has no process with an image.                             *)
LEMMA MemStarts == MemInit => MemInv
<1> SUFFICES ASSUME MemInit PROVE MemInv
  OBVIOUS
<1>1. \A p \in Procs : p \notin Users
  BY DEF MemInit, SysInit, Init, Users
<1>2. Users = {}
  BY <1>1 DEF Users
<1>3. \A s \in Segments : Loaded(s, "none", NoLine, Frame) \in Images
  BY SegmentsAreInts DEF Loaded, Images, Frame
<1>4. mem \in [Segments -> Images]
  BY <1>3 DEF MemInit, MemStart
<1> QED
  BY <1>2, <1>4 DEF MemInit, MemStart, SysInit, SysStart, MemInv, FrameInv, SysTyped

(* The steps of main keep the invariant of segments and frames;              *)
LEMMA BootKeeps ==
  ASSUME KInv, P1First, MemInv, KInv', Boot
  PROVE  MemInv'
<1>1. CASE MainFork /\ Forked(1) /\ kforkU1(1)
  <2>1. Head(freeList) = 1
    BY <1>1 DEF MainFork, P1First
  <2>2. kfork
    BY <1>1 DEF MainFork
  <2>3. 1 \in Procs \ {0} /\ 1 \notin Users /\ Users' \subseteq Users \cup {1}
    BY <2>1, <2>2, KforkMakesOne
  <2>4. FrameInv'
    BY <1>1, <2>3, Kfork1Keeps DEF MemInv
  <2> QED
    <3>1. umode \in [Procs -> BOOLEAN] /\ retval \in [Procs -> Int]
      BY DEF MemInv, SysTyped
    <3>2. umode' = [umode EXCEPT ![1] = FALSE] /\ retval' = [retval EXCEPT ![1] = 0]
      BY <1>1 DEF Forked, InBody
    <3>3. umode' \in [Procs -> BOOLEAN]
      BY <3>1, <3>2
    <3>4. retval' \in [Procs -> Int]
      <4>1. PICK z : z = 0 /\ retval' = [retval EXCEPT ![1] = z]
        BY <3>2
      <4>2. z \in Int
        BY <4>1
      <4> QED
        BY <4>1, <4>2, ResultTyped DEF MemInv
    <3> QED
      BY <2>4, <3>3, <3>4 DEF MemInv, SysTyped
<1>2. CASE MainSwitch /\ UNCHANGED <<sysVars, memVars>>
  <2>1. Users' \subseteq Users
    BY <1>2, SameUsers DEF MainSwitch
  <2> QED
    BY <1>2, <2>1, AloneKeeps DEF MemInv, SysTyped, sysVars
<1> QED
  BY <1>1, <1>2 DEF Boot

(* so do the commands of body,                                               *)
LEMMA BodyKeeps ==
  ASSUME KInv, MemInv, KInv', Body
  PROVE  MemInv'
<1>1. CASE do_kfork /\ kforkU1(Head(freeList))
  <2>1. kfork /\ Forked(Head(freeList))
    BY <1>1 DEF do_kfork, DoKfork
  <2>2. FrameInv'
    BY <1>1, <2>1, KforkMakesOne, Kfork1Keeps DEF MemInv
  <2> QED
    BY <2>1, <2>2, KforkMakesOne DEF MemInv, SysTyped, Forked, InBody
<1>2. CASE Commands /\ UNCHANGED memVars
  <2>1. UNCHANGED freeList \/ LayToRest
    BY <1>2 DEF Commands, do_tswitch, do_stop, do_continue, do_sleep, do_wakeup,
         do_exit, do_wait, do_chpriority, goUmode, DoTswitch, DoStop, DoContinue,
         DoSleep, DoWakeup, DoExit, kexit, DoWait, SleepOnSelf, DoChpriority, vars
  <2>2. Users' \subseteq Users
    BY <2>1, SameUsers, BurialUsers
  <2>3. UNCHANGED retval /\ (UNCHANGED umode \/ umode' = [umode EXCEPT ![running] = TRUE])
    BY <1>2 DEF Commands, do_tswitch, do_stop, do_continue, do_sleep, do_wakeup,
         do_exit, do_wait, do_chpriority, goUmode, sysVars
  <2> QED
    BY <1>2, <2>2, <2>3, AloneKeeps DEF MemInv, SysTyped
<1> QED
  BY <1>1, <1>2 DEF Body

(* A call that does not fork.                                                *)
LEMMA PlainCallKeeps ==
  ASSUME KInv, MemInv, KInv', AtMenu, int80h, UNCHANGED freeList \/ LayToRest,
         UNCHANGED umode, retval' \in [Procs -> Int]
  PROVE  MemInv'
<1>1. running \in Users /\ Users' \subseteq Users
  BY CallerIsUser, SameUsers, BurialUsers
<1> QED
  BY <1>1, Int80hKeeps DEF MemInv, SysTyped

(* the system calls,                                                         *)
LEMMA CallKeeps ==
  ASSUME KInv, MemInv, KInv', AtMenu, NEW a, kcinth(a)
  PROVE  MemInv'
<1>1. CASE (kgetpid \/ Informs \/ Fails) /\ int80h
  <2>1. UNCHANGED <<freeList, umode>> /\ \E r \in Int : Returns(r)
    <3>1. running \in Int
      BY CallerIsUser DEF Users, Procs
    <3> QED
      BY <1>1, <3>1 DEF kgetpid, Informs, Fails, vars
  <2>2. retval' \in [Procs -> Int]
    BY <2>1 DEF Returns, MemInv, SysTyped
  <2> QED
    BY <1>1, <2>1, <2>2, PlainCallKeeps
<1>2. CASE fork
  <2>1. kfork
    BY <1>2 DEF fork
  <2>2. FrameInv'
    BY <1>2, <2>1, KforkMakesOne, CallerIsUser, ForkKeeps DEF MemInv
  <2>3. Head(freeList) \in Int
    BY <2>1, KforkMakesOne DEF Procs
  <2>4. umode' \in [Procs -> BOOLEAN] /\ retval' \in [Procs -> Int]
    <3>1. umode \in [Procs -> BOOLEAN] /\ retval \in [Procs -> Int]
      BY DEF MemInv, SysTyped
    <3>2. /\ umode' = [umode EXCEPT ![Head(freeList)] = FALSE]
          /\ retval' = [retval EXCEPT ![running] = Head(freeList), ![Head(freeList)] = 0]
      BY <1>2 DEF fork, InBody, ChildResult
    <3>3. umode' \in [Procs -> BOOLEAN]
      BY <3>1, <3>2
    <3>4. PICK z : z = 0 /\ retval' = [retval EXCEPT ![running] = Head(freeList), ![Head(freeList)] = z]
      BY <3>2
    <3>5. z \in Int
      BY <3>4
    <3>6. retval' \in [Procs -> Int]
      BY <2>3, <3>1, <3>4, <3>5
    <3> QED
      BY <3>3, <3>6
  <2> QED
    BY <2>2, <2>4 DEF MemInv, SysTyped
<1>3. CASE ktswitch /\ int80h
  BY <1>3, PlainCallKeeps DEF ktswitch, DoTswitch, sysVars, MemInv, SysTyped
<1>4. CASE kkwait /\ int80h
  <2>1. UNCHANGED freeList \/ LayToRest
    BY <1>4 DEF kkwait, DoWait, SleepOnSelf, vars
  <2>2. retval' \in [Procs -> Int]
    BY <1>4, BuriedTyped DEF kkwait, Returns, MemInv, SysTyped
  <2> QED
    BY <1>4, <2>1, <2>2, PlainCallKeeps DEF kkwait
<1>5. CASE (\E value \in ExitValues : kkexit(value)) /\ int80h
  <2>1. UNCHANGED <<freeList, umode>> /\ retval' \in [Procs -> Int]
    BY <1>5 DEF kkexit, kexit, Returns, vars, sysVars, MemInv, SysTyped
  <2> QED
    BY <1>5, <2>1, PlainCallKeeps
<1>6. CASE \E line \in CommandLines : kexec(line)
  <2>1. PICK line \in CommandLines : kexec(line)
    BY <1>6
  <2>2. UNCHANGED <<freeList, umode>> /\ \E r \in {0, -1} : Returns(r)
    BY <2>1 DEF kexec, vars
  <2>3. FrameInv'
    BY <2>1, <2>2, CallerIsUser, SameUsers, KexecKeeps DEF MemInv
  <2>4. retval' \in [Procs -> Int]
    <3>1. PICK r : r \in {0, -1} /\ retval' = [retval EXCEPT ![running] = r]
      BY <2>2 DEF Returns
    <3>2. r \in Int
      BY <3>1
    <3> QED
      BY <3>1, <3>2, ResultTyped DEF MemInv
  <2> QED
    BY <2>2, <2>3, <2>4 DEF MemInv, SysTyped
<1>7. CASE \E seg \in HopSegments : khop(seg)
  <2>1. PICK seg \in HopSegments : khop(seg)
    BY <1>7
  <2>2. UNCHANGED <<freeList, umode>> /\ Returns(0)
    BY <2>1 DEF khop, vars
  <2>3. FrameInv'
    BY <2>1, <2>2, CallerIsUser, SameUsers, KhopKeeps DEF MemInv
  <2>4. retval' \in [Procs -> Int]
    <3>1. PICK r : r = 0 /\ retval' = [retval EXCEPT ![running] = r]
      BY <2>2 DEF Returns
    <3>2. r \in Int
      BY <3>1
    <3> QED
      BY <3>1, <3>2, ResultTyped DEF MemInv
  <2> QED
    BY <2>2, <2>3, <2>4 DEF MemInv, SysTyped
<1>8. Fails => int80h
  BY DEF Fails
<1> QED
  BY <1>1, <1>2, <1>3, <1>4, <1>5, <1>6, <1>7, <1>8 DEF kcinth

(* the turn of the loop of kwait,                                            *)
LEMMA WaiterKeeps ==
  ASSUME KInv, MemInv, KInv', KwaitGoesOn, UNCHANGED memVars
  PROVE  MemInv'
<1>1. UNCHANGED freeList \/ LayToRest
  BY DEF KwaitGoesOn, WaitAgain, SleepOnSelf
<1>2. Users' \subseteq Users
  BY <1>1, SameUsers, BurialUsers
<1>3. retval' \in [Procs -> Int] /\ UNCHANGED umode
  BY BuriedTyped DEF KwaitGoesOn, MemInv, SysTyped
<1> QED
  BY <1>2, <1>3, AloneKeeps DEF MemInv, SysTyped

(* The steps of lab 4, without the menu's restriction of what may be called. *)
MemStep ==
    \/ Boot
    \/ Body
    \/ AtMenu /\ \E a : kcinth(a)
    \/ KwaitGoesOn /\ UNCHANGED memVars
    \/ UNCHANGED memAll

(* What MemNext allows is such a step,                                       *)
LEMMA NextIsMemStep == [MemNext]_memAll => MemStep
BY DEF MemNext, MemStep, menu, wrapper

(* and every such step keeps the invariant of segments and frames.           *)
LEMMA MemStepKeeps == (KInv /\ P1First /\ MemInv /\ KInv' /\ MemStep) => MemInv'
<1> SUFFICES ASSUME KInv, P1First, MemInv, KInv', MemStep PROVE MemInv'
  OBVIOUS
<1>1. CASE Boot
  BY <1>1, BootKeeps
<1>2. CASE Body
  BY <1>2, BodyKeeps
<1>3. CASE AtMenu /\ \E a : kcinth(a)
  BY <1>3, CallKeeps
<1>4. CASE KwaitGoesOn /\ UNCHANGED memVars
  BY <1>4, WaiterKeeps
<1>5. CASE UNCHANGED memAll
  <2>1. UNCHANGED memVars /\ UNCHANGED sysVars /\ UNCHANGED freeList
    BY <1>5 DEF memAll, vars
  <2>2. Users' \subseteq Users
    BY <2>1, SameUsers
  <2> QED
    BY <2>1, <2>2, AloneKeeps DEF MemInv, SysTyped, sysVars
<1> QED
  BY <1>1, <1>2, <1>3, <1>4, <1>5 DEF MemStep

(* What lab 4 keeps.                                                         *)
LEMMA MemInvariance == MemSpec => [](KInv /\ P1First /\ MemInv)
<1>1. FamilyInv => P1First
  BY DEF FamilyInv
<1>2. MemSpec => [](KInv /\ P1First)
  BY <1>1, RunsProcKernel, KInvariance, FamilyInvariance, PTL
<1> QED
  BY <1>2, MemStarts, NextIsMemStep, MemStepKeeps, PTL DEF MemSpec

(* In it every frame is where user mode will look for it.                    *)
LEMMA MemIsFramed == (KInv /\ MemInv) => FramesAreOwn
<1> SUFFICES ASSUME KInv, MemInv PROVE FramesAreOwn
  OBVIOUS
<1>1. MemTypeOK
  BY DEF KInv, MemInv, FrameInv, SysTyped, MemTypeOK
<1> QED
  BY <1>1 DEF MemInv, FrameInv, Framed, FramesAreOwn

(* A process that goes to user mode goes there with a frame of its own       *)
(* segment: through kfork, fork, exec, hop, switches and reused PROCs, no    *)
(* process ever writes into the segment that another one is in.              *)
THEOREM FramesStayOwn == MemSpec => []FramesAreOwn
BY MemIsFramed, MemInvariance, PTL

-----------------------------------------------------------------------------
(* What must hold of the sizes for a stack to fit the segment: kfork puts    *)
(* the end of a stack at (pid + 2) * SEGSIZE, exec puts it just below the    *)
(* end of its segment but counts from address 0, and INT 80 needs room for a *)
(* frame below what the program has pushed.                                  *)
StacksFit ==
    /\ (NPROC + 1) * SEGSIZE + TopShift <= 16 * SEGSIZE
    /\ \A s \in Segments : s + SEGSIZE <= 16 * SEGSIZE
    /\ Depth + Frame + 34 <= SEGSIZE

(* Where kfork and exec put the end of a stack,                              *)
TopsOfKfork == {n_segment(q) : q \in Procs \ {0}}
TopOfExec(s, line) == s + SEGSIZE - Padded(line.len) - 2
Tops == TopsOfKfork \cup {TopOfExec(x[1], x[2]) : x \in Segments \X CommandLines}

(* with a frame at the end of it, or where INT 80 pushed one.                *)
SitsAt(sp, top) == top \in Tops /\ sp \in {top - Frame, top - Depth - Frame}

Stacks == \A p \in Users : SitsAt(usp[p], TopOf(p))

LEMMA TopsStay == Tops' = Tops
  BY DEF Tops, TopsOfKfork, TopOfExec, n_segment, Segments, u_segment, Padded, Procs

(* Who keeps a stack, and who gets one.                                      *)
LEMMA StacksKept ==
  ASSUME Stacks, NEW A, StacksStay(A), A \subseteq Users,
         \A p \in Users' \ A : \E sp, top : StackIs(p, sp, top) /\ SitsAt(sp, top)
  PROVE  Stacks'
<1> SUFFICES ASSUME NEW p \in Users' PROVE SitsAt(usp'[p], TopOf(p)')
  BY TopsStay DEF Stacks, SitsAt
<1>1. CASE p \in A
  BY <1>1 DEF Stacks, StacksStay
<1>2. CASE p \notin A
  BY <1>2 DEF StackIs, TopOf
<1> QED
  BY <1>1, <1>2

(* A segment begins at a number of paragraphs.                               *)
LEMMA SegmentsAreNat == Segments \subseteq Nat
<1>1. \A p \in Procs : u_segment(p) \in Nat
  <2> TAKE p \in Procs
  <2>1. p + 1 \in Nat /\ SEGSIZE \in Nat /\ SegShift \in Nat
    BY DEF Procs
  <2>2. (p + 1) * SEGSIZE \in Nat
    BY <2>1
  <2> QED
    BY <2>1, <2>2 DEF u_segment
<1> QED
  BY <1>1 DEF Segments

(* Where the stacks of kfork and of exec may be.                             *)
LEMMA TopsFit ==
  ASSUME StacksFit, NEW top \in Tops
  PROVE  top \in Depth + Frame .. 16 * SEGSIZE
<1>1. ASSUME NEW p \in Procs \ {0} PROVE n_segment(p) \in Depth + Frame .. 16 * SEGSIZE
  <2>1. p \in 1 .. NPROC - 1 /\ SEGSIZE \in Nat /\ TopShift \in Nat /\ Depth \in Nat
    BY DEF Procs
  <2>2. PICK d \in Nat : NPROC + 1 = p + 2 + d
    BY <2>1
  <2>3. PICK t, most, dd, pp : /\ t = (p + 2) * SEGSIZE /\ most = (NPROC + 1) * SEGSIZE
                               /\ dd = d * SEGSIZE /\ pp = (p + 1) * SEGSIZE
    OBVIOUS
  <2>4. dd \in Nat /\ pp \in Nat
    BY <2>1, <2>2, <2>3
  <2>5. most = t + dd /\ t = pp + SEGSIZE
    BY <2>1, <2>2, <2>3
  <2>6. n_segment(p) = t + TopShift /\ most + TopShift <= 16 * SEGSIZE
    BY <2>3 DEF n_segment, StacksFit
  <2>7. Depth + Frame + 34 <= SEGSIZE
    BY DEF StacksFit
  <2> QED
    BY <2>1, <2>4, <2>5, <2>6, <2>7 DEF Frame
<1>2. ASSUME NEW s \in Segments, NEW line \in CommandLines
      PROVE  TopOfExec(s, line) \in Depth + Frame .. 16 * SEGSIZE
  <2>1. line.len \in 1 .. 31
    OBVIOUS
  <2>2. Padded(line.len) \in 0 .. 32
    BY <2>1 DEF Padded
  <2>3. s \in Nat
    BY SegmentsAreNat
  <2> QED
    BY <2>2, <2>3 DEF StacksFit, Frame, TopOfExec
<1> QED
  BY <1>1, <1>2 DEF Tops, TopsOfKfork

(* It is what the run checks.                                                *)
LEMMA StacksInside == (Stacks /\ StacksFit) => StackInOwnSegment
<1> SUFFICES ASSUME Stacks, StacksFit, NEW p \in Users
             PROVE  usp[p] >= 0 /\ usp[p] + Frame <= 16 * SEGSIZE
  BY DEF StackInOwnSegment
<1>1. TopOf(p) \in Depth + Frame .. 16 * SEGSIZE
  BY TopsFit DEF Stacks, SitsAt
<1> QED
  BY <1>1 DEF Stacks, SitsAt, Frame

(* The sizes of 5-midterm, with its sixteen PROCs; segments are typed to hop *)
(* to below 0xF000, and a program has pushed less than its segment number.   *)
Lab5 ==
    /\ NPROC = 16 /\ SEGSIZE = 2048 /\ SegShift = 4096 /\ TopShift = 6144
    /\ Depth + Frame + 34 <= SEGSIZE
    /\ \A seg \in HopSegments : seg <= 61440

(* The ends of the stacks that kfork gives P12 to P15.                       *)
FarTops == {n_segment(q) : q \in 12 .. 15}

LEMMA TopsOfLab5 ==
  ASSUME Lab5, NEW top \in Tops
  PROVE  /\ top \in Int /\ Depth + Frame <= top /\ top <= 65535
         /\ top > 32768 =>
               \/ top \in FarTops
               \/ \E s \in Segments, line \in CommandLines : s > 30720 /\ top = TopOfExec(s, line)
<1>1. Depth \in Nat /\ Depth + Frame <= 2014
  BY DEF Lab5, Frame
<1>2. ASSUME NEW q \in Procs \ {0}, top = n_segment(q)
      PROVE  /\ top \in Int /\ 12288 <= top /\ top <= 65535
             /\ top > 32768 => top \in FarTops
  <2>1. q \in Int /\ 1 <= q /\ q <= 15
    BY DEF Procs, Lab5
  <2>2. top = (q + 2) * 2048 + 6144
    BY <1>2 DEF n_segment, Lab5
  <2>3. top \in Int /\ 12288 <= top /\ top <= 65535 /\ (top > 32768 => q >= 12)
    BY <2>1, <2>2
  <2>4. q >= 12 => top \in FarTops
    BY <1>2, <2>1 DEF FarTops
  <2> QED
    BY <2>2, <2>3, <2>4
<1>3. ASSUME NEW s \in Segments, NEW line \in CommandLines, top = TopOfExec(s, line)
      PROVE  /\ top \in Int /\ 2014 <= top /\ top <= 65535
             /\ top > 32768 => s > 30720
  <2>1. PICK n : n = Padded(line.len)
    OBVIOUS
  <2>2. n \in Int /\ 0 <= n /\ n <= 32
    BY <2>1 DEF Padded
  <2>3. s \in Int /\ 0 <= s /\ s <= 61440
    <3>1. s \in Nat
      BY SegmentsAreNat
    <3>2. CASE s \in HopSegments
      BY <3>1, <3>2 DEF Lab5
    <3>3. CASE s \notin HopSegments
      <4>1. PICK q \in Procs \ {0} : s = u_segment(q)
        BY <3>3 DEF Segments
      <4>2. q \in Int /\ q <= 15
        BY DEF Procs, Lab5
      <4>3. s = (q + 1) * 2048 + 4096
        BY <4>1 DEF u_segment, Lab5
      <4>4. s <= 61440
        BY <4>2, <4>3
      <4> QED
        BY <3>1, <4>4
    <3> QED
      BY <3>2, <3>3
  <2>4. top = s + 2048 - n - 2
    BY <1>3, <2>1 DEF TopOfExec, Lab5
  <2> QED
    BY <2>2, <2>3, <2>4
<1>4. CASE top \in TopsOfKfork
  <2>1. PICK q \in Procs \ {0} : top = n_segment(q)
    BY <1>4 DEF TopsOfKfork
  <2>2. top \in Int /\ 12288 <= top /\ top <= 65535 /\ (top > 32768 => top \in FarTops)
    BY <1>2, <2>1
  <2>3. Depth + Frame <= top
    BY <1>1, <2>2 DEF Frame
  <2> QED
    BY <2>2, <2>3
<1>5. CASE top \notin TopsOfKfork
  <2>1. PICK s \in Segments, line \in CommandLines : top = TopOfExec(s, line)
    BY <1>5 DEF Tops
  <2>2. top \in Int /\ 2014 <= top /\ top <= 65535 /\ (top > 32768 => s > 30720)
    BY <1>3, <2>1
  <2>3. Depth + Frame <= top
    BY <1>1, <2>2 DEF Frame
  <2> QED
    BY <2>1, <2>2, <2>3
<1> QED
  BY <1>4, <1>5

(* How far a stack goes there.                                               *)
Lab5Reach(p) ==
    /\ usp[p] >= 0 /\ usp[p] + Frame < 65536
    /\ TopOf(p) \in FarTops => usp[p] + Frame > 16 * SEGSIZE
    /\ usp[p] + Frame > 16 * SEGSIZE =>
          \/ TopOf(p) \in FarTops
          \/ \E s \in Segments, line \in CommandLines :
                s > 30720 /\ TopOf(p) = TopOfExec(s, line)

LEMMA StacksOfLab5 == Stacks => (Lab5 => \A p \in Users : Lab5Reach(p))
<1> SUFFICES ASSUME Stacks, Lab5, NEW p \in Users PROVE Lab5Reach(p)
  OBVIOUS
<1>1. PICK top : top = TopOf(p)
  OBVIOUS
<1>2. top \in Tops /\ usp[p] \in {top - Frame, top - Depth - Frame}
  BY <1>1 DEF Stacks, SitsAt
<1>3. Depth \in Nat /\ Depth <= 1990 /\ 16 * SEGSIZE = 32768
  BY DEF Lab5, Frame
<1>4. top \in Int /\ Depth + Frame <= top /\ top <= 65535
  BY <1>2, TopsOfLab5
<1>5. /\ usp[p] \in Int /\ usp[p] >= 0 /\ usp[p] + Frame < 65536
      /\ usp[p] + Frame <= top /\ top <= usp[p] + Frame + 1990
  BY <1>2, <1>3, <1>4 DEF Frame
<1>6. top \in FarTops => top >= 34816
  <2> SUFFICES ASSUME NEW q \in 12 .. 15, top = n_segment(q) PROVE top >= 34816
    BY DEF FarTops
  <2>1. top = (q + 2) * 2048 + 6144
    BY DEF n_segment, Lab5
  <2> QED
    BY <2>1
<1>7. top \in FarTops => usp[p] + Frame > 16 * SEGSIZE
  BY <1>3, <1>4, <1>5, <1>6 DEF Frame
<1>8. usp[p] + Frame > 16 * SEGSIZE => top > 32768
  BY <1>3, <1>4, <1>5 DEF Frame
<1>9. top > 32768 => \/ top \in FarTops
                     \/ \E s \in Segments, line \in CommandLines :
                           s > 30720 /\ top = TopOfExec(s, line)
  BY <1>2, TopsOfLab5
<1> QED
  BY <1>1, <1>5, <1>7, <1>8, <1>9 DEF Lab5Reach

(* A frame that INT 80 pushes on such a stack.                               *)
LEMMA SavedSits ==
  ASSUME Stacks, running \in Users
  PROVE  SitsAt(Saved, TopOf(running))
BY DEF Stacks, SitsAt, Saved, TopOf, Frame

(* A call that pushes a frame for its caller, or leaves the segments alone.  *)
LEMMA PushKeepsStacks ==
  ASSUME Stacks, running \in Users, Users' \subseteq Users,
         StacksStay(Users \ {running}), StackIs(running, Saved, TopOf(running))
  PROVE  Stacks'
<1>1. SitsAt(Saved, TopOf(running))
  BY SavedSits
<1>2. \A p \in Users' \ (Users \ {running}) : p = running
  OBVIOUS
<1> QED
  BY <1>1, <1>2, StacksKept

(* Where the segments are left alone the stacks are.                         *)
LEMMA AloneKeepsStacks ==
  ASSUME Stacks, Users' \subseteq Users, UNCHANGED memVars
  PROVE  Stacks'
<1>1. StacksStay(Users) /\ Users' \ Users = {}
  BY DEF memVars, StacksStay, TopOf
<1> QED
  BY <1>1, StacksKept

(* A PROC that kfork fills.                                                  *)
LEMMA KforkKeepsStacks ==
  ASSUME Stacks, KInv, FrameInv, kfork, kforkU1(Head(freeList))
  PROVE  Stacks'
<1>1. PICK c : c = Head(freeList)
  OBVIOUS
<1>2. c \in Procs \ {0} /\ c \notin Users /\ Users' = Users \cup {c}
  BY <1>1, KforkMakesOne
<1>3. StacksStay(Users) /\ StackIs(c, n_segment(c) - Frame, n_segment(c))
  BY <1>1, <1>2, Kfork1Keeps
<1>4. SitsAt(n_segment(c) - Frame, n_segment(c))
  BY <1>2 DEF SitsAt, Tops, TopsOfKfork
<1>5. \A p \in Users' \ Users : p = c
  BY <1>2
<1> QED
  BY <1>3, <1>4, <1>5, StacksKept

(* A child's stack is its parent's.                                          *)
LEMMA ForkKeepsStacks ==
  ASSUME Stacks, KInv, FrameInv, running \in Users, fork
  PROVE  Stacks'
<1>1. PICK c : c = Head(freeList)
  OBVIOUS
<1>2. c \in Procs \ {0} /\ c \notin Users /\ Users' = Users \cup {c}
  BY <1>1, KforkMakesOne DEF fork
<1>3. /\ StacksStay(Users \ {running})
      /\ StackIs(running, Saved, TopOf(running)) /\ StackIs(c, Saved, TopOf(running))
  BY <1>1, <1>2, ForkKeeps
<1>4. SitsAt(Saved, TopOf(running))
  BY SavedSits
<1>5. \A p \in Users' \ (Users \ {running}) : p \in {running, c}
  BY <1>2
<1> QED
  BY <1>3, <1>4, <1>5, StacksKept

(* exec gives its caller a new stack.                                        *)
LEMMA KexecKeepsStacks ==
  ASSUME Stacks, FrameInv, running \in Users, Users' \subseteq Users,
         NEW line \in CommandLines, kexec(line)
  PROVE  Stacks'
<1>1. /\ StacksStay(Users \ {running})
      /\ StackIs(running, stkp(line) - Frame, stkp(line))
  BY KexecKeeps
<1>2. uss[running] \in Segments
  BY DEF FrameInv, Framed
<1>3. SitsAt(stkp(line) - Frame, stkp(line))
  <2>1. stkp(line) = TopOfExec(uss[running], line) /\ <<uss[running], line>> \in Segments \X CommandLines
    BY <1>2 DEF stkp, TopOfExec
  <2>2. stkp(line) \in Tops
    BY <2>1 DEF Tops
  <2> QED
    BY <2>2 DEF SitsAt
<1>4. \A p \in Users' \ (Users \ {running}) : p = running
  OBVIOUS
<1> QED
  BY <1>1, <1>3, <1>4, StacksKept

(* Each system call keeps the stacks.                                        *)
LEMMA CallKeepsStacks ==
  ASSUME KInv, MemInv, KInv', Stacks, AtMenu, NEW a, kcinth(a)
  PROVE  Stacks'
<1>1. running \in Users /\ FrameInv
  BY CallerIsUser DEF MemInv
<1>2. ASSUME int80h, UNCHANGED freeList \/ LayToRest PROVE Stacks'
  <2>1. Users' \subseteq Users
    BY <1>2, SameUsers, BurialUsers
  <2> QED
    BY <1>1, <1>2, <2>1, Int80hKeeps, PushKeepsStacks
<1>3. CASE (kgetpid \/ Informs \/ Fails \/ ktswitch \/ \E value \in ExitValues : kkexit(value))
           /\ int80h
  <2>1. UNCHANGED freeList
    BY <1>3 DEF kgetpid, Informs, Fails, ktswitch, DoTswitch, kkexit, kexit, vars
  <2> QED
    BY <1>2, <1>3, <2>1
<1>4. CASE kkwait /\ int80h
  <2>1. UNCHANGED freeList \/ LayToRest
    BY <1>4 DEF kkwait, DoWait, SleepOnSelf, vars
  <2> QED
    BY <1>2, <1>4, <2>1
<1>5. CASE fork
  BY <1>1, <1>5, ForkKeepsStacks
<1>6. CASE \E line \in CommandLines : kexec(line)
  <2>1. PICK line \in CommandLines : kexec(line)
    BY <1>6
  <2>2. Users' = Users
    BY <2>1, SameUsers DEF kexec, vars
  <2> QED
    BY <1>1, <2>1, <2>2, KexecKeepsStacks
<1>7. CASE \E seg \in HopSegments : khop(seg)
  <2>1. PICK seg \in HopSegments : khop(seg)
    BY <1>7
  <2>2. Users' = Users
    BY <2>1, SameUsers DEF khop, vars
  <2>3. StacksStay(Users \ {running}) /\ StackIs(running, Saved, TopOf(running))
    BY <1>1, <2>1, <2>2, KhopKeeps
  <2> QED
    BY <1>1, <2>2, <2>3, PushKeepsStacks
<1>8. Fails => int80h
  BY DEF Fails
<1> QED
  BY <1>3, <1>4, <1>5, <1>6, <1>7, <1>8 DEF kcinth

(* Every step keeps them.                                                    *)
LEMMA MemStepKeepsStacks ==
  (KInv /\ P1First /\ MemInv /\ Stacks /\ KInv' /\ MemStep) => Stacks'
<1> SUFFICES ASSUME KInv, P1First, MemInv, Stacks, KInv', MemStep PROVE Stacks'
  OBVIOUS
<1>1. FrameInv
  BY DEF MemInv
<1>2. CASE kfork /\ kforkU1(Head(freeList))
  BY <1>1, <1>2, KforkKeepsStacks
<1>3. CASE UNCHANGED memVars /\ (UNCHANGED freeList \/ LayToRest)
  <2>1. Users' \subseteq Users
    BY <1>3, SameUsers, BurialUsers
  <2> QED
    BY <1>3, <2>1, AloneKeepsStacks
<1>4. CASE AtMenu /\ \E a : kcinth(a)
  BY <1>4, CallKeepsStacks
<1>5. CASE Boot
  <2>1. CASE MainFork /\ kforkU1(1)
    <3>1. kfork /\ Head(freeList) = 1
      BY <2>1 DEF MainFork, P1First
    <3> QED
      BY <1>2, <2>1, <3>1
  <2> QED
    BY <1>3, <1>5, <2>1 DEF Boot, MainSwitch
<1>6. CASE Body
  <2>1. do_kfork => kfork
    BY DEF do_kfork, DoKfork
  <2>2. Commands => UNCHANGED freeList \/ LayToRest
    BY DEF Commands, do_tswitch, do_stop, do_continue, do_sleep, do_wakeup,
         do_exit, do_wait, do_chpriority, goUmode, DoTswitch, DoStop, DoContinue,
         DoSleep, DoWakeup, DoExit, kexit, DoWait, SleepOnSelf, DoChpriority, vars
  <2> QED
    BY <1>2, <1>3, <1>6, <2>1, <2>2 DEF Body
<1>7. CASE KwaitGoesOn /\ UNCHANGED memVars
  BY <1>3, <1>7 DEF KwaitGoesOn, WaitAgain, SleepOnSelf
<1>8. CASE UNCHANGED memAll
  BY <1>3, <1>8 DEF memAll, vars
<1> QED
  BY <1>4, <1>5, <1>6, <1>7, <1>8 DEF MemStep

(* Where the sizes fit, as those of 3-syscalls and 4-fork-exec do with nine  *)
(* PROCs and those of 5-midterm with up to twelve, no stack ever grows out   *)
(* of its segment, whatever is forked, loaded and called.                    *)
THEOREM StacksStayInside == MemSpec => [](StacksFit => StackInOwnSegment)
<1>1. MemInit => Stacks
  <2> SUFFICES ASSUME MemInit PROVE Stacks
    OBVIOUS
  <2>1. Users = {}
    BY DEF MemInit, SysInit, Init, Users
  <2> QED
    BY <2>1 DEF Stacks
<1>2. Stacks => (StacksFit => StackInOwnSegment)
  BY StacksInside
<1> QED
  BY <1>1, <1>2, MemInvariance, NextIsMemStep, MemStepKeepsStacks, PTL DEF MemSpec

-----------------------------------------------------------------------------
(* UnixProcess sees a process through its frame, and by FramesStayOwn that   *)
(* is the segment the process is in.  No file is called none.                *)
ASSUME NoneIsNoFile == "none" \notin Programs

SeenProgram(p) == IF p \in Users THEN ProgOf(p) ELSE "none"
SeenLine(p) == IF p \in Users THEN LineOf(p) ELSE NoLine
SeenResult(p) == IF p \in Users THEN retval[p] ELSE 0

Seen ==
    /\ SeenPrograms = [p \in Procs |-> SeenProgram(p)]
    /\ SeenLines = [p \in Procs |-> SeenLine(p)]
    /\ SeenResults = [p \in Procs |-> SeenResult(p)]

(* What the refinement mapping shows of a process is what the invariant      *)
(* speaks of.                                                                *)
LEMMA MemIsSeen == MemInv => Seen
<1> SUFFICES ASSUME MemInv PROVE Seen
  OBVIOUS
<1>1. \A p \in Users :
         FrameOf(p) = [at |-> usp[p], ds |-> uss[p], es |-> uss[p], cs |-> uss[p]]
  BY DEF FrameOf, MemInv, FrameInv, Framed
<1>2. /\ \A p \in Procs : Reachable(p) <=> p \in Users
      /\ \A p \in Users : FrameOf(p).cs = uss[p] /\ FrameOf(p).ds = uss[p]
  BY <1>1 DEF Reachable
<1> QED
  BY <1>1, <1>2 DEF Seen, SeenPrograms, SeenLines, SeenResults, SeenProgram, SeenLine, SeenResult, ProgOf, LineOf

(* The processes in A keep their program and command line.                   *)
ImagesStay(A) == \A p \in A : ProgOf(p)' = ProgOf(p) /\ LineOf(p)' = LineOf(p)

(* Six ways in which a step may look to Unix: nobody's image or result       *)
(* changes;                                                                  *)
LEMMA YieldStep ==
  ASSUME Seen, Seen', running' \in Procs, Users' = Users, ImagesStay(Users), UNCHANGED retval
  PROVE  Unix!Yield
<1>1. \A p \in Procs : /\ SeenProgram(p)' = SeenProgram(p)
                       /\ SeenLine(p)' = SeenLine(p)
                       /\ SeenResult(p)' = SeenResult(p)
  BY DEF ImagesStay, SeenProgram, SeenLine, SeenResult
<1> QED
  BY <1>1 DEF Seen, Unix!Yield

(* only the caller gets a result;                                            *)
LEMMA AnswerStep ==
  ASSUME Seen, Seen', Users' = Users, ImagesStay(Users), UNCHANGED running,
         running \in Users, MemInv, NEW r, retval' = [retval EXCEPT ![running] = r]
  PROVE  Unix!Answer(r)
<1>1. \A p \in Procs : /\ SeenProgram(p)' = SeenProgram(p)
                       /\ SeenLine(p)' = SeenLine(p)
  BY DEF ImagesStay, SeenProgram, SeenLine
<1>2. \A p \in Procs : SeenResult(p)' = IF p = running THEN r ELSE SeenResult(p)
  BY DEF SeenResult, MemInv, SysTyped
<1> QED
  BY <1>1, <1>2 DEF Seen, Unix!Answer

(* a new process runs u1;                                                    *)
LEMMA SpawnStep ==
  ASSUME Seen, Seen', NEW c \in Procs, c \notin Users, Users' = Users \cup {c}, ImagesStay(Users),
         UNCHANGED running, MemInv,
         ProgOf(c)' = "u1", LineOf(c)' = NoLine, retval' = [retval EXCEPT ![c] = 0]
  PROVE  Unix!Spawn(c)
<1>1. \A p \in Procs : /\ SeenProgram(p)' = IF p = c THEN "u1" ELSE SeenProgram(p)
                       /\ SeenLine(p)' = SeenLine(p)
  BY DEF ImagesStay, SeenProgram, SeenLine
<1>2. \A p \in Procs : SeenResult(p)' = SeenResult(p)
  BY DEF SeenResult, MemInv, SysTyped
<1>3. SeenProgram(c) = "none"
  BY DEF SeenProgram
<1> QED
  BY <1>1, <1>2, <1>3 DEF Seen, Unix!Spawn, Unix!Free

(* a new process is a copy of its parent, which gets its pid while the       *)
(* child gets 0;                                                             *)
LEMMA ForkStep ==
  ASSUME Seen, Seen', NEW c \in Procs, c \notin Users, Users' = Users \cup {c}, ImagesStay(Users),
         UNCHANGED running, running \in Users, MemInv,
         ProgOf(c)' = ProgOf(running), LineOf(c)' = LineOf(running),
         retval' = [retval EXCEPT ![running] = c, ![c] = 0]
  PROVE  Unix!Fork(c)
<1>1. \A p \in Procs :
         /\ SeenProgram(p)' = IF p = c THEN SeenProgram(running) ELSE SeenProgram(p)
         /\ SeenLine(p)' = IF p = c THEN SeenLine(running) ELSE SeenLine(p)
  BY DEF ImagesStay, SeenProgram, SeenLine
<1>2. \A p \in Procs : SeenResult(p)' = IF p = c THEN 0
                                      ELSE IF p = running THEN c ELSE SeenResult(p)
  BY DEF SeenResult, MemInv, SysTyped
<1>3. SeenProgram(c) = "none" /\ running \in Procs
  BY DEF SeenProgram, Users
<1> QED
  BY <1>1, <1>2, <1>3 DEF Seen, Unix!Fork, Unix!Free

(* the caller has a new program and command line, or the one result that     *)
(* tells it that there is none;                                              *)
LEMMA ExecStep ==
  ASSUME Seen, Seen', Users' = Users, UNCHANGED running, running \in Users, MemInv,
         NEW line, line.file \in Programs, NEW r \in {0, -1},
         \A p \in Users : /\ ProgOf(p)' = IF p = running THEN line.file ELSE ProgOf(p)
                          /\ LineOf(p)' = IF p = running THEN line ELSE LineOf(p),
         retval' = [retval EXCEPT ![running] = r]
  PROVE  Unix!Exec(line)
<1>1. \A p \in Procs :
         /\ SeenProgram(p)' = IF p = running THEN line.file ELSE SeenProgram(p)
         /\ SeenLine(p)' = IF p = running THEN line ELSE SeenLine(p)
  BY DEF SeenProgram, SeenLine
<1>2. \A p \in Procs : SeenResult(p)' = IF p = running THEN r ELSE SeenResult(p)
  BY DEF SeenResult, MemInv, SysTyped
<1> QED
  BY <1>1, <1>2 DEF Seen, Unix!Exec

(* a dead child is gone and its parent may have its pid.                     *)
LEMMA GoneStep ==
  ASSUME Seen, Seen', NEW c \in Users, c # running, Users' = Users \ {c}, ImagesStay(Users),
         UNCHANGED running, running \in Users, MemInv,
         UNCHANGED retval \/ retval' = [retval EXCEPT ![running] = c]
  PROVE  Unix!Gone(c)
<1>1. /\ \A p \in Procs : /\ SeenProgram(p)' = IF p = c THEN "none" ELSE SeenProgram(p)
                          /\ SeenLine(p)' = IF p = c THEN NoLine ELSE SeenLine(p)
  BY DEF ImagesStay, SeenProgram, SeenLine
<1>2. PICK r : r \in {c, SeenResult(running)}
             /\ \A p \in Procs : SeenResult(p)' = IF p = c THEN 0
                                                 ELSE IF p = running THEN r ELSE SeenResult(p)
  BY DEF SeenResult, MemInv, SysTyped
<1>3. SeenProgram(c) # "none" /\ c \in Procs /\ running \in Procs
  BY NoneIsNoFile DEF SeenProgram, ProgOf, MemInv, FrameInv, Framed, Users
<1>4. [p \in Procs |-> SeenResult(p)]' =
      [[p \in Procs |-> SeenResult(p)] EXCEPT ![running] = r, ![c] = 0]
  BY <1>2, <1>3
<1>5. r \in {c, [p \in Procs |-> SeenResult(p)][running]}
  BY <1>2, <1>3
<1> QED
  BY <1>1, <1>3, <1>4, <1>5 DEF Seen, Unix!Gone, Unix!Free

(* Each step of lab 4 is one of Unix.                                        *)
LEMMA BurialStep ==
  ASSUME KInv, MemInv, Seen, Seen', LayToRest, ImagesStay(Users),
         running \in Users,
         UNCHANGED retval \/ retval' = [retval EXCEPT ![running] = Min(Dead(running))]
  PROVE  Unix!UnixNext
<1>1. Sane
  BY TwoHalves
<1>2. PICK c : c = Min(Dead(running))
  OBVIOUS
<1>3. c \in Procs /\ status[c] = "ZOMBIE"
  BY <1>2, FirstDead DEF LayToRest, Dead, Children
<1>4. status[0] # "ZOMBIE" /\ status[running] = "RUNNING"
  BY <1>1 DEF Sane
<1>5. c \in Users /\ c # running
  BY <1>3, <1>4 DEF Users
<1>6. Users' = Users \ {c} /\ running' = running
  BY <1>2, BurialUsers DEF LayToRest
<1>7. Unix!Gone(c)
  BY <1>2, <1>5, <1>6, GoneStep
<1> QED
  BY <1>3, <1>7 DEF Unix!UnixNext

(* Each step of main is one of these,                                        *)
LEMMA BootStep ==
  ASSUME KInv, P1First, MemInv, KInv', Seen, Seen', Boot
  PROVE  Unix!UnixNext
<1>1. CASE MainFork /\ Forked(1) /\ kforkU1(1)
  <2>1. Head(freeList) = 1
    BY <1>1 DEF MainFork, P1First
  <2>2. kfork /\ running' = running
    BY <1>1 DEF MainFork, kfork
  <2>3. 1 \in Procs \ {0} /\ 1 \notin Users /\ Users' = Users \cup {1}
    BY <2>1, <2>2, KforkMakesOne
  <2>4. /\ ImagesStay(Users) /\ ProgOf(1)' = "u1" /\ LineOf(1)' = NoLine
        /\ retval' = [retval EXCEPT ![1] = 0]
    BY <1>1, <2>3, Kfork1Keeps DEF MemInv, ImagesStay, Forked
  <2>5. Unix!Spawn(1)
    BY <2>2, <2>3, <2>4, SpawnStep
  <2> QED
    BY <2>3, <2>5 DEF Unix!UnixNext
<1>2. CASE MainSwitch /\ UNCHANGED <<sysVars, memVars>>
  <2>1. Users' = Users /\ UNCHANGED retval
    BY <1>2, SameUsers DEF MainSwitch, sysVars
  <2>2. ImagesStay(Users)
    BY <1>2, <2>1, AloneKeeps DEF MemInv, ImagesStay
  <2>3. Sane'
    BY TwoHalves, PTL
  <2>4. running' \in Procs
    BY <2>3 DEF Sane
  <2> QED
    BY <2>1, <2>2, <2>4, YieldStep DEF Unix!UnixNext
<1> QED
  BY <1>1, <1>2 DEF Boot

(* each command of body,                                                     *)
LEMMA BodyStep ==
  ASSUME KInv, MemInv, KInv', Seen, Seen', Body
  PROVE  Unix!UnixNext
<1>1. CASE do_kfork /\ kforkU1(Head(freeList))
  <2>1. PICK c : c = Head(freeList)
    OBVIOUS
  <2>2. kfork /\ Forked(c) /\ kforkU1(c) /\ running' = running
    BY <1>1, <2>1 DEF do_kfork, DoKfork, kfork
  <2>3. c \in Procs \ {0} /\ c \notin Users /\ Users' = Users \cup {c}
    BY <2>1, <2>2, KforkMakesOne
  <2>4. /\ ImagesStay(Users) /\ ProgOf(c)' = "u1" /\ LineOf(c)' = NoLine
        /\ retval' = [retval EXCEPT ![c] = 0]
    BY <2>2, <2>3, Kfork1Keeps DEF MemInv, ImagesStay, Forked
  <2>5. Unix!Spawn(c)
    BY <2>2, <2>3, <2>4, SpawnStep
  <2> QED
    BY <2>3, <2>5 DEF Unix!UnixNext
<1>2. CASE Commands /\ UNCHANGED memVars
  <2>1. UNCHANGED freeList \/ LayToRest
    BY <1>2 DEF Commands, do_tswitch, do_stop, do_continue, do_sleep, do_wakeup,
         do_exit, do_wait, do_chpriority, goUmode, DoTswitch, DoStop, DoContinue,
         DoSleep, DoWakeup, DoExit, kexit, DoWait, SleepOnSelf, DoChpriority, vars
  <2>2. UNCHANGED retval /\ AtPrompt
    BY <1>2 DEF Commands, do_tswitch, do_stop, do_continue, do_sleep, do_wakeup,
         do_exit, do_wait, do_chpriority, goUmode, sysVars, AtBody
  <2>3. Sane /\ Sane'
    BY TwoHalves, PTL
  <2>4. running \in Users /\ running' \in Procs
    BY <2>2, <2>3 DEF Sane, AtPrompt, Users
  <2>5. Users' \subseteq Users
    BY <2>1, SameUsers, BurialUsers
  <2>6. ImagesStay(Users)
    BY <1>2, <2>5, AloneKeeps DEF MemInv, ImagesStay
  <2>7. CASE UNCHANGED freeList
    <3>1. Users' = Users
      BY <2>7, SameUsers
    <3> QED
      BY <2>2, <2>4, <2>6, <3>1, YieldStep DEF Unix!UnixNext
  <2>8. CASE LayToRest
    BY <2>2, <2>4, <2>6, <2>8, BurialStep
  <2> QED
    BY <2>1, <2>7, <2>8
<1> QED
  BY <1>1, <1>2 DEF Body

(* A wait that buries answers with the pid, one that sleeps not at all.      *)
LEMMA WaitStep ==
  ASSUME KInv, MemInv, KInv', Seen, Seen', running \in Users, ImagesStay(Users),
         LayToRest \/ SleepOnSelf, Buried \/ UNCHANGED retval
  PROVE  Unix!UnixNext
<1>1. CASE LayToRest
  <2>1. Buried => retval' = [retval EXCEPT ![running] = Min(Dead(running))]
    BY <1>1 DEF Buried, Returns, LayToRest
  <2> QED
    BY <1>1, <2>1, BurialStep
<1>2. CASE SleepOnSelf
  <2>1. UNCHANGED retval /\ UNCHANGED freeList
    BY <1>2 DEF SleepOnSelf, Buried
  <2>2. Users' = Users
    BY <2>1, SameUsers
  <2>3. Sane'
    BY TwoHalves, PTL
  <2>4. running' \in Procs
    BY <2>3 DEF Sane
  <2> QED
    BY <2>1, <2>2, <2>4, YieldStep DEF Unix!UnixNext
<1> QED
  BY <1>1, <1>2

(* each system call,                                                         *)
LEMMA CallStep ==
  ASSUME KInv, MemInv, KInv', Seen, Seen', AtMenu, NEW a, kcinth(a)
  PROVE  Unix!UnixNext
<1>1. Sane /\ Sane' /\ running \in Users
  BY CallerIsUser, TwoHalves, PTL
<1>2. running \in Procs /\ running' \in Procs /\ 0 \in Procs
  BY <1>1, ZeroAndOne DEF Sane
<1>3. ASSUME int80h, UNCHANGED freeList \/ LayToRest PROVE ImagesStay(Users)
  BY <1>1, <1>3, SameUsers, BurialUsers, Int80hKeeps DEF MemInv, ImagesStay
<1>4. ASSUME UNCHANGED vars, ImagesStay(Users), NEW r \in Procs \cup {-1}, Returns(r)
      PROVE  Unix!UnixNext
  <2>1. UNCHANGED <<freeList, running>>
    BY <1>4 DEF vars
  <2>2. Users' = Users
    BY <2>1, SameUsers
  <2>3. Unix!Answer(r)
    BY <1>1, <1>4, <2>1, <2>2, AnswerStep DEF Returns
  <2> QED
    BY <2>3 DEF Unix!UnixNext
<1>5. CASE (kgetpid \/ Informs \/ Fails) /\ int80h
  <2>1. UNCHANGED vars /\ \E r : r \in Procs \cup {-1} /\ Returns(r)
    BY <1>2, <1>5 DEF kgetpid, Informs, Fails
  <2>2. ImagesStay(Users)
    BY <1>3, <1>5, <2>1 DEF vars
  <2> QED
    BY <1>4, <2>1, <2>2
<1>6. CASE fork
  <2>1. PICK c : c = Head(freeList)
    OBVIOUS
  <2>2. kfork /\ running' = running /\ retval' = [retval EXCEPT ![running] = c, ![c] = 0]
    BY <1>6, <2>1 DEF fork, kfork, ChildResult
  <2>3. c \in Procs \ {0} /\ c \notin Users /\ Users' = Users \cup {c}
    BY <2>1, <2>2, KforkMakesOne
  <2>4. \A p \in Users \cup {c} : LET q == IF p = c THEN running ELSE p
                                  IN  ProgOf(p)' = ProgOf(q) /\ LineOf(p)' = LineOf(q)
    BY <1>1, <1>6, <2>1, <2>3, ForkKeeps DEF MemInv
  <2>5. ImagesStay(Users) /\ ProgOf(c)' = ProgOf(running) /\ LineOf(c)' = LineOf(running)
    BY <2>3, <2>4 DEF ImagesStay
  <2>6. Unix!Fork(c)
    BY <1>1, <2>2, <2>3, <2>5, ForkStep
  <2> QED
    BY <2>3, <2>6 DEF Unix!UnixNext
<1>7. CASE ktswitch /\ int80h
  <2>1. UNCHANGED <<freeList, retval>>
    BY <1>7 DEF ktswitch, DoTswitch, sysVars
  <2>2. Users' = Users /\ ImagesStay(Users)
    BY <1>3, <1>7, <2>1, SameUsers
  <2> QED
    BY <1>2, <2>1, <2>2, YieldStep DEF Unix!UnixNext
<1>8. CASE kkwait /\ int80h
  <2>1. CASE Returns(-1) /\ UNCHANGED vars
    <3>1. UNCHANGED freeList
      BY <2>1 DEF vars
    <3>2. ImagesStay(Users)
      BY <1>3, <1>8, <3>1
    <3>3. PICK r : r = -1 /\ r \in Procs \cup {-1} /\ Returns(r)
      BY <2>1
    <3> QED
      BY <1>4, <2>1, <3>2, <3>3
  <2>2. CASE DoWait /\ Buried
    <3>1. LayToRest \/ SleepOnSelf
      BY <2>2 DEF DoWait
    <3>2. UNCHANGED freeList \/ LayToRest
      BY <3>1 DEF SleepOnSelf
    <3>3. ImagesStay(Users)
      BY <1>3, <1>8, <3>2
    <3> QED
      BY <1>1, <2>2, <3>1, <3>3, WaitStep
  <2> QED
    BY <1>8, <2>1, <2>2 DEF kkwait
<1>9. CASE (\E value \in ExitValues : kkexit(value)) /\ int80h
  <2>1. CASE Returns(-1) /\ UNCHANGED vars
    <3>1. UNCHANGED freeList
      BY <2>1 DEF vars
    <3>2. ImagesStay(Users)
      BY <1>3, <1>9, <3>1
    <3>3. PICK r : r = -1 /\ r \in Procs \cup {-1} /\ Returns(r)
      BY <2>1
    <3> QED
      BY <1>4, <2>1, <3>2, <3>3
  <2>2. CASE UNCHANGED <<freeList, retval>>
    <3>1. Users' = Users /\ ImagesStay(Users)
      BY <1>3, <1>9, <2>2, SameUsers
    <3> QED
      BY <1>2, <2>2, <3>1, YieldStep DEF Unix!UnixNext
  <2> QED
    BY <1>9, <2>1, <2>2 DEF kkexit, kexit, sysVars
<1>10. CASE \E line \in CommandLines : kexec(line)
  <2>1. PICK line \in CommandLines : kexec(line)
    BY <1>10
  <2>2. /\ UNCHANGED <<freeList, running>> /\ line.file \in Programs
        /\ \E r \in {0, -1} : retval' = [retval EXCEPT ![running] = r]
    BY <2>1 DEF kexec, vars, Returns
  <2>3. Users' = Users
    BY <2>2, SameUsers
  <2>4. \A p \in Users : /\ ProgOf(p)' = IF p = running THEN line.file ELSE ProgOf(p)
                         /\ LineOf(p)' = IF p = running THEN line ELSE LineOf(p)
    BY <1>1, <2>1, <2>3, KexecKeeps DEF MemInv
  <2>5. Unix!Exec(line)
    BY <1>1, <2>2, <2>3, <2>4, ExecStep
  <2> QED
    BY <2>5 DEF Unix!UnixNext
<1>11. CASE \E seg \in HopSegments : khop(seg)
  <2>1. PICK seg \in HopSegments : khop(seg)
    BY <1>11
  <2>2. UNCHANGED vars /\ Returns(0)
    BY <2>1 DEF khop
  <2>3. Users' = Users
    BY <2>2, SameUsers DEF vars
  <2>4. ImagesStay(Users)
    BY <1>1, <2>1, <2>3, KhopKeeps DEF MemInv, ImagesStay
  <2>5. PICK r : r = 0 /\ r \in Procs \cup {-1} /\ Returns(r)
    BY <1>2, <2>2
  <2> QED
    BY <1>4, <2>2, <2>4, <2>5
<1>12. Fails => int80h
  BY DEF Fails
<1> QED
  BY <1>5, <1>6, <1>7, <1>8, <1>9, <1>10, <1>11, <1>12 DEF kcinth

(* and so every step of lab 4 is one of Unix or a stutter;                   *)
LEMMA UnixStep ==
  (KInv /\ P1First /\ MemInv /\ Seen /\ KInv' /\ Seen' /\ MemStep)
     => [Unix!UnixNext]_(Unix!unixVars)
<1> SUFFICES ASSUME KInv, P1First, MemInv, Seen, KInv', Seen', MemStep
             PROVE  [Unix!UnixNext]_(Unix!unixVars)
  OBVIOUS
<1>1. CASE Boot
  BY <1>1, BootStep
<1>2. CASE Body
  BY <1>2, BodyStep
<1>3. CASE AtMenu /\ \E a : kcinth(a)
  BY <1>3, CallStep
<1>4. CASE KwaitGoesOn /\ UNCHANGED memVars
  <2>1. LayToRest \/ SleepOnSelf
    BY <1>4 DEF KwaitGoesOn, WaitAgain
  <2>2. Buried \/ UNCHANGED retval
    BY <1>4 DEF KwaitGoesOn
  <2>3. Sane
    BY TwoHalves
  <2>4. running \in Users
    BY <1>4, <2>3 DEF KwaitGoesOn, WaitAgain, Sane, Users
  <2>5. UNCHANGED freeList \/ LayToRest
    BY <2>1 DEF SleepOnSelf
  <2>6. Users' \subseteq Users
    BY <2>5, SameUsers, BurialUsers
  <2>7. ImagesStay(Users)
    BY <1>4, <2>6, AloneKeeps DEF MemInv, ImagesStay
  <2> QED
    BY <2>1, <2>2, <2>4, <2>7, WaitStep
<1>5. CASE UNCHANGED memAll
  <2>1. UNCHANGED <<running, status, retval, uss, usp, mem>>
    BY <1>5 DEF memAll, vars, sysVars, memVars
  <2>2. Users' = Users
    BY <2>1 DEF Users
  <2>3. UNCHANGED <<SeenPrograms, SeenLines, SeenResults>>
    BY <2>1, <2>2 DEF SeenPrograms, SeenLines, SeenResults, Reachable, FrameOf
  <2> QED
    BY <2>1, <2>3 DEF Unix!unixVars
<1> QED
  BY <1>1, <1>2, <1>3, <1>4, <1>5 DEF MemStep

(* it starts where Unix starts.                                              *)
LEMMA UnixStart == MemInit => Unix!UnixInit
<1> SUFFICES ASSUME MemInit PROVE Unix!UnixInit
  OBVIOUS
<1>1. \A p \in Procs : p \notin Users
  BY DEF MemInit, SysInit, Init, Users
<1> QED
  BY <1>1 DEF MemInit, SysInit, Init, SeenPrograms, SeenLines, SeenResults, Reachable,
              Unix!UnixInit

(* fork and exec behave as in Unix for any number of processes, whatever the *)
(* size of segments and programs: a child has its parent's program, command  *)
(* line and 0, exec changes its caller only, and no other call, switch or    *)
(* reused PROC changes what a program will find.                             *)
THEOREM ForkExecAsInUnix == MemSpec => KeepsUnixPromise
<1>1. MemSpec => []Seen
  BY MemInvariance, MemIsSeen, PTL
<1> QED
  BY <1>1, MemInvariance, NextIsMemStep, UnixStart, UnixStep, PTL
     DEF MemSpec, KeepsUnixPromise, Unix!UnixSpec
=============================================================================
