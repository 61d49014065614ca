--------------------------- MODULE SyscallKernel ---------------------------
(***************************************************************************)
(* User mode and the system calls of 3-syscalls that the labs after it     *)
(* keep: kernel.c, int.c, wait.c, and goUmode of ts.s.  The processes and  *)
(* their lists are those of ProcKernel, with the scheduler of              *)
(* 3-syscalls/t.c when Runs is READY.  Interrupts are off in the kernel    *)
(* and only INT 80 leaves user mode, so a system call is one action up to  *)
(* the tswitch it makes, and a second one when the process is back.        *)
(***************************************************************************)
EXTENDS ProcKernel

VARIABLES umode,    \* whether a process has left body for its program: as
                    \* int80h starts the kernel stack afresh, it never returns
          retval    \* the AX word of its user frame, which kcinth writes

sysVars == <<umode, retval>>

SysStart ==
    /\ umode = [p \in Procs |-> FALSE]
    /\ retval = [p \in Procs |-> 0]

SysInit == Init /\ SysStart

AtBody == AtPrompt /\ ~umode[running]
AtMenu == AtPrompt /\ umode[running]

-----------------------------------------------------------------------------
(* A process made by kfork begins in body, with the registers of its user    *)
(* frame all 0.                                                              *)
InBody(p) == umode' = [umode EXCEPT ![p] = FALSE]

Forked(p) == InBody(p) /\ retval' = [retval EXCEPT ![p] = 0]

(* The commands of body, which is left with the command u.                   *)
do_tswitch == AtBody /\ DoTswitch /\ UNCHANGED sysVars
do_kfork == AtBody /\ DoKfork /\ Forked(Head(freeList))
do_stop == AtBody /\ DoStop /\ UNCHANGED sysVars
do_continue == AtBody /\ (\E pid \in UserPids : DoContinue(pid)) /\ UNCHANGED sysVars
do_sleep == AtBody /\ (\E ev \in UserEvents : DoSleep(ev)) /\ UNCHANGED sysVars
do_wakeup == AtBody /\ (\E ev \in UserEvents : DoWakeup(ev)) /\ UNCHANGED sysVars
do_exit == AtBody /\ (\E value \in ExitValues : DoExit(value)) /\ UNCHANGED sysVars
do_wait == AtBody /\ DoWait /\ UNCHANGED sysVars
do_chpriority ==
    /\ AtBody
    /\ \E pid \in UserPids, pri \in UserPris : DoChpriority(pid, pri)
    /\ UNCHANGED sysVars

goUmode ==
    /\ AtBody
    /\ umode' = [umode EXCEPT ![running] = TRUE]
    /\ UNCHANGED <<vars, retval>>

(* What body does for every letter but f.                                    *)
Commands ==
    \/ do_tswitch \/ do_stop \/ do_continue \/ do_sleep \/ do_wakeup
    \/ do_exit \/ do_wait \/ do_chpriority \/ goUmode

-----------------------------------------------------------------------------
Returns(r) == retval' = [retval EXCEPT ![running] = r]

(* getpid, ps and chname leave the processes alone.                          *)
kgetpid == Returns(running) /\ UNCHANGED <<vars, umode>>
Informs == Returns(0) /\ UNCHANGED <<vars, umode>>

(* What tswitch returns is left over from before the call, and nobody asks.  *)
ktswitch == DoTswitch /\ UNCHANGED sysVars

(* kwait, for the program: the pid of the child it laid to rest, if it did.  *)
Buried == IF Dead(running) = {} THEN UNCHANGED retval ELSE Returns(Min(Dead(running)))

kkwait ==
    /\ UNCHANGED umode
    /\ IF Children(running) = {} THEN Returns(-1) /\ UNCHANGED vars
       ELSE DoWait /\ Buried

(* Slip: kwait's loop is only around the ksleep at its end.                  *)
KwaitGoesOn_sleeps ==
    /\ running # NULL /\ pc[running] = "kwait"
    /\ ksleep(Address(running))
    /\ UNCHANGED <<ppid, parent, priority, exitCode, freeList, nproc, pc, sysVars>>

(* A process asleep in kwait goes on, for body or for the program.           *)
KwaitGoesOn ==
    /\ WaitAgain
    /\ UNCHANGED umode
    /\ IF umode[running] THEN Buried ELSE UNCHANGED retval

kkexit(value) ==
    IF running = 1 THEN Returns(-1) /\ UNCHANGED <<vars, umode>>
    ELSE kexit(value) /\ UNCHANGED sysVars
=============================================================================
