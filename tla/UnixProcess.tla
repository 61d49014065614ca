---------------------------- MODULE UnixProcess ----------------------------
(***************************************************************************)
(* What fork, exec and wait promise a program, "the same as in Unix"       *)
(* (4-fork-exec/README.md): every process has a program, the command line  *)
(* it was started with and the result of its last system call, and only    *)
(* its own calls change them.                                              *)
(***************************************************************************)
EXTENDS Integers

CONSTANTS Procs,        \* process slots
          Programs,     \* files that can be executed
          CommandLines, \* what exec may be given
          NoLine,       \* the command line of a program not started by exec
          Results       \* what a call that changes nothing else may return

VARIABLES doer,         \* the process that acts
          program,      \* what each process runs, "none" in a free slot
          cmdline,      \* the command line its program was started with
          result        \* what its last system call returned

unixVars == <<doer, program, cmdline, result>>

Free == {p \in Procs : program[p] = "none"}

UnixInit ==
    /\ doer = 0
    /\ program = [p \in Procs |-> "none"]
    /\ cmdline = [p \in Procs |-> NoLine]
    /\ result = [p \in Procs |-> 0]

(* The machine goes to another process, or back to the kernel's own.         *)
Yield == doer' \in Procs /\ UNCHANGED <<program, cmdline, result>>

(* A process is made from the console, to run u1.                            *)
Spawn(c) ==
    /\ c \in Free
    /\ program' = [program EXCEPT ![c] = "u1"]
    /\ UNCHANGED <<doer, cmdline, result>>

(* The child is a copy, the parent gets its pid and the child 0.             *)
Fork(c) ==
    /\ c \in Free
    /\ program' = [program EXCEPT ![c] = program[doer]]
    /\ cmdline' = [cmdline EXCEPT ![c] = cmdline[doer]]
    /\ result' = [result EXCEPT ![doer] = c, ![c] = 0]
    /\ UNCHANGED doer

Exec(line) ==
    /\ line.file \in Programs
    /\ program' = [program EXCEPT ![doer] = line.file]
    /\ cmdline' = [cmdline EXCEPT ![doer] = line]
    /\ \E r \in {0, -1} : result' = [result EXCEPT ![doer] = r]
    /\ UNCHANGED doer

(* A call that fails, only informs, or moves bytes.                          *)
Answer(r) ==
    /\ result' = [result EXCEPT ![doer] = r]
    /\ UNCHANGED <<doer, program, cmdline>>

(* A dead child is gone; a wait called by the program returns its pid.       *)
Gone(c) ==
    /\ c \notin Free /\ c # doer
    /\ program' = [program EXCEPT ![c] = "none"]
    /\ cmdline' = [cmdline EXCEPT ![c] = NoLine]
    /\ \E r \in {c, result[doer]} : result' = [result EXCEPT ![doer] = r, ![c] = 0]
    /\ UNCHANGED doer

UnixNext ==
    \/ Yield
    \/ \E c \in Procs : Spawn(c) \/ Fork(c) \/ Gone(c)
    \/ \E line \in CommandLines : Exec(line)
    \/ \E r \in Results : Answer(r)

UnixSpec == UnixInit /\ [][UnixNext]_unixVars
=============================================================================
