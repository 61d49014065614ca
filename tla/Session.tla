------------------------------ MODULE Session ------------------------------
(***************************************************************************)
(* init, login and sh of 8-final, which keep a session on each terminal:   *)
(* init forks a login per terminal and another when one dies, login        *)
(* becomes the user's sh, and sh runs command lines of pipes and           *)
(* redirections.  The kernel is not part of the repository: its fork,      *)
(* exec, wait, exit, pipe, close and dup2 are modelled from their use.     *)
(* Processes of that kernel interleave, so that an action is what a        *)
(* process does from one call that others notice to the next.              *)
(***************************************************************************)
EXTENDS Integers, Sequences, FiniteSets, FiniteSetsExt

CONSTANTS NPROC,        \* PROCs of the external kernel, P1 is init
          TERMS,        \* terminals; init.c has three
          NPIPES,       \* pipes of the external kernel, as many as are asked for
          Lines,        \* command lines that are typed on each terminal:
                        \* sequences of the commands between |
          Data          \* what sh may take for a command line when it reads
                        \* from a file or a pipe

(* A command is found or not, with one redirection or none.                  *)
Commands == [found : BOOLEAN, form : {"plain", "in", "missing", "out", "refused"}]

ASSUME SessionAssumption ==
    /\ NPROC \in Nat /\ NPROC > TERMS
    /\ TERMS \in Nat \ {0} /\ NPIPES \in Nat \ {0}
    /\ \A t \in 1 .. TERMS : Lines[t] \subseteq Seq(Commands) \ {<< >>}
    /\ Data \subseteq Seq(Commands) \ {<< >>}

VARIABLES at,           \* where each process is in its program
          fd,           \* its descriptors 0 to 4
          parent,       \* who waits for it, NULL in a free PROC
          line,         \* the command line that it was forked for, or what is
                        \* left of it; of a login and the sh it becomes, none
          task,         \* init's console, ser1 and ser2
          which,        \* the terminal that init is busy with
          loose         \* history: the pipes that a shell was left with when
                        \* its exec failed, until they are made again

sessionVars == <<at, fd, parent, line, task, which, loose>>

Pids == 1 .. NPROC
Terminals == 1 .. TERMS
PipeIds == 1 .. NPIPES
NULL == 0

(* What a descriptor may be open on.                                         *)
Closed == <<"closed", 0>>
File == <<"file", 0>>
Tty(t) == <<"tty", t>>
ReadEnd(k) == <<"r", k>>
WriteEnd(k) == <<"w", k>>

AllClosed == [n \in 0 .. 4 |-> Closed]

SessionInit ==
    /\ at = [p \in Pids |-> IF p = 1 THEN "boot" ELSE "free"]
    /\ fd = [p \in Pids |-> IF p = 1 THEN [AllClosed EXCEPT ![0] = Tty(1), ![1] = Tty(1)]
                            ELSE AllClosed]
    /\ parent = [p \in Pids |-> NULL]
    /\ line = [p \in Pids |-> << >>]
    /\ task = [t \in Terminals |-> NULL]
    /\ which = 1
    /\ loose = {}

-----------------------------------------------------------------------------
(* The kernel, as far as these programs see it.                              *)
Free == {p \in Pids : at[p] = "free"}
Kids(p) == {c \in Pids : parent[c] = p}
DeadKids(p) == {c \in Kids(p) : at[c] = "dead"}
Holds(p, end) == \E n \in 0 .. 4 : fd[p][n] = end
FreePipes == {k \in PipeIds : \A p \in Pids : ~Holds(p, ReadEnd(k)) /\ ~Holds(p, WriteEnd(k))}

(* fork: p goes on as mine says; the child, if there is a PROC for it, as    *)
(* child says, with p's descriptors and what it does to them at once.        *)
Fork(p, mine, child) ==
    IF Free = {}
    THEN /\ at' = [at EXCEPT ![p] = mine.at]
         /\ fd' = [fd EXCEPT ![p] = mine.fd]
         /\ line' = [line EXCEPT ![p] = mine.line]
         /\ UNCHANGED parent
    ELSE LET c == Min(Free) IN
         /\ at' = [at EXCEPT ![p] = mine.at, ![c] = child.at]
         /\ fd' = [fd EXCEPT ![p] = mine.fd, ![c] = child.fd]
         /\ line' = [line EXCEPT ![p] = mine.line, ![c] = child.line]
         /\ parent' = [parent EXCEPT ![c] = p]

(* What fork returns to the parent.                                          *)
Pid == IF Free = {} THEN -1 ELSE Min(Free)

(* p as it is, but for the place in its program.                             *)
GoesOn(p, place) == [at |-> place, fd |-> fd[p], line |-> line[p]]

(* wait: p goes on at place and lays a dead child d to rest, or has no       *)
(* children.                                                                 *)
Bury(p, d, place) ==
    /\ at' = [at EXCEPT ![p] = place, ![d] = "free"]
    /\ parent' = [parent EXCEPT ![d] = NULL]
    /\ line' = [line EXCEPT ![d] = << >>]
    /\ UNCHANGED fd

NoKids(p, place) == at' = [at EXCEPT ![p] = place] /\ UNCHANGED <<fd, parent, line>>

(* exit closes what is open and leaves the children to init.                 *)
OnlyOf(p) ==
    {k \in PipeIds : \A q \in Pids \ {p} : ~Holds(q, ReadEnd(k)) /\ ~Holds(q, WriteEnd(k))}

Exit(p) ==
    /\ at' = [at EXCEPT ![p] = "dead"]
    /\ fd' = [fd EXCEPT ![p] = AllClosed]
    /\ parent' = [c \in Pids |-> IF parent[c] = p THEN 1 ELSE parent[c]]
    /\ loose' = loose \ OnlyOf(p)
    /\ UNCHANGED <<line, task, which>>

-----------------------------------------------------------------------------
(* init: forks a login for which, and keeps what fork returns as its pid.    *)
(* The child executes login, which opens the terminal as 0, 1 and 2.         *)
Login(t) ==
    [at |-> "login", line |-> << >>,
     fd |-> [AllClosed EXCEPT ![0] = Tty(t), ![1] = Tty(t), ![2] = Tty(t)]]

(* Slip: the pid of a login that replaces another is not kept.               *)
Kept_bootOnly == IF at[1] = "boot" THEN [task EXCEPT ![which] = Pid] ELSE task

Kept == [task EXCEPT ![which] = Pid]

ForkLogin ==
    LET more == at[1] = "boot" /\ which < TERMS
    IN  /\ at[1] \in {"boot", "refork"}
        /\ Fork(1, GoesOn(1, IF more THEN "boot" ELSE "wait"), Login(which))
        /\ task' = Kept
        /\ which' = IF more THEN which + 1 ELSE which
        /\ UNCHANGED loose

(* Slip: whoever died, the first terminal is served.                         *)
Served_anyDeath(d) == {1}

(* The terminals for which init takes the pid that wait returned.            *)
Served(d) == {t \in Terminals : task[t] = d}

(* A terminal gets another login; anybody else was an orphan.                *)
React(d) ==
    /\ UNCHANGED <<task, loose>>
    /\ which' = IF Served(d) = {} THEN which ELSE Min(Served(d))

AfterWait(d) == IF Served(d) = {} THEN "wait" ELSE "refork"

InitWait ==
    /\ at[1] = "wait"
    /\ \/ \E d \in DeadKids(1) : Bury(1, d, AfterWait(d)) /\ React(d)
       \/ Kids(1) = {} /\ NoKids(1, AfterWait(-1)) /\ React(-1)

(* login, once it has a name and a password of /etc/passwd, becomes sh.      *)
LogsIn(p) ==
    /\ at[p] = "login"
    /\ at' = [at EXCEPT ![p] = "prompt"]
    /\ UNCHANGED <<fd, parent, line, task, which, loose>>

(* login ends at once when it cannot open /etc/passwd.                       *)
NoPasswd(p) == at[p] = "login" /\ Exit(p)

-----------------------------------------------------------------------------
(* sh: a line is read, for which it forks a child, or it ends.  It reads the *)
(* terminal or, when its exec failed behind a | or a <, the pipe or the file *)
(* that was meant for the program; where nothing is open it reads nothing.   *)
OnTty(p) == fd[p][0] \in {Tty(t) : t \in Terminals}
Prompts(p) == at[p] = "prompt" /\ fd[p][0] # Closed

Input(p) == IF OnTty(p) THEN Lines[fd[p][0][2]] ELSE Data

Command(p) ==
    /\ Prompts(p)
    /\ \E l \in Input(p) : Fork(p, GoesOn(p, "wait"), [at |-> "do_pipe", fd |-> fd[p], line |-> l])
    /\ UNCHANGED <<task, which, loose>>

Logout(p) == Prompts(p) /\ Exit(p)

(* sh goes on when any child has died, or when it has none.                  *)
ShellWait(p) ==
    /\ at[p] = "wait" /\ p # 1
    /\ \/ \E d \in DeadKids(p) : Bury(p, d, "prompt")
       \/ Kids(p) = {} /\ NoKids(p, "prompt")
    /\ UNCHANGED <<task, which, loose>>

(* scan finds the last | of the line, split cuts there.                      *)
HasPipe(l) == Len(l) > 1
Tail1(l) == <<l[Len(l)]>>
Head1(l) == SubSeq(l, 1, Len(l) - 1)

(* do_pipe: what follows the last | is for the process itself, what comes    *)
(* before it for a child that writes to the pipe.                            *)
do_pipe(p) ==
    /\ at[p] = "do_pipe"
    /\ IF HasPipe(line[p])
       THEN LET k == Min(FreePipes)
                f == [fd[p] EXCEPT ![3] = ReadEnd(k), ![4] = WriteEnd(k)]
            IN  /\ FreePipes # {}
                /\ Fork(p, [at |-> "reader", fd |-> f, line |-> Tail1(line[p])],
                           [at |-> "writer", fd |-> f, line |-> Head1(line[p])])
                /\ loose' = loose \ {k}
       ELSE at' = [at EXCEPT ![p] = "do_command"] /\ UNCHANGED <<fd, parent, line, loose>>
    /\ UNCHANGED <<task, which>>

(* Slip: the reader keeps the end it does not use.                           *)
AsReader_keepsWriteEnd(f) == [f EXCEPT ![0] = f[3], ![3] = Closed]

AsReader(f) == [f EXCEPT ![0] = f[3], ![3] = Closed, ![4] = Closed]

(* Slip: dup2 is left out where the writer is in the middle of a pipeline.   *)
AsWriter_firstOnly(f) ==
    [f EXCEPT ![1] = IF f[1][1] = "w" THEN f[1] ELSE f[4], ![3] = Closed, ![4] = Closed]

AsWriter(f) == [f EXCEPT ![1] = f[4], ![3] = Closed, ![4] = Closed]

TakesEnd(p) ==
    /\ \/ at[p] = "reader" /\ fd' = [fd EXCEPT ![p] = AsReader(@)]
                            /\ at' = [at EXCEPT ![p] = "do_command"]
       \/ at[p] = "writer" /\ fd' = [fd EXCEPT ![p] = AsWriter(@)]
                            /\ at' = [at EXCEPT ![p] = "do_pipe"]
    /\ UNCHANGED <<parent, line, task, which, loose>>

(* do_command: < with a file that is there, with one that is not (as f > g   *)
(* is not, when < and > come together), > and >> with a file that can be     *)
(* opened or not; exec returns only when there is no such program, and then  *)
(* the child goes on in the loop of main, with the descriptors it has.       *)
Redirected(f, form) ==
    CASE form = "in" -> [f EXCEPT ![0] = File]
      [] form = "missing" -> [f EXCEPT ![0] = Closed]
      [] form = "out" -> [f EXCEPT ![1] = File]
      [] form = "refused" -> [f EXCEPT ![1] = Closed]
      [] OTHER -> f

do_command(p) ==
    LET c == line[p][1]
    IN  /\ at[p] = "do_command"
        /\ fd' = [fd EXCEPT ![p] = Redirected(@, c.form)]
        /\ at' = [at EXCEPT ![p] = IF c.found THEN "program" ELSE "prompt"]
        /\ loose' = IF c.found THEN loose
                    ELSE loose \cup {k \in PipeIds : Holds(p, ReadEnd(k))' \/ Holds(p, WriteEnd(k))'}
        /\ UNCHANGED <<parent, line, task, which>>

(* A program ends; as cat, more and grep, one that reads a pipe does so when *)
(* no writer is left, or when nobody reads the pipe that it writes to.       *)
EndOfFile(p) == fd[p][0][1] = "r" => \A q \in Pids : ~Holds(q, WriteEnd(fd[p][0][2]))
Broken(p) == fd[p][1][1] = "w" /\ \A q \in Pids : ~Holds(q, ReadEnd(fd[p][1][2]))

Ends(p) == at[p] = "program" /\ (EndOfFile(p) \/ Broken(p)) /\ Exit(p)

-----------------------------------------------------------------------------
(* What a process does without anybody typing.                               *)
Proceeds(p) == ShellWait(p) \/ do_pipe(p) \/ TakesEnd(p) \/ do_command(p) \/ Ends(p)

SessionNext ==
    \/ ForkLogin \/ InitWait
    \/ \E p \in Pids : LogsIn(p) \/ NoPasswd(p) \/ Command(p) \/ Logout(p) \/ Proceeds(p)

(* The kernel runs every process that can go on.                             *)
SessionSpec ==
    /\ SessionInit /\ [][SessionNext]_sessionVars
    /\ WF_sessionVars(ForkLogin) /\ WF_sessionVars(InitWait)
    /\ \A p \in Pids : WF_sessionVars(Proceeds(p))

-----------------------------------------------------------------------------
Places == {"free", "dead", "boot", "refork", "wait", "login", "prompt", "do_pipe",
           "reader", "writer", "do_command", "program"}

SessionTypeOK ==
    /\ at \in [Pids -> Places]
    /\ parent \in [Pids -> Pids \cup {NULL}]
    /\ task \in [Terminals -> Pids \cup {NULL, -1}] /\ which \in Terminals
    /\ loose \subseteq PipeIds
    /\ \A p \in Pids : at[p] = "free" <=> parent[p] = NULL /\ p # 1

(* Whoever reads a pipe does not hold its write end, so that it finds the    *)
(* end of file when the writers are gone.                                    *)
NoOwnWriter ==
    \A p \in Pids, k \in PipeIds :
        at[p] = "program" /\ Holds(p, ReadEnd(k)) => ~Holds(p, WriteEnd(k))

(* Once both run, a pipe joins exactly the commands on the two sides of a |: *)
(* one process has its read end, as 0, and one its write end, as 1, unless   *)
(* one of these was not found.  The shell that is left in its place reads    *)
(* lines from the pipe, or writes to it, and so may several of its children; *)
(* but the pipes of the lines that it reads are again of two processes.      *)
Settled == \A p \in Pids : at[p] \notin {"do_pipe", "reader", "writer", "do_command"}

Running == {p \in Pids : at[p] = "program"}
Users(end, n) == {p \in Running : fd[p][n] = end}

Joined ==
    Settled => \A k \in PipeIds :
        /\ k \notin loose =>
               Cardinality(Users(ReadEnd(k), 0)) <= 1 /\ Cardinality(Users(WriteEnd(k), 1)) <= 1
        /\ \A n \in 0 .. 4 : /\ n # 0 => Users(ReadEnd(k), n) = {}
                             /\ n # 1 => Users(WriteEnd(k), n) = {}

(* init never has two logins, or the shells they became, on one terminal.    *)
Session(p) == at[p] \notin {"free", "dead"} /\ p # 1 /\ line[p] = << >>

OneSession ==
    \A p, q \in Pids : Session(p) /\ Session(q) /\ fd[p][0] = fd[q][0] => p = q

(* init knows who is on each terminal: a child of its own, unless it is      *)
(* about to fork one, or a fork failed, of which it keeps the -1.            *)
NobodyForgotten ==
    /\ SessionTypeOK
    /\ \A t \in Terminals :
        \/ task[t] \in Kids(1) \/ task[t] = -1
        \/ at[1] = "boot" /\ which <= t
        \/ at[1] = "refork" /\ which = t

(* A child of sh that found no program, and is a shell itself now.           *)
Astray(p) == at[p] = "prompt" /\ line[p] # << >>

(* As long as every command is found, the prompt of a terminal always comes  *)
(* back: the readers of a pipeline find the end of file once its first       *)
(* command has ended, forks that fail, orphans that run on and what shells   *)
(* that went astray before have left behind included.                        *)
Busy(t) == \E p \in Pids : Session(p) /\ fd[p][0] = Tty(t) /\ at[p] = "wait"

LinesEnd ==
    \A t \in Terminals : Busy(t) ~> ~Busy(t) \/ \E p \in Pids : Astray(p)
=============================================================================
