--------------------------- MODULE SessionProofs ---------------------------
(***************************************************************************)
(* What init, login and sh of 8-final keep true for any number of          *)
(* processes, terminals, pipes and command lines: init knows who is on     *)
(* each terminal, and the pipe between two commands joins just these two.  *)
(***************************************************************************)
EXTENDS Session, FiniteSetTheorems, SequenceTheorems, TLAPS

USE SessionAssumption DEF NULL, Pids, Terminals, PipeIds

(* What a descriptor is open on, if at all.                                  *)
Opens == {Closed, File} \cup {Tty(t) : t \in Terminals}
         \cup {ReadEnd(k) : k \in PipeIds} \cup {WriteEnd(k) : k \in PipeIds}

(* Types, and where init and its descendants are in their programs.          *)
Shape ==
    /\ SessionTypeOK
    /\ fd \in [Pids -> [0 .. 4 -> Opens]]
    /\ line \in [Pids -> Seq(Commands)]
    /\ at[1] \in {"boot", "refork", "wait"}
    /\ \A p \in Pids :
          /\ p # 1 => at[p] \notin {"boot", "refork"}
          /\ at[p] \in {"do_pipe", "reader", "writer", "do_command", "program"}
                => line[p] # << >>

(* The terminals whose task is up to date: not those that init has yet to    *)
(* serve.                                                                    *)
UpToDate(t) == /\ at[1] = "boot" => t < which
               /\ at[1] = "refork" => t # which

(* The tasks of these terminals are different children of init, or -1, and   *)
(* whoever keeps a session is the task of its terminal.                      *)
InitKnows ==
    /\ \A t \in Terminals : UpToDate(t) => task[t] \in Kids(1) \cup {-1}
    /\ \A t, u \in Terminals :
          UpToDate(t) /\ UpToDate(u) /\ task[t] = task[u] /\ task[t] # -1 => t = u
    /\ \A p \in Pids : Session(p) =>
          \E t \in Terminals : UpToDate(t) /\ fd[p][0] = Tty(t) /\ task[t] = p

(* What the descriptors of p may be: 3 and 4 are open only between pipe and  *)
(* dup2, and then on a pipe that p has nothing else of; 0 is never a write   *)
(* end nor 1 a read end, and 0 and 1 are never the two ends of one pipe.     *)
Descriptors(p) ==
    /\ \A k \in PipeIds :
          /\ fd[p][0] # WriteEnd(k) /\ fd[p][1] # ReadEnd(k)
          /\ fd[p][2] # ReadEnd(k) /\ fd[p][2] # WriteEnd(k)
          /\ fd[p][0] = ReadEnd(k) => fd[p][1] # WriteEnd(k)
    /\ at[p] \notin {"reader", "writer"} => fd[p][3] = Closed /\ fd[p][4] = Closed
    /\ at[p] \in {"reader", "writer"} =>
          \E k \in PipeIds : /\ fd[p][3] = ReadEnd(k) /\ fd[p][4] = WriteEnd(k)
                             /\ fd[p][0] # ReadEnd(k) /\ fd[p][1] # WriteEnd(k)
    /\ at[p] \in {"free", "dead"} => fd[p] = AllClosed

(* Who reads pipe k, or is about to, and who writes to it.                   *)
Reads(p, k) == IF at[p] = "reader" THEN fd[p][3] = ReadEnd(k) ELSE fd[p][0] = ReadEnd(k)
Writes(p, k) == IF at[p] = "writer" THEN fd[p][4] = WriteEnd(k) ELSE fd[p][1] = WriteEnd(k)

(* Where in their programs they may be, so that no child inherits an end     *)
(* that it keeps.                                                            *)
Reading == {"reader", "do_command", "program"}
Writing == {"writer", "do_pipe", "reader", "do_command", "program"}

(* Every pipe that no shell was left with has one reader and one writer.     *)
EndsOf(k) ==
    /\ \A p, q \in Pids : Reads(p, k) /\ Reads(q, k) => p = q
    /\ \A p, q \in Pids : Writes(p, k) /\ Writes(q, k) => p = q
    /\ \A p \in Pids : /\ Reads(p, k) => at[p] \in Reading
                       /\ Writes(p, k) => at[p] \in Writing

SessionIInv ==
    /\ Shape /\ InitKnows
    /\ \A p \in Pids : Descriptors(p)
    /\ \A k \in PipeIds \ loose : EndsOf(k)


-----------------------------------------------------------------------------
(* Different things that a descriptor is open on are different.              *)
LEMMA OpensDiffer ==
  /\ Closed \in Opens /\ File \in Opens
  /\ \A t \in Terminals : Tty(t) \in Opens /\ Tty(t)[1] = "tty" /\ Tty(t)[2] = t
  /\ \A t, u \in Terminals : Tty(t) = Tty(u) => t = u
  /\ \A k \in PipeIds : /\ ReadEnd(k) \in Opens /\ WriteEnd(k) \in Opens
                        /\ ReadEnd(k)[1] = "r" /\ WriteEnd(k)[1] = "w"
                        /\ ReadEnd(k)[2] = k /\ WriteEnd(k)[2] = k
                        /\ ReadEnd(k) \notin {Closed, File} /\ WriteEnd(k) \notin {Closed, File}
  /\ \A k \in PipeIds, t \in Terminals : Tty(t) # ReadEnd(k) /\ Tty(t) # WriteEnd(k)
  /\ \A k, j \in PipeIds : /\ ReadEnd(k) # WriteEnd(j)
                           /\ ReadEnd(k) = ReadEnd(j) => k = j
                           /\ WriteEnd(k) = WriteEnd(j) => k = j
  /\ \A t \in Terminals : Tty(t) \notin {Closed, File}
  BY DEF Opens, Closed, File, Tty, ReadEnd, WriteEnd

(* The least of some natural numbers is one of them.                         *)
LEMMA MinIn ==
  ASSUME NEW T, T \subseteq Nat, T # {}
  PROVE  Min(T) \in T
<1> DEFINE R == OpToRel(<, Nat)
<1>1. IsWellFoundedOn(R, Nat)
  BY NatLessThanWellFounded
<1>2. PICK x \in T : \A y \in T : ~(<<y, x>> \in R)
  <2> HIDE DEF R
  <2> QED
    BY <1>1, WFMin
<1>3. ASSUME NEW y \in T PROVE x <= y
  <2>1. ~(y < x)
    BY <1>2 DEF OpToRel
  <2> QED
    BY <2>1
<1> QED
  BY <1>3 DEF Min

(* fork takes a PROC that is free, and init's is not.                        *)
LEMMA FreeOne ==
  ASSUME Shape, Free # {}
  PROVE  Min(Free) \in Pids \ {1} /\ at[Min(Free)] = "free"
<1>1. Free \subseteq Nat
  BY DEF Free
<1>2. Min(Free) \in Free
  BY <1>1, MinIn
<1> QED
  BY <1>2 DEF Free, Shape

(* Steps that leave init's book-keeping alone.                               *)
LEMMA InitKnowsStays ==
  ASSUME Shape, InitKnows, UNCHANGED <<task, which>>, at'[1] = at[1],
         \A c \in Kids(1) : parent'[c] = 1,
         \A q \in Pids : Session(q)' => Session(q) /\ fd'[q][0] = fd[q][0]
  PROVE  InitKnows'
<1>1. \A t \in Terminals : UpToDate(t)' <=> UpToDate(t)
  BY DEF UpToDate
<1>2. \A t \in Terminals : UpToDate(t)' => task'[t] \in Kids(1)' \cup {-1}
  BY <1>1 DEF InitKnows, Kids
<1>3. ASSUME NEW q \in Pids, Session(q)'
      PROVE  \E t \in Terminals : UpToDate(t)' /\ fd'[q][0] = Tty(t)' /\ task'[t] = q
  <2>1. Session(q) /\ fd'[q][0] = fd[q][0]
    BY <1>3
  <2>2. PICK t \in Terminals : UpToDate(t) /\ fd[q][0] = Tty(t) /\ task[t] = q
    BY <2>1 DEF InitKnows
  <2> QED
    BY <1>1, <2>1, <2>2 DEF Tty
<1> QED
  BY <1>1, <1>2, <1>3 DEF InitKnows

(* Steps after which pipe k has no reader and no writer that it did not      *)
(* have, nor one in a place where there should be none.                      *)
LEMMA EndsStay ==
  ASSUME NEW k \in PipeIds, EndsOf(k),
         \A q \in Pids : Reads(q, k)' => Reads(q, k) /\ at'[q] \in Reading,
         \A q \in Pids : Writes(q, k)' => Writes(q, k) /\ at'[q] \in Writing
  PROVE  EndsOf(k)'
<1>1. ASSUME NEW p \in Pids, NEW q \in Pids PROVE Reads(p, k)' /\ Reads(q, k)' => p = q
  BY DEF EndsOf
<1>2. ASSUME NEW p \in Pids, NEW q \in Pids PROVE Writes(p, k)' /\ Writes(q, k)' => p = q
  BY DEF EndsOf
<1>3. Reading' = Reading /\ Writing' = Writing
  BY DEF Reading, Writing
<1> QED
  BY <1>1, <1>2, <1>3 DEF EndsOf

(* Whoever does nothing keeps its descriptors, and its part in the pipes.    *)
LEMMA SameDescriptors ==
  ASSUME NEW q \in Pids, at'[q] = at[q], fd'[q] = fd[q]
  PROVE  /\ Descriptors(q) => Descriptors(q)'
         /\ \A k \in PipeIds : /\ Reads(q, k)' <=> Reads(q, k)
                               /\ Writes(q, k)' <=> Writes(q, k)
<1>1. Descriptors(q) => Descriptors(q)'
  BY DEF Descriptors
<1>2. ASSUME NEW k \in PipeIds
      PROVE  (Reads(q, k)' <=> Reads(q, k)) /\ (Writes(q, k)' <=> Writes(q, k))
  BY DEF Reads, Writes
<1> QED
  BY <1>1, <1>2

(* A step of p alone, to place, with descriptors f and what is left of its   *)
(* line: no process is born, dies or gets another parent.                    *)
LEMMA MoveKeeps ==
  ASSUME SessionIInv, NEW p \in Pids \ {1}, at[p] \notin {"free", "dead"},
         NEW place \in Places \ {"free", "dead", "boot", "refork"},
         NEW f \in [0 .. 4 -> Opens], NEW l \in Seq(Commands),
         at' = [at EXCEPT ![p] = place], fd' = [fd EXCEPT ![p] = f],
         line' = [line EXCEPT ![p] = l], UNCHANGED <<parent, task, which>>,
         loose' \subseteq PipeIds,
         place \in {"do_pipe", "reader", "writer", "do_command", "program"} => l # << >>,
         l = << >> => line[p] = << >> /\ f[0] = fd[p][0],
         Descriptors(p)',
         \A k \in PipeIds \ loose' :
            \/ /\ k \notin loose
               /\ Reads(p, k)' => Reads(p, k) /\ place \in Reading
               /\ Writes(p, k)' => Writes(p, k) /\ place \in Writing
            \/ EndsOf(k)'
  PROVE  SessionIInv'
<1>1. /\ \A q \in Pids : /\ at'[q] = IF q = p THEN place ELSE at[q]
                         /\ fd'[q] = IF q = p THEN f ELSE fd[q]
                         /\ line'[q] = IF q = p THEN l ELSE line[q]
      /\ at' \in [Pids -> Places] /\ fd' \in [Pids -> [0 .. 4 -> Opens]]
      /\ line' \in [Pids -> Seq(Commands)]
  BY DEF SessionIInv, Shape, SessionTypeOK
<1>2. 1 \in Pids
  OBVIOUS
<1>3. Shape'
  <2>1. ASSUME NEW q \in Pids PROVE at'[q] = "free" <=> parent'[q] = NULL /\ q # 1
    BY <1>1 DEF SessionIInv, Shape, SessionTypeOK
  <2>2. SessionTypeOK'
    BY <1>1, <2>1 DEF SessionIInv, Shape, SessionTypeOK
  <2>3. ASSUME NEW q \in Pids
        PROVE  /\ q # 1 => at'[q] \notin {"boot", "refork"}
               /\ at'[q] \in {"do_pipe", "reader", "writer", "do_command", "program"}
                     => line'[q] # << >>
    BY <1>1 DEF SessionIInv, Shape
  <2>4. at'[1] \in {"boot", "refork", "wait"}
    BY <1>1, <1>2 DEF SessionIInv, Shape
  <2> QED
    BY <1>1, <2>2, <2>3, <2>4 DEF Shape
<1>4. InitKnows'
  <2>1. \A q \in Pids : Session(q)' => Session(q) /\ fd'[q][0] = fd[q][0]
    BY <1>1 DEF Session
  <2>2. \A c \in Kids(1) : parent'[c] = 1
    BY DEF Kids
  <2> QED
    BY <1>1, <1>2, <2>1, <2>2, InitKnowsStays DEF SessionIInv
<1>5. \A q \in Pids \ {p} : at'[q] = at[q] /\ fd'[q] = fd[q]
  BY <1>1
<1>6. ASSUME NEW q \in Pids PROVE Descriptors(q)'
  BY <1>5, SameDescriptors DEF SessionIInv
<1>7. ASSUME NEW k \in PipeIds \ loose' PROVE EndsOf(k)'
  <2>1. ASSUME k \notin loose,
               Reads(p, k)' => Reads(p, k) /\ place \in Reading,
               Writes(p, k)' => Writes(p, k) /\ place \in Writing
        PROVE  EndsOf(k)'
    <3>1. EndsOf(k)
      BY <2>1 DEF SessionIInv
    <3>2. ASSUME NEW q \in Pids
          PROVE  /\ Reads(q, k)' => Reads(q, k) /\ at'[q] \in Reading
                 /\ Writes(q, k)' => Writes(q, k) /\ at'[q] \in Writing
      <4>1. CASE q = p
        BY <1>1, <2>1, <4>1
      <4>2. CASE q # p
        BY <1>5, <3>1, <4>2, SameDescriptors DEF EndsOf
      <4> QED
        BY <4>1, <4>2
    <3> QED
      BY <3>1, <3>2, EndsStay
  <2> QED
    BY <2>1
<1> QED
  BY <1>3, <1>4, <1>6, <1>7 DEF SessionIInv

(* exit: nothing is left of the pipes that only p had.                       *)
LEMMA ExitKeeps ==
  ASSUME SessionIInv, NEW p \in Pids \ {1}, at[p] \notin {"free", "dead"}, Exit(p)
  PROVE  SessionIInv'
<1>1. /\ \A q \in Pids : /\ at'[q] = IF q = p THEN "dead" ELSE at[q]
                         /\ fd'[q] = IF q = p THEN AllClosed ELSE fd[q]
                         /\ parent'[q] = IF parent[q] = p THEN 1 ELSE parent[q]
      /\ at' \in [Pids -> Places] /\ fd' \in [Pids -> [0 .. 4 -> Opens]]
      /\ parent' \in [Pids -> Pids \cup {NULL}]
      /\ UNCHANGED <<line, task, which>> /\ loose' = loose \ OnlyOf(p)
  <2>1. AllClosed \in [0 .. 4 -> Opens]
    BY OpensDiffer DEF AllClosed
  <2>2. /\ at \in [Pids -> Places] /\ fd \in [Pids -> [0 .. 4 -> Opens]]
        /\ parent \in [Pids -> Pids \cup {NULL}]
    BY DEF SessionIInv, Shape, SessionTypeOK
  <2>3. "dead" \in Places
    BY DEF Places
  <2> QED
    BY <2>1, <2>2, <2>3 DEF Exit
<1>2. 1 \in Pids
  OBVIOUS
<1>3. Shape'
  <2>1. ASSUME NEW q \in Pids PROVE at'[q] = "free" <=> parent'[q] = NULL /\ q # 1
    <3>1. at[q] = "free" <=> parent[q] = NULL /\ q # 1
      BY DEF SessionIInv, Shape, SessionTypeOK
    <3>2. parent'[q] = NULL <=> parent[q] = NULL
      BY <1>1
    <3>3. at'[q] = "free" <=> at[q] = "free"
      BY <1>1
    <3> QED
      BY <3>1, <3>2, <3>3
  <2> QED
    BY <1>1, <1>2, <2>1 DEF SessionIInv, Shape, SessionTypeOK
<1>4. InitKnows'
  <2>1. \A q \in Pids : Session(q)' => Session(q) /\ fd'[q][0] = fd[q][0]
    BY <1>1 DEF Session
  <2>2. \A c \in Kids(1) : parent'[c] = 1
    BY <1>1 DEF Kids
  <2> QED
    BY <1>1, <1>2, <2>1, <2>2, InitKnowsStays DEF SessionIInv
<1>5. \A q \in Pids \ {p} : at'[q] = at[q] /\ fd'[q] = fd[q]
  BY <1>1
<1>6. Descriptors(p)' /\ \A k \in PipeIds : ~Reads(p, k)' /\ ~Writes(p, k)'
  <2>1. fd'[p] = AllClosed /\ at'[p] = "dead"
    BY <1>1
  <2> QED
    BY <2>1, OpensDiffer DEF Descriptors, Reads, Writes, AllClosed
<1>7. ASSUME NEW q \in Pids PROVE Descriptors(q)'
  BY <1>5, <1>6, SameDescriptors DEF SessionIInv
<1>8. ASSUME NEW k \in PipeIds \ loose' PROVE EndsOf(k)'
  <2>1. CASE k \in loose
    <3>1. \A q \in Pids \ {p}, n \in 0 .. 4 : fd[q][n] # ReadEnd(k) /\ fd[q][n] # WriteEnd(k)
      BY <1>1, <2>1 DEF OnlyOf, Holds
    <3>2. ASSUME NEW q \in Pids \ {p} PROVE ~Reads(q, k)' /\ ~Writes(q, k)'
      BY <1>5, <3>1, SameDescriptors DEF Reads, Writes
    <3> QED
      BY <1>6, <3>2 DEF EndsOf
  <2>2. CASE k \notin loose
    <3>1. EndsOf(k)
      BY <2>2 DEF SessionIInv
    <3>2. ASSUME NEW q \in Pids
          PROVE  /\ Reads(q, k)' => Reads(q, k) /\ at'[q] \in Reading
                 /\ Writes(q, k)' => Writes(q, k) /\ at'[q] \in Writing
      BY <1>5, <1>6, <3>1, SameDescriptors DEF EndsOf
    <3> QED
      BY <3>1, <3>2, EndsStay
  <2> QED
    BY <2>1, <2>2
<1> QED
  BY <1>3, <1>4, <1>7, <1>8 DEF SessionIInv

(* What a command line leaves to each of the two sides of its last |.        *)
LEMMA LinesSplit ==
  ASSUME NEW l \in Seq(Commands), l # << >>
  PROVE  /\ Tail1(l) \in Seq(Commands) /\ Tail1(l) # << >>
         /\ HasPipe(l) => Head1(l) \in Seq(Commands) /\ Head1(l) # << >>
<1>1. Len(l) \in 1 .. Len(l) /\ l[Len(l)] \in Commands
  OBVIOUS
<1>2. Tail1(l) \in Seq(Commands) /\ Len(Tail1(l)) = 1
  BY <1>1 DEF Tail1
<1>3. ASSUME HasPipe(l) PROVE Head1(l) \in Seq(Commands) /\ Len(Head1(l)) = Len(l) - 1 /\ Len(l) > 1
  BY <1>1, <1>3 DEF Head1, HasPipe
<1>4. \A m \in Seq(Commands) : Len(m) # 0 => m # << >>
  OBVIOUS
<1>5. Tail1(l) # << >>
  <2>1. Len(Tail1(l)) # 0
    BY <1>2
  <2> QED
    BY <1>2, <1>4, <2>1, Zenon
<1>6. HasPipe(l) => Head1(l) # << >>
  BY <1>1, <1>3, <1>4
<1> QED
  BY <1>2, <1>3, <1>5, <1>6

(* login becomes sh.                                                         *)
LEMMA LogsInKeeps ==
  ASSUME SessionIInv, NEW p \in Pids, LogsIn(p)
  PROVE  SessionIInv'
<1>1. /\ p # 1 /\ at[p] = "login" /\ at' = [at EXCEPT ![p] = "prompt"]
      /\ UNCHANGED <<fd, parent, line, task, which>>
  BY DEF LogsIn, SessionIInv, Shape
<1>2. /\ fd \in [Pids -> [0 .. 4 -> Opens]] /\ line \in [Pids -> Seq(Commands)]
      /\ at \in [Pids -> Places]
  BY DEF SessionIInv, Shape, SessionTypeOK
<1>3. fd' = [fd EXCEPT ![p] = fd[p]] /\ line' = [line EXCEPT ![p] = line[p]] /\ at'[p] = "prompt"
  BY <1>1, <1>2
<1>4. Descriptors(p)'
  <2>1. Descriptors(p)
    BY DEF SessionIInv
  <2> QED
    BY <1>1, <1>3, <2>1 DEF Descriptors
<1>5. \A k \in PipeIds \ loose : ~Reads(p, k)' /\ ~Writes(p, k)'
  BY <1>1, <1>3 DEF SessionIInv, EndsOf, Reading, Writing, Reads, Writes
<1>6. loose' = loose /\ loose \subseteq PipeIds
  BY DEF LogsIn, SessionIInv, Shape, SessionTypeOK
<1>7. "prompt" \in Places \ {"free", "dead", "boot", "refork"}
  BY DEF Places
<1>8. fd[p] \in [0 .. 4 -> Opens] /\ line[p] \in Seq(Commands)
  BY <1>2
<1> QED
  BY <1>1, <1>3, <1>4, <1>5, <1>6, <1>7, <1>8, MoveKeeps

(* The two programs dup2 what they need of the pipe, and close the rest.     *)
LEMMA TakesEndKeeps ==
  ASSUME SessionIInv, NEW p \in Pids, TakesEnd(p)
  PROVE  SessionIInv'
<1>1. /\ p # 1 /\ at[p] \in {"reader", "writer"} /\ UNCHANGED <<parent, line, task, which, loose>>
      /\ loose' \subseteq PipeIds
  BY DEF TakesEnd, SessionIInv, Shape, SessionTypeOK
<1>2. /\ fd \in [Pids -> [0 .. 4 -> Opens]] /\ line \in [Pids -> Seq(Commands)]
      /\ at \in [Pids -> Places]
  BY DEF SessionIInv, Shape, SessionTypeOK
<1>3. fd[p] \in [0 .. 4 -> Opens] /\ line[p] \in Seq(Commands) /\ line' = [line EXCEPT ![p] = line[p]]
      /\ line[p] # << >>
  BY <1>1, <1>2 DEF SessionIInv, Shape
<1>4. Descriptors(p)
  BY DEF SessionIInv
<1>5. PICK j \in PipeIds : /\ fd[p][3] = ReadEnd(j) /\ fd[p][4] = WriteEnd(j)
                           /\ fd[p][0] # ReadEnd(j) /\ fd[p][1] # WriteEnd(j)
  BY <1>1, <1>4 DEF Descriptors
<1>6. ASSUME NEW k \in PipeIds \ loose
      PROVE  /\ Reads(p, k) => at[p] \in Reading
             /\ Writes(p, k) => at[p] \in Writing
  BY DEF SessionIInv, EndsOf
<1>7. CASE at[p] = "reader"
  <2>1. PICK f : f = AsReader(fd[p])
    OBVIOUS
  <2>2. /\ f \in [0 .. 4 -> Opens]
        /\ f[0] = ReadEnd(j) /\ f[1] = fd[p][1] /\ f[2] = fd[p][2] /\ f[3] = Closed /\ f[4] = Closed
    BY SMTT(30), <1>3, <1>5, <2>1, OpensDiffer DEF AsReader
  <2>3. fd' = [fd EXCEPT ![p] = f] /\ at' = [at EXCEPT ![p] = "do_command"]
    BY <1>7, <2>1 DEF TakesEnd
  <2>4. fd'[p] = f /\ at'[p] = "do_command"
    BY <1>2, <2>3
  <2>5. Descriptors(p)'
    BY <1>4, <1>5, <2>2, <2>4, OpensDiffer DEF Descriptors
  <2>6. \A k \in PipeIds : (Reads(p, k)' => Reads(p, k)) /\ (Writes(p, k)' => Writes(p, k))
    BY <1>5, <1>7, <2>2, <2>4 DEF Reads, Writes
  <2>7. "do_command" \in Reading /\ "do_command" \in Writing
    BY DEF Reading, Writing
  <2>8. "do_command" \in Places \ {"free", "dead", "boot", "refork"}
    BY DEF Places
  <2> QED
    BY <1>1, <1>3, <1>7, <2>2, <2>3, <2>5, <2>6, <2>7, <2>8, MoveKeeps
<1>8. CASE at[p] = "writer"
  <2>1. PICK f : f = AsWriter(fd[p])
    OBVIOUS
  <2>2. /\ f \in [0 .. 4 -> Opens]
        /\ f[0] = fd[p][0] /\ f[1] = WriteEnd(j) /\ f[2] = fd[p][2] /\ f[3] = Closed /\ f[4] = Closed
    BY SMTT(30), <1>3, <1>5, <2>1, OpensDiffer DEF AsWriter
  <2>3. fd' = [fd EXCEPT ![p] = f] /\ at' = [at EXCEPT ![p] = "do_pipe"]
    BY <1>8, <2>1 DEF TakesEnd
  <2>4. fd'[p] = f /\ at'[p] = "do_pipe"
    BY <1>2, <2>3
  <2>5. Descriptors(p)'
    BY <1>4, <1>5, <2>2, <2>4, OpensDiffer DEF Descriptors
  <2>6. \A k \in PipeIds : (Reads(p, k)' => Reads(p, k)) /\ (Writes(p, k)' => Writes(p, k))
    BY <1>5, <1>8, <2>2, <2>4 DEF Reads, Writes
  <2>7. "do_pipe" \in Writing /\ \A k \in PipeIds \ loose : ~Reads(p, k)
    BY <1>6, <1>8 DEF Reading, Writing
  <2>8. "do_pipe" \in Places \ {"free", "dead", "boot", "refork"}
    BY DEF Places
  <2> QED
    BY <1>1, <1>3, <1>8, <2>2, <2>3, <2>5, <2>6, <2>7, <2>8, MoveKeeps
<1> QED
  BY <1>1, <1>7, <1>8

(* Redirection and exec: a command that is not found leaves a shell behind.  *)
LEMMA DoCommandKeeps ==
  ASSUME SessionIInv, NEW p \in Pids, do_command(p)
  PROVE  SessionIInv'
<1>1. /\ p # 1 /\ at[p] = "do_command" /\ UNCHANGED <<parent, line, task, which>>
  BY DEF do_command, SessionIInv, Shape
<1>2. /\ fd \in [Pids -> [0 .. 4 -> Opens]] /\ line \in [Pids -> Seq(Commands)]
      /\ at \in [Pids -> Places]
  BY DEF SessionIInv, Shape, SessionTypeOK
<1>3. fd[p] \in [0 .. 4 -> Opens] /\ line[p] \in Seq(Commands) /\ line' = [line EXCEPT ![p] = line[p]]
      /\ line[p] # << >>
  BY <1>1, <1>2 DEF SessionIInv, Shape
<1>4. Descriptors(p)
  BY DEF SessionIInv
<1>5. PICK f, place : /\ f = Redirected(fd[p], line[p][1].form)
                      /\ place = IF line[p][1].found THEN "program" ELSE "prompt"
  OBVIOUS
<1>6. fd' = [fd EXCEPT ![p] = f] /\ at' = [at EXCEPT ![p] = place] /\ place \in {"program", "prompt"}
  BY <1>5 DEF do_command
<1>7. /\ f \in [0 .. 4 -> Opens]
      /\ f[0] \in {fd[p][0], File, Closed} /\ f[1] \in {fd[p][1], File, Closed}
      /\ f[2] = fd[p][2] /\ f[3] = fd[p][3] /\ f[4] = fd[p][4]
  BY SMTT(30), <1>3, <1>5, OpensDiffer DEF Redirected
<1>8. fd'[p] = f /\ at'[p] = place
  BY <1>2, <1>6
<1>9. Descriptors(p)'
  BY <1>1, <1>4, <1>6, <1>7, <1>8, OpensDiffer DEF Descriptors
<1>10. \A k \in PipeIds : (Reads(p, k)' => Reads(p, k)) /\ (Writes(p, k)' => Writes(p, k))
  BY <1>1, <1>6, <1>7, <1>8, OpensDiffer DEF Reads, Writes
<1>11. /\ loose' = IF line[p][1].found THEN loose
                   ELSE loose \cup {k \in PipeIds : Holds(p, ReadEnd(k))' \/ Holds(p, WriteEnd(k))'}
       /\ loose \subseteq PipeIds
  BY DEF do_command, SessionIInv, Shape, SessionTypeOK
<1>12. ASSUME NEW k \in PipeIds \ loose'
       PROVE  /\ k \notin loose
              /\ Reads(p, k)' => place \in Reading
              /\ Writes(p, k)' => place \in Writing
  <2>1. CASE place = "program"
    BY <1>5, <1>11, <2>1 DEF Reading, Writing
  <2>2. CASE place = "prompt"
    <3>1. ~line[p][1].found
      BY <1>5, <2>2
    <3>2. k \notin loose /\ \A n \in 0 .. 4 : fd'[p][n] # ReadEnd(k) /\ fd'[p][n] # WriteEnd(k)
      BY <1>11, <3>1 DEF Holds, ReadEnd, WriteEnd
    <3>3. ~Reads(p, k)' /\ ~Writes(p, k)'
      BY <3>2 DEF Reads, Writes, ReadEnd, WriteEnd
    <3> QED
      BY <3>2, <3>3
  <2> QED
    BY <1>6, <2>1, <2>2
<1>13. place \in Places \ {"free", "dead", "boot", "refork"}
  BY <1>6 DEF Places
<1> QED
  BY <1>1, <1>3, <1>6, <1>7, <1>9, <1>10, <1>11, <1>12, <1>13, MoveKeeps

(* A waiting process p lays its child d to rest and goes on at place.        *)
LEMMA BuryKeeps ==
  ASSUME SessionIInv, NEW p \in Pids, at[p] = "wait", NEW d \in Pids,
         parent[d] = p, at[d] = "dead", NEW place \in {"prompt", "wait", "refork"},
         place = "prompt" <=> p # 1, Bury(p, d, place),
         UNCHANGED <<task, loose>>, which' \in Terminals, InitKnows'
  PROVE  SessionIInv'
<1>1. /\ fd \in [Pids -> [0 .. 4 -> Opens]] /\ line \in [Pids -> Seq(Commands)]
      /\ at \in [Pids -> Places] /\ parent \in [Pids -> Pids \cup {NULL}]
  BY DEF SessionIInv, Shape, SessionTypeOK
<1>2. d # 1 /\ d # p /\ 1 \in Pids /\ {"free", "prompt", "wait", "refork"} \subseteq Places
  BY DEF SessionIInv, Shape, Places
<1>3. /\ \A q \in Pids :
            /\ at'[q] = IF q = d THEN "free" ELSE IF q = p THEN place ELSE at[q]
            /\ parent'[q] = IF q = d THEN NULL ELSE parent[q]
            /\ line'[q] = IF q = d THEN << >> ELSE line[q]
      /\ UNCHANGED fd
      /\ at' \in [Pids -> Places] /\ parent' \in [Pids -> Pids \cup {NULL}]
      /\ line' \in [Pids -> Seq(Commands)]
  <2>1. << >> \in Seq(Commands)
    OBVIOUS
  <2> QED
    BY <1>1, <1>2, <2>1 DEF Bury
<1>4. Shape'
  <2>1. ASSUME NEW q \in Pids PROVE at'[q] = "free" <=> parent'[q] = NULL /\ q # 1
    <3>1. at[q] = "free" <=> parent[q] = NULL /\ q # 1
      BY DEF SessionIInv, Shape, SessionTypeOK
    <3> QED
      BY <1>2, <1>3, <3>1
  <2>2. SessionTypeOK'
    BY <1>3, <2>1 DEF SessionIInv, Shape, SessionTypeOK
  <2> QED
    BY <1>1, <1>2, <1>3, <2>2 DEF SessionIInv, Shape
<1>5. ASSUME NEW q \in Pids PROVE Descriptors(q)'
  <2>1. Descriptors(q) /\ fd'[q] = fd[q]
    BY <1>3 DEF SessionIInv
  <2>2. \/ at'[q] = at[q]
        \/ at[q] = "wait" /\ at'[q] \in {"prompt", "wait", "refork"}
        \/ at[q] = "dead" /\ at'[q] = "free"
    BY <1>3
  <2> QED
    BY <2>1, <2>2 DEF Descriptors
<1>6. ASSUME NEW k \in PipeIds \ loose' PROVE EndsOf(k)'
  <2>1. EndsOf(k)
    BY DEF SessionIInv
  <2>2. ASSUME NEW q \in Pids
        PROVE  /\ Reads(q, k)' => Reads(q, k) /\ at'[q] \in Reading
               /\ Writes(q, k)' => Writes(q, k) /\ at'[q] \in Writing
    <3>1. (Writes(q, k)' <=> Writes(q, k)) /\ (Reads(q, k)' <=> Reads(q, k))
      BY <1>3 DEF Writes, Reads
    <3>2. at'[q] = at[q] \/ at[q] \in {"wait", "dead"}
      BY <1>3
    <3> QED
      BY <2>1, <3>1, <3>2 DEF EndsOf, Reading, Writing
  <2> QED
    BY <2>1, <2>2, EndsStay
<1> QED
  BY <1>4, <1>5, <1>6 DEF SessionIInv

(* sh stops waiting: its child is buried, or it has none.                    *)
LEMMA ShellWaitKeeps ==
  ASSUME SessionIInv, NEW p \in Pids, ShellWait(p)
  PROVE  SessionIInv'
<1>1. p # 1 /\ at[p] = "wait" /\ UNCHANGED <<task, which, loose>> /\ loose \subseteq PipeIds
  BY DEF ShellWait, SessionIInv, Shape, SessionTypeOK
<1>2. /\ fd \in [Pids -> [0 .. 4 -> Opens]] /\ line \in [Pids -> Seq(Commands)]
      /\ at \in [Pids -> Places] /\ parent \in [Pids -> Pids \cup {NULL}]
  BY DEF SessionIInv, Shape, SessionTypeOK
<1>3. "prompt" \in Places \ {"free", "dead", "boot", "refork"} /\ "free" \in Places /\ 1 \in Pids
  BY DEF Places
<1>4. CASE Kids(p) = {} /\ NoKids(p, "prompt")
  <2>1. /\ at' = [at EXCEPT ![p] = "prompt"] /\ fd' = [fd EXCEPT ![p] = fd[p]]
        /\ line' = [line EXCEPT ![p] = line[p]] /\ UNCHANGED parent
    BY <1>2, <1>4 DEF NoKids
  <2>2. at'[p] = "prompt" /\ fd'[p] = fd[p]
    BY <1>2, <2>1
  <2>3. Descriptors(p)
    BY DEF SessionIInv
  <2>4. Descriptors(p)'
    BY <1>1, <2>2, <2>3 DEF Descriptors
  <2>5. \A k \in PipeIds \ loose : ~Reads(p, k)' /\ ~Writes(p, k)'
    BY <1>1, <2>2 DEF SessionIInv, EndsOf, Reading, Writing, Reads, Writes
  <2>6. fd[p] \in [0 .. 4 -> Opens] /\ line[p] \in Seq(Commands)
    BY <1>2
  <2> QED
    BY <1>1, <1>3, <1>4, <2>1, <2>4, <2>5, <2>6, MoveKeeps
<1>5. CASE \E d \in DeadKids(p) : Bury(p, d, "prompt")
  <2>1. PICK d \in Pids : /\ parent[d] = p /\ at[d] = "dead" /\ Bury(p, d, "prompt")
    BY <1>5 DEF DeadKids, Kids
  <2>2. d # 1 /\ d # p /\ which \in Terminals
    BY <1>1, <2>1 DEF SessionIInv, Shape, SessionTypeOK
  <2>3. \A q \in Pids :
           /\ at'[q] = IF q = d THEN "free" ELSE IF q = p THEN "prompt" ELSE at[q]
           /\ parent'[q] = IF q = d THEN NULL ELSE parent[q]
           /\ line'[q] = IF q = d THEN << >> ELSE line[q]
           /\ fd'[q] = fd[q]
    BY <1>2, <2>1, <2>2 DEF Bury
  <2>4. InitKnows'
    <3>1. \A q \in Pids : Session(q)' => Session(q) /\ fd'[q][0] = fd[q][0]
      BY <1>1, <2>3 DEF Session
    <3>2. \A c \in Kids(1) : parent'[c] = 1
      BY <1>1, <2>1, <2>3 DEF Kids
    <3>3. at'[1] = at[1]
      BY <1>1, <1>3, <2>2, <2>3
    <3> QED
      BY <1>1, <3>1, <3>2, <3>3, InitKnowsStays DEF SessionIInv
  <2> QED
    BY <1>1, <2>1, <2>2, <2>4, BuryKeeps
<1> QED
  BY <1>4, <1>5 DEF ShellWait

(* A child of sh, or of one of its children, is born in the PROC c: the      *)
(* parent goes on at place, the child at start.                              *)
LEMMA BirthKeeps ==
  ASSUME SessionIInv, NEW p \in Pids \ {1}, NEW c \in Pids \ {1}, at[c] = "free",
         at[p] \notin {"free", "dead"},
         NEW place \in {"wait", "reader"}, NEW start \in {"do_pipe", "writer"},
         NEW f \in [0 .. 4 -> Opens], NEW g \in [0 .. 4 -> Opens],
         NEW l \in Seq(Commands), NEW m \in Seq(Commands),
         at' = [at EXCEPT ![p] = place, ![c] = start],
         fd' = [fd EXCEPT ![p] = f, ![c] = g],
         line' = [line EXCEPT ![p] = l, ![c] = m],
         parent' = [parent EXCEPT ![c] = p], UNCHANGED <<task, which>>,
         loose' \subseteq PipeIds,
         place = "reader" => l # << >>, m # << >>,
         l = << >> => line[p] = << >> /\ f[0] = fd[p][0],
         Descriptors(p)', Descriptors(c)',
         \A k \in PipeIds \ loose' : EndsOf(k)'
  PROVE  SessionIInv'
<1>1. /\ fd \in [Pids -> [0 .. 4 -> Opens]] /\ line \in [Pids -> Seq(Commands)]
      /\ at \in [Pids -> Places] /\ parent \in [Pids -> Pids \cup {NULL}]
  BY DEF SessionIInv, Shape, SessionTypeOK
<1>2. c # p /\ 1 \in Pids /\ place \in Places /\ start \in Places
  BY DEF Places
<1>3. /\ \A q \in Pids :
            /\ at'[q] = IF q = c THEN start ELSE IF q = p THEN place ELSE at[q]
            /\ fd'[q] = IF q = c THEN g ELSE IF q = p THEN f ELSE fd[q]
            /\ line'[q] = IF q = c THEN m ELSE IF q = p THEN l ELSE line[q]
            /\ parent'[q] = IF q = c THEN p ELSE parent[q]
      /\ at' \in [Pids -> Places] /\ fd' \in [Pids -> [0 .. 4 -> Opens]]
      /\ line' \in [Pids -> Seq(Commands)] /\ parent' \in [Pids -> Pids \cup {NULL}]
  BY <1>1, <1>2
<1>4. parent[c] = NULL
  BY DEF SessionIInv, Shape, SessionTypeOK
<1>5. Shape'
  <2>1. ASSUME NEW q \in Pids PROVE at'[q] = "free" <=> parent'[q] = NULL /\ q # 1
    <3>1. at[q] = "free" <=> parent[q] = NULL /\ q # 1
      BY DEF SessionIInv, Shape, SessionTypeOK
    <3>2. parent'[q] = NULL <=> q # c /\ parent[q] = NULL
      BY <1>3
    <3>3. at'[q] = "free" <=> q # c /\ q # p /\ at[q] = "free"
      BY <1>3
    <3> QED
      BY <1>2, <1>3, <3>1, <3>2, <3>3
  <2>2. SessionTypeOK'
    BY <1>3, <2>1 DEF SessionIInv, Shape, SessionTypeOK
  <2> QED
    BY ZenonT(40), <1>2, <1>3, <2>2 DEF SessionIInv, Shape
<1>6. InitKnows'
  <2>1. \A q \in Pids : Session(q)' => Session(q) /\ fd'[q][0] = fd[q][0]
    BY <1>3 DEF Session
  <2>2. \A o \in Kids(1) : parent'[o] = 1
    BY <1>3, <1>4 DEF Kids
  <2>3. at'[1] = at[1]
    BY <1>2, <1>3
  <2> QED
    BY <2>1, <2>2, <2>3, InitKnowsStays DEF SessionIInv
<1>7. ASSUME NEW q \in Pids PROVE Descriptors(q)'
  <2>1. CASE q \notin {p, c}
    <3>1. Descriptors(q) /\ at'[q] = at[q] /\ fd'[q] = fd[q]
      BY <1>3, <2>1 DEF SessionIInv
    <3> QED
      BY <3>1, SameDescriptors
  <2> QED
    BY <2>1
<1> QED
  BY <1>5, <1>6, <1>7 DEF SessionIInv

(* sh forks a child for a line that is typed, or cannot.                     *)
LEMMA CommandKeeps ==
  ASSUME SessionIInv, NEW p \in Pids, Command(p)
  PROVE  SessionIInv'
<1>1. /\ p # 1 /\ at[p] = "prompt" /\ UNCHANGED <<task, which, loose>>
      /\ loose' \subseteq PipeIds
  BY DEF Command, Prompts, SessionIInv, Shape, SessionTypeOK
<1>2. /\ fd \in [Pids -> [0 .. 4 -> Opens]] /\ line \in [Pids -> Seq(Commands)]
      /\ at \in [Pids -> Places]
  BY DEF SessionIInv, Shape, SessionTypeOK
<1>3. fd[p] \in [0 .. 4 -> Opens] /\ line[p] \in Seq(Commands)
  BY <1>2
<1>4. Input(p) \subseteq Seq(Commands) \ {<< >>}
  <2>1. CASE OnTty(p)
    <3>1. PICK t \in Terminals : fd[p][0] = Tty(t)
      BY <2>1 DEF OnTty
    <3>2. fd[p][0][2] = t
      BY <3>1, OpensDiffer
    <3> QED
      BY <2>1, <3>2 DEF Input
  <2>2. CASE ~OnTty(p)
    BY <2>2 DEF Input
  <2> QED
    BY <2>1, <2>2
<1>5. PICK l \in Input(p) : Fork(p, GoesOn(p, "wait"), [at |-> "do_pipe", fd |-> fd[p], line |-> l])
  BY DEF Command
<1>6. l \in Seq(Commands) /\ l # << >>
  BY <1>4
<1>7. Descriptors(p)
  BY DEF SessionIInv
<1>8. "wait" \in Places \ {"free", "dead", "boot", "refork"}
  BY DEF Places
<1>9. ASSUME NEW k \in PipeIds \ loose
      PROVE  EndsOf(k) /\ fd[p][0] # ReadEnd(k) /\ fd[p][1] # WriteEnd(k)
  BY <1>1 DEF SessionIInv, EndsOf, Reads, Writes, Reading, Writing
<1>10. CASE Free = {}
  <2>1. /\ at' = [at EXCEPT ![p] = "wait"] /\ fd' = [fd EXCEPT ![p] = fd[p]]
        /\ line' = [line EXCEPT ![p] = line[p]] /\ UNCHANGED parent
    BY <1>5, <1>10 DEF Fork, GoesOn
  <2>2. at'[p] = "wait" /\ fd'[p] = fd[p]
    BY <1>2, <2>1
  <2>3. Descriptors(p)'
    BY <1>1, <1>7, <2>2 DEF Descriptors
  <2>4. \A k \in PipeIds \ loose : ~Reads(p, k)' /\ ~Writes(p, k)'
    BY <1>9, <2>2 DEF Reads, Writes, ReadEnd, WriteEnd
  <2> QED
    BY <1>1, <1>3, <1>8, <2>1, <2>3, <2>4, MoveKeeps
<1>11. CASE Free # {}
  <2>1. PICK c : c = Min(Free)
    OBVIOUS
  <2>2. c \in Pids \ {1} /\ at[c] = "free"
    BY <1>11, <2>1, FreeOne DEF SessionIInv
  <2>3. /\ at' = [at EXCEPT ![p] = "wait", ![c] = "do_pipe"]
        /\ fd' = [fd EXCEPT ![p] = fd[p], ![c] = fd[p]]
        /\ line' = [line EXCEPT ![p] = line[p], ![c] = l]
        /\ parent' = [parent EXCEPT ![c] = p]
    BY <1>5, <1>11, <2>1 DEF Fork, GoesOn
  <2>4. c # p
    BY <1>1, <2>2
  <2>5. \A q \in Pids : /\ at'[q] = IF q = c THEN "do_pipe" ELSE IF q = p THEN "wait" ELSE at[q]
                        /\ fd'[q] = IF q = c THEN fd[p] ELSE fd[q]
    BY <1>2, <2>2, <2>3, <2>4
  <2>6. Descriptors(p)' /\ Descriptors(c)'
    BY <1>1, <1>7, <2>2, <2>4, <2>5 DEF Descriptors
  <2>7. ASSUME NEW k \in PipeIds \ loose' PROVE EndsOf(k)'
    <3>1. EndsOf(k) /\ fd[p][0] # ReadEnd(k) /\ fd[p][1] # WriteEnd(k)
      BY <1>1, <1>9
    <3>2. \A q \in {p, c} : ~Reads(q, k)' /\ ~Writes(q, k)'
      BY <2>2, <2>4, <2>5, <3>1 DEF Reads, Writes, ReadEnd, WriteEnd
    <3>3. \A q \in Pids \ {p, c} : /\ at'[q] = at[q]
                                   /\ Reads(q, k)' <=> Reads(q, k)
                                   /\ Writes(q, k)' <=> Writes(q, k)
      BY <2>5, SameDescriptors
    <3>4. ASSUME NEW q \in Pids
          PROVE  /\ Reads(q, k)' => Reads(q, k) /\ at'[q] \in Reading
                 /\ Writes(q, k)' => Writes(q, k) /\ at'[q] \in Writing
      BY <3>1, <3>2, <3>3 DEF EndsOf
    <3> QED
      BY <3>1, <3>4, EndsStay
  <2> QED
    BY <1>1, <1>3, <1>6, <2>2, <2>3, <2>6, <2>7, BirthKeeps
<1> QED
  BY <1>10, <1>11

(* do_pipe: the pipe is one that nobody holds.                               *)
LEMMA DoPipeKeeps ==
  ASSUME SessionIInv, NEW p \in Pids, do_pipe(p)
  PROVE  SessionIInv'
<1>1. p # 1 /\ at[p] = "do_pipe" /\ UNCHANGED <<task, which>>
  BY DEF do_pipe, SessionIInv, Shape
<1>2. /\ fd \in [Pids -> [0 .. 4 -> Opens]] /\ line \in [Pids -> Seq(Commands)]
      /\ at \in [Pids -> Places]
  BY DEF SessionIInv, Shape, SessionTypeOK
<1>3. fd[p] \in [0 .. 4 -> Opens] /\ line[p] \in Seq(Commands) /\ line[p] # << >>
  BY <1>1, <1>2 DEF SessionIInv, Shape
<1>4. loose \subseteq PipeIds
  BY DEF SessionIInv, Shape, SessionTypeOK
<1>5. Descriptors(p)
  BY DEF SessionIInv
<1>6. \A k \in PipeIds \ loose : EndsOf(k) /\ ~Reads(p, k)
  BY <1>1 DEF SessionIInv, EndsOf, Reading
<1>7. {"do_command", "reader"} \subseteq Places \ {"free", "dead", "boot", "refork"}
  BY DEF Places
<1>8. CASE ~HasPipe(line[p])
  <2>1. /\ at' = [at EXCEPT ![p] = "do_command"] /\ fd' = [fd EXCEPT ![p] = fd[p]]
        /\ line' = [line EXCEPT ![p] = line[p]] /\ UNCHANGED <<parent, loose>>
    BY <1>2, <1>8 DEF do_pipe
  <2>2. at'[p] = "do_command" /\ fd'[p] = fd[p]
    BY <1>2, <2>1
  <2>3. Descriptors(p)'
    BY <1>1, <1>5, <2>2 DEF Descriptors
  <2>4. \A k \in PipeIds \ loose : ~Reads(p, k)' /\ (Writes(p, k)' => Writes(p, k))
    BY <1>1, <1>6, <2>2 DEF Reads, Writes
  <2>5. "do_command" \in Writing
    BY DEF Writing
  <2> QED
    BY <1>1, <1>3, <1>4, <1>7, <2>1, <2>3, <2>4, <2>5, MoveKeeps
<1>9. CASE HasPipe(line[p])
  <2>1. PICK j : j = Min(FreePipes)
    OBVIOUS
  <2>2. PICK f : f = [fd[p] EXCEPT ![3] = ReadEnd(j), ![4] = WriteEnd(j)]
    OBVIOUS
  <2>3. PICK l, m : l = Tail1(line[p]) /\ m = Head1(line[p])
    OBVIOUS
  <2>4. /\ l \in Seq(Commands) /\ l # << >>
        /\ m \in Seq(Commands) /\ m # << >>
    BY <1>3, <1>9, <2>3, LinesSplit
  <2>5. /\ FreePipes # {} /\ loose' = loose \ {j}
        /\ Fork(p, [at |-> "reader", fd |-> f, line |-> l], [at |-> "writer", fd |-> f, line |-> m])
    BY <1>9, <2>1, <2>2, <2>3 DEF do_pipe
  <2>6. j \in PipeIds /\ \A q \in Pids, n \in 0 .. 4 : fd[q][n] # ReadEnd(j) /\ fd[q][n] # WriteEnd(j)
    <3>1. FreePipes \subseteq Nat
      BY DEF FreePipes
    <3>2. j \in FreePipes
      BY <2>1, <2>5, <3>1, MinIn
    <3> QED
      BY <3>2 DEF FreePipes, Holds
  <2>7. /\ f \in [0 .. 4 -> Opens]
        /\ f[0] = fd[p][0] /\ f[1] = fd[p][1] /\ f[2] = fd[p][2]
        /\ f[3] = ReadEnd(j) /\ f[4] = WriteEnd(j)
    BY <1>3, <2>2, <2>6, OpensDiffer
  <2>8. \A q \in Pids : ~Reads(q, j) /\ ~Writes(q, j)
    BY <2>6 DEF Reads, Writes
  <2>9. fd[p][0] # ReadEnd(j) /\ fd[p][1] # WriteEnd(j) /\ loose' \subseteq PipeIds
    BY <1>4, <2>5, <2>6
  <2>10. CASE Free = {}
    <3>1. /\ at' = [at EXCEPT ![p] = "reader"] /\ fd' = [fd EXCEPT ![p] = f]
          /\ line' = [line EXCEPT ![p] = l] /\ UNCHANGED parent
      BY <2>5, <2>10 DEF Fork
    <3>2. at'[p] = "reader" /\ fd'[p] = f
      BY <1>2, <3>1
    <3>3. Descriptors(p)'
      BY <1>5, <2>6, <2>7, <2>9, <3>2 DEF Descriptors
    <3>4. ASSUME NEW k \in PipeIds \ loose'
          PROVE  \/ /\ k \notin loose
                    /\ Reads(p, k)' => Reads(p, k) /\ "reader" \in Reading
                    /\ Writes(p, k)' => Writes(p, k) /\ "reader" \in Writing
                 \/ EndsOf(k)'
      <4>1. Reads(p, k)' <=> k = j
        BY <2>6, <2>7, <3>2, OpensDiffer DEF Reads
      <4>2. Writes(p, k)' <=> Writes(p, k)
        BY <1>1, <2>7, <3>2 DEF Writes
      <4>3. "reader" \in Reading /\ "reader" \in Writing
        BY DEF Reading, Writing
      <4>4. CASE k # j
        BY <2>5, <4>1, <4>2, <4>3, <4>4
      <4>5. CASE k = j
        <5>1. \A q \in Pids : q # p => ~Reads(q, k)' /\ ~Writes(q, k)'
          <6>1. \A q \in Pids : q # p => at'[q] = at[q] /\ fd'[q] = fd[q]
            BY <1>2, <3>1
          <6> QED
            BY <2>8, <4>5, <6>1, SameDescriptors
        <5>2. at'[p] \in Reading /\ ~Writes(p, k)'
          BY <2>8, <3>2, <4>2, <4>3, <4>5
        <5> QED
          BY <5>1, <5>2 DEF EndsOf, Reading, Writing
      <4> QED
        BY <4>4, <4>5
    <3> QED
      BY <1>1, <1>7, <2>4, <2>7, <2>9, <3>1, <3>3, <3>4, MoveKeeps
  <2>11. CASE Free # {}
    <3>1. PICK c : c = Min(Free)
      OBVIOUS
    <3>2. c \in Pids \ {1} /\ at[c] = "free"
      BY <2>11, <3>1, FreeOne DEF SessionIInv
    <3>3. /\ at' = [at EXCEPT ![p] = "reader", ![c] = "writer"]
          /\ fd' = [fd EXCEPT ![p] = f, ![c] = f]
          /\ line' = [line EXCEPT ![p] = l, ![c] = m]
          /\ parent' = [parent EXCEPT ![c] = p]
      BY <2>5, <2>11, <3>1 DEF Fork
    <3>4. c # p
      BY <1>1, <3>2
    <3>5. \A q \in Pids : /\ at'[q] = IF q = c THEN "writer" ELSE IF q = p THEN "reader" ELSE at[q]
                          /\ fd'[q] = IF q \in {c, p} THEN f ELSE fd[q]
      BY <1>2, <3>2, <3>3, <3>4
    <3>6. Descriptors(p)' /\ Descriptors(c)'
      BY SMTT(30), <1>5, <2>6, <2>7, <2>9, <3>2, <3>4, <3>5 DEF Descriptors
    <3>7. ASSUME NEW k \in PipeIds \ loose' PROVE EndsOf(k)'
      <4>1. /\ \A q \in Pids \ {c, p} : /\ at'[q] = at[q]
                                        /\ Writes(q, k)' <=> Writes(q, k)
                                        /\ Reads(q, k)' <=> Reads(q, k)
        BY <3>5, SameDescriptors
      <4>2. /\ at'[p] = "reader" /\ at'[c] = "writer"
            /\ Writes(p, k)' <=> Writes(p, k)
            /\ Writes(c, k)' <=> k = j
            /\ Reads(p, k)' <=> k = j
            /\ Reads(c, k)' => fd[p][0] = ReadEnd(k)
        BY <1>1, <2>6, <2>7, <3>2, <3>4, <3>5, OpensDiffer DEF Writes, Reads
      <4>3. CASE k = j
        <5>1. \A q \in Pids : Reads(q, k)' => q = p
          BY <2>8, <2>9, <4>1, <4>2, <4>3
        <5>2. \A q \in Pids : Writes(q, k)' => q = c
          BY <2>8, <4>1, <4>2, <4>3
        <5> QED
          BY <4>2, <5>1, <5>2 DEF EndsOf, Reading, Writing
      <4>4. CASE k # j
        <5>1. EndsOf(k) /\ fd[p][0] # ReadEnd(k)
          BY <1>1, <1>6, <2>5, <4>4 DEF Reads
        <5>2. ASSUME NEW q \in Pids
              PROVE  /\ Reads(q, k)' => Reads(q, k) /\ at'[q] \in Reading
                     /\ Writes(q, k)' => Writes(q, k) /\ at'[q] \in Writing
          <6>1. CASE q \in {p, c}
            BY <4>2, <4>4, <5>1, <6>1 DEF Writing
          <6>2. CASE q \notin {p, c}
            BY <4>1, <5>1, <6>2 DEF EndsOf
          <6> QED
            BY <6>1, <6>2
        <5> QED
          BY <5>1, <5>2, EndsStay
      <4> QED
        BY <4>3, <4>4
    <3> QED
      BY <1>1, <2>4, <2>7, <2>9, <3>2, <3>3, <3>6, <3>7, BirthKeeps
  <2> QED
    BY <2>10, <2>11
<1> QED
  BY <1>8, <1>9

(* The terminal that init finds for a pid is one of those it has the pid of. *)
LEMMA ServedFirst ==
  ASSUME NEW d, Served(d) # {}
  PROVE  Min(Served(d)) \in Terminals /\ task[Min(Served(d))] = d
<1>1. Served(d) \subseteq Nat
  BY DEF Served
<1>2. Min(Served(d)) \in Served(d)
  BY <1>1, MinIn
<1> QED
  BY <1>2 DEF Served

(* init hears of the death of a child, or has none.                          *)
LEMMA InitWaitKeeps ==
  ASSUME SessionIInv, InitWait
  PROVE  SessionIInv'
<1>1. at[1] = "wait" /\ 1 \in Pids /\ task' = task /\ loose' = loose
  BY DEF InitWait, React
<1>2. /\ fd \in [Pids -> [0 .. 4 -> Opens]] /\ line \in [Pids -> Seq(Commands)]
      /\ at \in [Pids -> Places] /\ parent \in [Pids -> Pids \cup {NULL}] /\ which \in Terminals
  BY DEF SessionIInv, Shape, SessionTypeOK
<1>3. \A t \in Terminals : UpToDate(t)
  BY <1>1 DEF UpToDate
<1>4. ASSUME NEW d \in Pids \cup {-1}, React(d), at'[1] = AfterWait(d),
             \A q \in Pids : Session(q)' => Session(q) /\ q # d /\ fd'[q][0] = fd[q][0],
             \A c \in Kids(1) : c = d \/ parent'[c] = 1
      PROVE  which' \in Terminals /\ InitKnows'
  <2>1. \A t \in Terminals : task[t] = d /\ d # -1 => at'[1] = "refork" /\ which' = t
    <3> SUFFICES ASSUME NEW t \in Terminals, task[t] = d, d # -1
                 PROVE  at'[1] = "refork" /\ which' = t
      OBVIOUS
    <3>1. Served(d) # {}
      BY DEF Served
    <3>2. at'[1] = "refork" /\ which' = Min(Served(d))
      BY <1>4, <3>1 DEF AfterWait, React
    <3>3. Min(Served(d)) = t
      BY <1>3, <3>1, ServedFirst DEF SessionIInv, InitKnows
    <3> QED
      BY <3>2, <3>3
  <2>2. which' \in Terminals /\ (at'[1] = "refork" => task[which'] = d) /\ at'[1] # "boot"
    <3>1. CASE Served(d) = {}
      BY <1>2, <1>4, <3>1 DEF AfterWait, React
    <3>2. CASE Served(d) # {}
      BY <1>4, <3>2, ServedFirst DEF AfterWait, React
    <3> QED
      BY <3>1, <3>2
  <2>3. ASSUME NEW t \in Terminals, UpToDate(t)'
        PROVE  task'[t] \in Kids(1)' \cup {-1}
    <3>1. task[t] \in Kids(1) \cup {-1}
      BY <1>3 DEF SessionIInv, InitKnows
    <3>2. task[t] # d \/ task[t] = -1
      BY <2>1, <2>3 DEF UpToDate
    <3> QED
      BY <1>1, <1>4, <3>1, <3>2 DEF Kids
  <2>4. ASSUME NEW t \in Terminals, NEW u \in Terminals, task'[t] = task'[u], task'[t] # -1
        PROVE  t = u
    BY <1>1, <1>3, <2>4 DEF SessionIInv, InitKnows
  <2>5. ASSUME NEW q \in Pids, Session(q)'
        PROVE  \E t \in Terminals : UpToDate(t)' /\ fd'[q][0] = Tty(t)' /\ task'[t] = q
    <3>1. Session(q) /\ q # d /\ fd'[q][0] = fd[q][0]
      BY <1>4, <2>5
    <3>2. PICK t \in Terminals : fd[q][0] = Tty(t) /\ task[t] = q
      BY <3>1 DEF SessionIInv, InitKnows
    <3>3. UpToDate(t)'
      BY <2>2, <3>1, <3>2 DEF UpToDate
    <3> QED
      BY <1>1, <3>1, <3>2, <3>3 DEF Tty
  <2> QED
    BY <2>2, <2>3, <2>4, <2>5 DEF InitKnows
<1>5. CASE \E d \in DeadKids(1) : Bury(1, d, AfterWait(d)) /\ React(d)
  <2>1. PICK d \in Pids : parent[d] = 1 /\ at[d] = "dead" /\ Bury(1, d, AfterWait(d)) /\ React(d)
    BY <1>5 DEF DeadKids, Kids
  <2>2. d # 1
    BY <1>1, <2>1
  <2>3. PICK place : place = AfterWait(d)
    OBVIOUS
  <2>4. place \in {"wait", "refork"}
    BY <2>3 DEF AfterWait
  <2>5. \A q \in Pids :
           /\ at'[q] = IF q = d THEN "free" ELSE IF q = 1 THEN place ELSE at[q]
           /\ parent'[q] = IF q = d THEN NULL ELSE parent[q]
           /\ line'[q] = IF q = d THEN << >> ELSE line[q]
           /\ fd'[q] = fd[q]
    BY <1>1, <1>2, <2>1, <2>2, <2>3 DEF Bury
  <2>6. \A q \in Pids : Session(q)' => Session(q) /\ q # d /\ fd'[q][0] = fd[q][0]
    BY <2>5 DEF Session
  <2>7. \A c \in Kids(1) : c = d \/ parent'[c] = 1
    BY <2>5 DEF Kids
  <2>8. at'[1] = AfterWait(d)
    BY <1>1, <2>2, <2>3, <2>5
  <2>9. which' \in Terminals /\ InitKnows'
    BY <1>4, <2>1, <2>6, <2>7, <2>8
  <2> QED
    BY <1>1, <2>1, <2>3, <2>4, <2>9, BuryKeeps
<1>6. CASE Kids(1) = {} /\ NoKids(1, AfterWait(-1)) /\ React(-1)
  <2>1. PICK place : place = AfterWait(-1)
    OBVIOUS
  <2>2. place \in {"wait", "refork"} /\ place \in Places
    BY <2>1 DEF AfterWait, Places
  <2>3. /\ at' = [at EXCEPT ![1] = place] /\ UNCHANGED <<fd, parent, line>>
        /\ \A q \in Pids : at'[q] = IF q = 1 THEN place ELSE at[q]
    BY <1>2, <1>6, <2>1 DEF NoKids
  <2>4. \A q \in Pids : Session(q)' => Session(q) /\ q # -1 /\ fd'[q][0] = fd[q][0]
    BY <2>3 DEF Session
  <2>5. \A c \in Kids(1) : parent'[c] = 1
    BY <2>3 DEF Kids
  <2>6. which' \in Terminals /\ InitKnows'
    <3>1. at'[1] = AfterWait(-1)
      BY <1>1, <2>1, <2>3
    <3> QED
      BY <1>4, <1>6, <2>4, <2>5, <3>1
  <2>7. Shape'
    BY <1>1, <1>2, <2>2, <2>3, <2>6 DEF SessionIInv, Shape, SessionTypeOK
  <2>8. ASSUME NEW q \in Pids PROVE Descriptors(q)'
    <3>1. Descriptors(q) /\ fd'[q] = fd[q]
      BY <2>3 DEF SessionIInv
    <3>2. at'[q] = at[q] \/ (at[q] = "wait" /\ at'[q] \in {"wait", "refork"})
      BY <1>1, <2>2, <2>3
    <3> QED
      BY <3>1, <3>2 DEF Descriptors
  <2>9. ASSUME NEW k \in PipeIds \ loose' PROVE EndsOf(k)'
    <3>1. EndsOf(k)
      BY <1>1 DEF SessionIInv
    <3>2. ASSUME NEW q \in Pids
          PROVE  /\ Reads(q, k)' => Reads(q, k) /\ at'[q] \in Reading
                 /\ Writes(q, k)' => Writes(q, k) /\ at'[q] \in Writing
      <4>1. (Writes(q, k)' <=> Writes(q, k)) /\ (Reads(q, k)' <=> Reads(q, k))
        BY <1>1, <2>2, <2>3 DEF Writes, Reads
      <4>2. at'[q] = at[q] \/ at[q] = "wait"
        BY <1>1, <2>3
      <4> QED
        BY <3>1, <4>1, <4>2 DEF EndsOf, Reading, Writing
    <3> QED
      BY <3>1, <3>2, EndsStay
  <2> QED
    BY <2>6, <2>7, <2>8, <2>9 DEF SessionIInv
<1> QED
  BY <1>5, <1>6 DEF InitWait

(* init forks a login, or keeps the -1 of a fork that failed.                *)
LEMMA ForkLoginKeeps ==
  ASSUME SessionIInv, ForkLogin
  PROVE  SessionIInv'
<1>1. PICK place : place = IF at[1] = "boot" /\ which < TERMS THEN "boot" ELSE "wait"
  OBVIOUS
<1>2. /\ at[1] \in {"boot", "refork"} /\ Fork(1, GoesOn(1, place), Login(which))
      /\ task' = [task EXCEPT ![which] = Pid]
      /\ which' = IF at[1] = "boot" /\ which < TERMS THEN which + 1 ELSE which
      /\ loose' = loose
  BY <1>1 DEF ForkLogin, Kept
<1>3. /\ fd \in [Pids -> [0 .. 4 -> Opens]] /\ line \in [Pids -> Seq(Commands)]
      /\ at \in [Pids -> Places] /\ parent \in [Pids -> Pids \cup {NULL}]
      /\ which \in Terminals /\ task \in [Terminals -> Pids \cup {NULL, -1}] /\ 1 \in Pids
  BY SMTT(30) DEF SessionIInv, Shape, SessionTypeOK
<1>4. \/ at[1] = "boot" /\ which < TERMS /\ place = "boot" /\ which' = which + 1
      \/ at[1] = "boot" /\ which = TERMS /\ place = "wait" /\ which' = which
      \/ at[1] = "refork" /\ place = "wait" /\ which' = which
  BY <1>1, <1>2, <1>3
<1>5. which' \in Terminals /\ place \in {"boot", "wait"} /\ place \in Places /\ "login" \in Places
  BY SMTT(30), <1>3, <1>4 DEF Places
<1>6. ~UpToDate(which)
  BY <1>2, <1>3 DEF UpToDate
<1>7. ASSUME at'[1] = place, NEW t \in Terminals
      PROVE  UpToDate(t)' <=> UpToDate(t) \/ t = which
  BY SMTT(30), <1>3, <1>4, <1>7 DEF UpToDate
<1>9. CASE Free = {}
  <2>1. /\ at' = [at EXCEPT ![1] = place] /\ fd' = [fd EXCEPT ![1] = fd[1]]
        /\ line' = [line EXCEPT ![1] = line[1]] /\ UNCHANGED parent
    BY <1>2, <1>9 DEF Fork, GoesOn
  <2>2. /\ \A q \in Pids : at'[q] = IF q = 1 THEN place ELSE at[q]
        /\ fd' = fd /\ line' = line
    BY <1>3, <2>1
  <2>3. Pid = -1
    BY <1>9 DEF Pid
  <2>4. \A t \in Terminals : task'[t] = IF t = which THEN -1 ELSE task[t]
    BY <1>2, <1>3, <2>3
  <2>5. Shape'
    BY <1>2, <1>3, <1>5, <2>1, <2>2, <2>3 DEF SessionIInv, Shape, SessionTypeOK
  <2>6. InitKnows'
    <3>1. at'[1] = place
      BY <1>3, <2>2
    <3>2. \A t \in Terminals : UpToDate(t)' <=> UpToDate(t) \/ t = which
      BY <1>7, <3>1
    <3>3. \A q \in Pids : Session(q)' <=> Session(q)
      BY <2>2 DEF Session
    <3>4. Kids(1)' = Kids(1)
      BY <2>1 DEF Kids
    <3>5. ASSUME NEW q \in Pids, Session(q)'
          PROVE  \E t \in Terminals : UpToDate(t)' /\ fd[q][0]' = Tty(t)' /\ task'[t] = q
      <4>1. PICK t \in Terminals : UpToDate(t) /\ fd[q][0] = Tty(t) /\ task[t] = q
        BY <3>3, <3>5 DEF SessionIInv, InitKnows
      <4> QED
        BY <1>6, <2>2, <2>4, <3>2, <4>1 DEF Tty
    <3>6. \A t \in Terminals : UpToDate(t)' => task'[t] \in Kids(1)' \cup {-1}
      BY <2>4, <3>2, <3>4 DEF SessionIInv, InitKnows
    <3>7. \A t, u \in Terminals :
             UpToDate(t)' /\ UpToDate(u)' /\ task'[t] = task'[u] /\ task'[t] # -1 => t = u
      BY <2>4, <3>2 DEF SessionIInv, InitKnows
    <3> QED
      BY <3>5, <3>6, <3>7 DEF InitKnows
  <2>7. ASSUME NEW q \in Pids PROVE Descriptors(q)'
    <3>1. Descriptors(q) /\ fd'[q] = fd[q]
      BY <2>2 DEF SessionIInv
    <3>2. at'[q] = at[q] \/ (at[q] \in {"boot", "refork"} /\ at'[q] \in {"boot", "wait"})
      BY <1>2, <1>5, <2>2
    <3> QED
      BY <3>1, <3>2 DEF Descriptors
  <2>8. ASSUME NEW k \in PipeIds \ loose' PROVE EndsOf(k)'
    <3>1. EndsOf(k)
      BY <1>2 DEF SessionIInv
    <3>2. ASSUME NEW q \in Pids
          PROVE  /\ Reads(q, k)' => Reads(q, k) /\ at'[q] \in Reading
                 /\ Writes(q, k)' => Writes(q, k) /\ at'[q] \in Writing
      <4>1. (Writes(q, k)' <=> Writes(q, k)) /\ (Reads(q, k)' <=> Reads(q, k))
        BY <1>2, <1>5, <2>2 DEF Writes, Reads
      <4>2. at'[q] = at[q] \/ at[q] \in {"boot", "refork"}
        BY <1>2, <2>2
      <4> QED
        BY <3>1, <4>1, <4>2 DEF EndsOf, Reading, Writing
    <3> QED
      BY <3>1, <3>2, EndsStay
  <2> QED
    BY <2>5, <2>6, <2>7, <2>8 DEF SessionIInv
<1>10. CASE Free # {}
  <2>1. PICK c : c = Min(Free)
    OBVIOUS
  <2>2. c \in Pids \ {1} /\ at[c] = "free"
    BY <1>10, <2>1, FreeOne DEF SessionIInv
  <2>3. PICK g : g = [AllClosed EXCEPT ![0] = Tty(which), ![1] = Tty(which), ![2] = Tty(which)]
    OBVIOUS
  <2>4. /\ g \in [0 .. 4 -> Opens] /\ g[0] = Tty(which) /\ g[1] = Tty(which) /\ g[2] = Tty(which)
        /\ g[3] = Closed /\ g[4] = Closed
    <3>1. Tty(which) \in Opens /\ Closed \in Opens
      BY <1>3, OpensDiffer
    <3> QED
      BY <2>3, <3>1 DEF AllClosed
  <2>5. /\ at' = [at EXCEPT ![1] = place, ![c] = "login"]
        /\ fd' = [fd EXCEPT ![1] = fd[1], ![c] = g]
        /\ line' = [line EXCEPT ![1] = line[1], ![c] = << >>]
        /\ parent' = [parent EXCEPT ![c] = 1]
        /\ task' = [task EXCEPT ![which] = c]
    BY <1>2, <1>10, <2>1, <2>3 DEF Fork, GoesOn, Login, Pid
  <2>6. /\ \A q \in Pids :
              /\ at'[q] = IF q = c THEN "login" ELSE IF q = 1 THEN place ELSE at[q]
              /\ fd'[q] = IF q = c THEN g ELSE fd[q]
              /\ line'[q] = IF q = c THEN << >> ELSE line[q]
              /\ parent'[q] = IF q = c THEN 1 ELSE parent[q]
        /\ \A t \in Terminals : task'[t] = IF t = which THEN c ELSE task[t]
    BY <1>3, <2>2, <2>5
  <2>7. /\ at' \in [Pids -> Places] /\ fd' \in [Pids -> [0 .. 4 -> Opens]]
        /\ line' \in [Pids -> Seq(Commands)] /\ parent' \in [Pids -> Pids \cup {NULL}]
        /\ task' \in [Terminals -> Pids \cup {NULL, -1}]
    <3>1. << >> \in Seq(Commands)
      OBVIOUS
    <3>2. /\ at' \in [Pids -> Places] /\ fd' \in [Pids -> [0 .. 4 -> Opens]]
          /\ line' \in [Pids -> Seq(Commands)]
      BY <1>3, <1>5, <2>2, <2>4, <2>5, <3>1
    <3> QED
      BY <1>3, <2>2, <2>5, <3>2
  <2>8. parent[c] = NULL
    BY <2>2 DEF SessionIInv, Shape, SessionTypeOK
  <2>9. Kids(1)' = Kids(1) \cup {c}
    BY <1>3, <2>2, <2>6 DEF Kids
  <2>10. at'[1] = place
    BY <1>3, <2>2, <2>6
  <2>11. Shape'
    <3>1. ASSUME NEW q \in Pids PROVE at'[q] = "free" <=> parent'[q] = NULL /\ q # 1
      <4>1. at[q] = "free" <=> parent[q] = NULL /\ q # 1
        BY DEF SessionIInv, Shape, SessionTypeOK
      <4> QED
        BY <1>5, <2>2, <2>6, <4>1
    <3>2. SessionTypeOK'
      <4>1. loose' \subseteq PipeIds
        BY <1>2 DEF SessionIInv, Shape, SessionTypeOK
      <4> QED
        BY <1>5, <2>7, <3>1, <4>1 DEF SessionTypeOK
    <3>3. \A q \in Pids :
             /\ q # 1 => at'[q] \notin {"boot", "refork"}
             /\ at'[q] \in {"do_pipe", "reader", "writer", "do_command", "program"}
                   => line'[q] # << >>
      BY <1>5, <2>6 DEF SessionIInv, Shape
    <3> QED
      BY <1>5, <2>7, <2>10, <3>2, <3>3 DEF Shape
  <2>12. InitKnows'
    <3>1. \A t \in Terminals : UpToDate(t)' <=> UpToDate(t) \/ t = which
      BY <1>7, <2>10
    <3>2. \A q \in Pids : Session(q)' => q = c \/ Session(q)
      BY <2>6 DEF Session
    <3>3. \A t \in Terminals : UpToDate(t) => t # which /\ task[t] \in Kids(1) \cup {-1} /\ task[t] # c
      BY <1>6, <2>2, <2>8 DEF SessionIInv, InitKnows, Kids
    <3>4. ASSUME NEW q \in Pids, Session(q)'
          PROVE  \E t \in Terminals : UpToDate(t)' /\ fd[q][0]' = Tty(t)' /\ task'[t] = q
      <4>1. CASE q = c
        <5>1. fd'[q][0] = Tty(which)
          BY <2>4, <2>6, <4>1
        <5>2. PICK t \in Terminals : t = which
          BY <1>3
        <5> QED
          BY <2>6, <3>1, <4>1, <5>1, <5>2 DEF Tty
      <4>2. CASE q # c
        <5>1. PICK t \in Terminals : UpToDate(t) /\ fd[q][0] = Tty(t) /\ task[t] = q
          BY <3>2, <3>4, <4>2 DEF SessionIInv, InitKnows
        <5> QED
          BY <2>6, <3>1, <3>3, <4>2, <5>1 DEF Tty
      <4> QED
        BY <4>1, <4>2
    <3>5. ASSUME NEW t \in Terminals, UpToDate(t)'
          PROVE  task'[t] \in Kids(1)' \cup {-1}
      BY <1>3, <2>6, <2>9, <3>1, <3>3, <3>5
    <3>6. \A t, u \in Terminals :
             UpToDate(t)' /\ UpToDate(u)' /\ task'[t] = task'[u] /\ task'[t] # -1 => t = u
      BY <2>6, <3>1, <3>3 DEF SessionIInv, InitKnows
    <3> QED
      BY <3>4, <3>5, <3>6 DEF InitKnows
  <2>13. ASSUME NEW q \in Pids PROVE Descriptors(q)'
    <3>1. CASE q = c
      <4>1. at'[q] = "login" /\ fd'[q] = g
        BY <2>6, <3>1
      <4> QED
        BY <1>3, <2>4, <4>1, OpensDiffer DEF Descriptors
    <3>2. CASE q # c
      <4>1. Descriptors(q) /\ fd'[q] = fd[q]
        BY <2>6, <3>2 DEF SessionIInv
      <4>2. at'[q] = at[q] \/ (at[q] \in {"boot", "refork"} /\ at'[q] \in {"boot", "wait"})
        BY <1>2, <1>5, <2>6, <3>2
      <4> QED
        BY <4>1, <4>2 DEF Descriptors
    <3> QED
      BY <3>1, <3>2
  <2>14. ASSUME NEW k \in PipeIds \ loose' PROVE EndsOf(k)'
    <3>1. EndsOf(k)
      BY <1>2 DEF SessionIInv
    <3>2. ASSUME NEW q \in Pids
          PROVE  /\ Reads(q, k)' => Reads(q, k) /\ at'[q] \in Reading
                 /\ Writes(q, k)' => Writes(q, k) /\ at'[q] \in Writing
      <4>1. CASE q = c
        <5>1. at'[c] = "login" /\ fd'[c] = g
          BY <2>2, <2>6
        <5> QED
          BY <1>3, <2>4, <4>1, <5>1, OpensDiffer DEF Writes, Reads
      <4>2. CASE q # c
        <5>1. (Writes(q, k)' <=> Writes(q, k)) /\ (Reads(q, k)' <=> Reads(q, k))
          BY <1>2, <1>5, <2>6, <4>2 DEF Writes, Reads
        <5>2. at'[q] = at[q] \/ at[q] \in {"boot", "refork"}
          BY <1>2, <2>6, <4>2
        <5> QED
          BY <3>1, <5>1, <5>2 DEF EndsOf, Reading, Writing
      <4> QED
        BY <4>1, <4>2
    <3> QED
      BY <3>1, <3>2, EndsStay
  <2> QED
    BY <2>11, <2>12, <2>13, <2>14 DEF SessionIInv
<1> QED
  BY <1>9, <1>10

(* Only init runs at first.                                                  *)
LEMMA SessionStart == SessionInit => SessionIInv
<1> SUFFICES ASSUME SessionInit PROVE SessionIInv
  OBVIOUS
<1>1. 1 \in Pids /\ 1 \in Terminals /\ << >> \in Seq(Commands) /\ {"boot", "free"} \subseteq Places
  BY DEF Places
<1>2. PICK g : g = [AllClosed EXCEPT ![0] = Tty(1), ![1] = Tty(1)]
  OBVIOUS
<1>3. /\ g \in [0 .. 4 -> Opens] /\ AllClosed \in [0 .. 4 -> Opens]
      /\ g[0] = Tty(1) /\ g[1] = Tty(1) /\ g[2] = Closed /\ g[3] = Closed /\ g[4] = Closed
      /\ \A n \in 0 .. 4 : AllClosed[n] = Closed
  BY <1>1, <1>2, OpensDiffer DEF AllClosed
<1>4. /\ \A q \in Pids : /\ at[q] = IF q = 1 THEN "boot" ELSE "free"
                         /\ fd[q] = IF q = 1 THEN g ELSE AllClosed
                         /\ parent[q] = NULL /\ line[q] = << >>
      /\ which = 1 /\ loose = {}
  BY <1>2 DEF SessionInit
<1>5. /\ at \in [Pids -> Places] /\ fd \in [Pids -> [0 .. 4 -> Opens]]
      /\ parent \in [Pids -> Pids \cup {NULL}] /\ line \in [Pids -> Seq(Commands)]
      /\ task \in [Terminals -> Pids \cup {NULL, -1}]
  BY <1>1, <1>2, <1>3 DEF SessionInit
<1>6. Shape
  BY <1>1, <1>4, <1>5 DEF Shape, SessionTypeOK
<1>7. InitKnows
  BY <1>1, <1>4 DEF InitKnows, UpToDate, Session
<1>8. ASSUME NEW q \in Pids PROVE Descriptors(q)
  <2>1. CASE q = 1
    BY <1>1, <1>3, <1>4, <2>1, OpensDiffer DEF Descriptors
  <2>2. CASE q # 1
    BY <1>3, <1>4, <2>2, OpensDiffer DEF Descriptors
  <2> QED
    BY <2>1, <2>2
<1>9. ASSUME NEW k \in PipeIds PROVE EndsOf(k)
  <2>1. \A q \in Pids : ~Writes(q, k) /\ ~Reads(q, k)
    BY <1>1, <1>3, <1>4, OpensDiffer DEF Writes, Reads
  <2> QED
    BY <2>1 DEF EndsOf
<1> QED
  BY <1>6, <1>7, <1>8, <1>9 DEF SessionIInv

(* Every step of the programs keeps the invariant.                           *)
LEMMA SessionStep == SessionIInv /\ [SessionNext]_sessionVars => SessionIInv'
<1> SUFFICES ASSUME SessionIInv, [SessionNext]_sessionVars
             PROVE  SessionIInv'
  OBVIOUS
<1>1. ASSUME NEW p \in Pids, NoPasswd(p) PROVE SessionIInv'
  BY <1>1, ExitKeeps DEF NoPasswd, SessionIInv, Shape
<1>2. ASSUME NEW p \in Pids, Logout(p) PROVE SessionIInv'
  BY <1>2, ExitKeeps DEF Logout, Prompts, SessionIInv, Shape
<1>3. ASSUME NEW p \in Pids, Ends(p) PROVE SessionIInv'
  BY <1>3, ExitKeeps DEF Ends, SessionIInv, Shape
<1>4. CASE UNCHANGED sessionVars
  <2>1. UNCHANGED <<at, fd, parent, line, task, which, loose>>
    BY <1>4 DEF sessionVars
  <2>2. Shape'
    BY <2>1 DEF SessionIInv, Shape, SessionTypeOK
  <2>3. InitKnows'
    BY <2>1, InitKnowsStays DEF SessionIInv, Session, Kids
  <2>4. \A q \in Pids : Descriptors(q)'
    BY <2>1, SameDescriptors DEF SessionIInv
  <2>5. ASSUME NEW k \in PipeIds \ loose' PROVE EndsOf(k)'
    BY <2>1 DEF SessionIInv, EndsOf, Reads, Writes, Reading, Writing
  <2> QED
    BY <2>2, <2>3, <2>4, <2>5 DEF SessionIInv
<1>5. CASE SessionNext
  BY <1>1, <1>2, <1>3, <1>5, ForkLoginKeeps, InitWaitKeeps, LogsInKeeps, CommandKeeps,
     ShellWaitKeeps, DoPipeKeeps, TakesEndKeeps, DoCommandKeeps DEF SessionNext, Proceeds
<1> QED
  BY <1>4, <1>5

(* The invariant of the sessions holds for any number of processes,          *)
(* terminals and pipes.                                                      *)
THEOREM SessionInvariance == SessionSpec => []SessionIInv
  BY SessionStart, SessionStep, PTL DEF SessionSpec

(* init knows who is on each terminal: a child of its own, whatever dies     *)
(* when, and however many forks fail.                                        *)
THEOREM NobodyIsForgotten == SessionSpec => []NobodyForgotten
<1>1. SessionIInv => NobodyForgotten
  BY DEF SessionIInv, Shape, InitKnows, UpToDate, NobodyForgotten, SessionTypeOK
<1> QED
  BY <1>1, SessionInvariance, PTL

(* No terminal ever has two logins, or the shells they became.               *)
THEOREM SessionsAreOne == SessionSpec => []OneSession
<1>1. SessionIInv => OneSession
  <2> SUFFICES ASSUME SessionIInv, NEW p \in Pids, NEW q \in Pids,
                      Session(p), Session(q), fd[p][0] = fd[q][0]
               PROVE  p = q
    BY DEF OneSession
  <2>1. PICK t \in Terminals : fd[p][0] = Tty(t) /\ task[t] = p
    BY DEF SessionIInv, InitKnows
  <2>2. PICK u \in Terminals : fd[q][0] = Tty(u) /\ task[u] = q
    BY DEF SessionIInv, InitKnows
  <2>3. Tty(t) = Tty(u)
    BY <2>1, <2>2
  <2>4. t = u
    BY <2>3 DEF Tty
  <2> QED
    BY <2>1, <2>2, <2>4
<1> QED
  BY <1>1, SessionInvariance, PTL

(* No command that reads a pipe holds its write end, so that the end of file *)
(* reaches it when the commands before it are gone.                          *)
THEOREM NobodyBlocksItself == SessionSpec => []NoOwnWriter
<1>1. SessionIInv => NoOwnWriter
  <2> SUFFICES ASSUME SessionIInv, NEW p \in Pids, NEW k \in PipeIds, at[p] = "program",
                      Holds(p, ReadEnd(k)), Holds(p, WriteEnd(k))
               PROVE  FALSE
    BY DEF NoOwnWriter
  <2>1. Descriptors(p)
    BY DEF SessionIInv
  <2>2. PICK m \in 0 .. 4, n \in 0 .. 4 : fd[p][m] = ReadEnd(k) /\ fd[p][n] = WriteEnd(k)
    BY DEF Holds
  <2>3. m = 0 /\ n = 1
    BY <2>1, <2>2, OpensDiffer DEF Descriptors
  <2> QED
    BY <2>1, <2>2, <2>3 DEF Descriptors
<1> QED
  BY <1>1, SessionInvariance, PTL

(* A pipe joins exactly the two commands on the sides of a |, in pipelines   *)
(* of any length, with forks that fail, and also those of the lines that a   *)
(* shell reads from a pipe where one of the commands was not found.          *)
THEOREM PipesJoinTwo == SessionSpec => []Joined
<1>1. SessionIInv => Joined
  <2> SUFFICES ASSUME SessionIInv, NEW k \in PipeIds
               PROVE  /\ k \notin loose => /\ Cardinality(Users(ReadEnd(k), 0)) <= 1
                                           /\ Cardinality(Users(WriteEnd(k), 1)) <= 1
                      /\ \A n \in 0 .. 4 : /\ n # 0 => Users(ReadEnd(k), n) = {}
                                           /\ n # 1 => Users(WriteEnd(k), n) = {}
    BY DEF Joined
  <2>1. ASSUME NEW U, \A p, q \in U : p = q
        PROVE  Cardinality(U) <= 1
    <3>1. CASE U = {}
      BY <3>1, FS_EmptySet
    <3>2. CASE U # {}
      <4>1. PICK p \in U : TRUE
        BY <3>2
      <4>2. U = {p}
        BY <2>1, <4>1
      <4>3. Cardinality({p}) = 1
        BY FS_Singleton
      <4> QED
        BY <4>2, <4>3
    <3> QED
      BY <3>1, <3>2
  <2>2. ASSUME k \notin loose
        PROVE  /\ \A p, q \in Users(ReadEnd(k), 0) : p = q
               /\ \A p, q \in Users(WriteEnd(k), 1) : p = q
    <3>1. EndsOf(k)
      BY <2>2 DEF SessionIInv
    <3>2. /\ \A p \in Users(ReadEnd(k), 0) : p \in Pids /\ Reads(p, k)
          /\ \A p \in Users(WriteEnd(k), 1) : p \in Pids /\ Writes(p, k)
      BY DEF Users, Running, Reads, Writes
    <3> QED
      BY <3>1, <3>2 DEF EndsOf
  <2>5. ASSUME NEW n \in 0 .. 4, NEW p \in Pids, at[p] = "program"
        PROVE  (n # 0 => fd[p][n] # ReadEnd(k)) /\ (n # 1 => fd[p][n] # WriteEnd(k))
    <3>1. Descriptors(p)
      BY DEF SessionIInv
    <3> QED
      BY <2>5, <3>1, OpensDiffer DEF Descriptors
  <2>6. \A n \in 0 .. 4 : /\ n # 0 => Users(ReadEnd(k), n) = {}
                          /\ n # 1 => Users(WriteEnd(k), n) = {}
    BY <2>5 DEF Users, Running
  <2> QED
    BY <2>1, <2>2, <2>6
<1> QED
  BY <1>1, SessionInvariance, PTL

=============================================================================
