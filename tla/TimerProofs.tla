----------------------------- MODULE TimerProofs -----------------------------
(***************************************************************************)
(* What holds of the clock of 6-timer-interrupts for any number of         *)
(* processes, any length of the slices and any times that are asked for:   *)
(* inkmode tells user mode from the kernel, nothing is counted past zero,  *)
(* and the timer queue keeps everybody's time.                             *)
(***************************************************************************)
EXTENDS TimerKernel, ProcKernelProofs

USE ProcKernelAssumption, TestsRunning, TimerAssumption DEF NULL

(* A loop of n turns from a, turn i of which takes x to step[<<i, x>>].       *)
Loops(f, a, n, step) ==
    f[0] = a /\ \A i \in 1 .. n : f[i] = step[<<i, f[i - 1]>>]

(* It runs to its end, however long it is.                                   *)
LEMMA LoopEnds ==
  ASSUME NEW S, NEW a \in S, NEW n \in Nat, NEW step \in [(1 .. n) \X S -> S]
  PROVE  \E f \in [0 .. n -> S] : Loops(f, a, n, step)
<1> USE DEF Loops
<1> DEFINE Loop(f, m) == Loops(f, a, m, step)
           Stuck == {m \in 0 .. n : ~ \E f \in [0 .. m -> S] : Loop(f, m)}
<1> SUFFICES ASSUME Stuck # {} PROVE FALSE
  <2>1. n \in 0 .. n
    OBVIOUS
  <2> HIDE DEF Loop
  <2>2. n \notin Stuck
    OBVIOUS
  <2>3. \E f \in [0 .. n -> S] : Loop(f, n)
    BY <2>1, <2>2
  <2> QED
    BY <2>3 DEF Loop
<1>1. PICK m \in Stuck : \A j \in Stuck : m <= j
  <2>1. Stuck \subseteq Nat
    OBVIOUS
  <2> HIDE DEF Stuck
  <2> QED
    BY <2>1, LeastNat
<1>2. m \in 0 .. n
  OBVIOUS
<1>3. m # 0
  <2> SUFFICES ASSUME m = 0 PROVE FALSE
    OBVIOUS
  <2>1. PICK f : f = [i \in 0 .. 0 |-> a]
    OBVIOUS
  <2>2. f \in [0 .. m -> S] /\ Loop(f, m)
    BY <2>1
  <2> QED
    BY <2>2
<1>4. m - 1 \in 0 .. n /\ m - 1 \notin Stuck
  <2>1. m - 1 \in 0 .. n /\ ~(m <= m - 1)
    BY <1>2, <1>3
  <2> HIDE DEF Stuck
  <2> QED
    BY <1>1, <2>1
<1>5. PICK g \in [0 .. m - 1 -> S] : Loop(g, m - 1)
  BY <1>4
<1>6. m \in 1 .. n /\ g[m - 1] \in S
  BY <1>2, <1>3
<1>7. PICK last \in S : last = step[<<m, g[m - 1]>>]
  BY <1>6
<1>8. PICK h : h = [i \in 0 .. m |-> IF i < m THEN g[i] ELSE last]
  OBVIOUS
<1>9. h \in [0 .. m -> S]
  BY <1>6, <1>8
<1>10. \A i \in 0 .. m - 1 : h[i] = g[i]
  BY <1>6, <1>8
<1>11. h[m] = last
  BY <1>6, <1>8
<1>12. ASSUME NEW i \in 1 .. m
       PROVE  h[i] = step[<<i, h[i - 1]>>]
  <2>1. i - 1 \in 0 .. m - 1 /\ h[i - 1] = g[i - 1]
    BY <1>6, <1>10
  <2>2. CASE i = m
    BY <1>7, <1>11, <2>1, <2>2
  <2>3. CASE i < m
    <3>1. i \in 1 .. m - 1 /\ h[i] = g[i]
      BY <1>6, <1>10, <2>3
    <3> QED
      BY <1>5, <2>1, <3>1
  <2> QED
    BY <1>6, <2>2, <2>3
<1>13. h[0] = a
  <2>1. 0 \in 0 .. m - 1
    BY <1>6
  <2> QED
    BY <1>5, <1>10, <2>1
<1> QED
  BY <1>9, <1>12, <1>13, <1>2

-----------------------------------------------------------------------------
(* The entries of a timer queue; only the first of them may be late.         *)
Timers == [proc : Procs, time : Int]
Ordered(q) == \A i \in 2 .. Len(q) : q[i].time >= 0

(* The fields of its entries.                                                *)
LEMMA EntryTypes ==
  ASSUME NEW q \in Seq(Timers)
  PROVE  \A i \in 1 .. Len(q) : q[i].proc \in Procs /\ q[i].time \in Int
<1>1. \A i \in 1 .. Len(q) : q[i] \in Timers
  OBVIOUS
<1> QED
  BY <1>1 DEF Timers

(* f[i] is what the first i entries of q take.                               *)
AddsUp(f, q) ==
    f[0] = 0 /\ \A i \in 1 .. Len(q) : f[i] = f[i - 1] + q[i].time

(* Two functions that add up the same differences are the same.              *)
LEMMA SumsAgree ==
  ASSUME NEW q, Len(q) \in Nat, NEW f, NEW g, AddsUp(f, q), AddsUp(g, q)
  PROVE  \A i \in 0 .. Len(q) : f[i] = g[i]
<1> DEFINE Wrong == {i \in 0 .. Len(q) : f[i] # g[i]}
<1> SUFFICES ASSUME Wrong # {} PROVE FALSE
  OBVIOUS
<1>1. PICK m \in Wrong : \A j \in Wrong : m <= j
  <2>1. Wrong \subseteq Nat
    OBVIOUS
  <2> HIDE DEF Wrong
  <2> QED
    BY <2>1, LeastNat
<1>2. m \in 0 .. Len(q) /\ f[m] # g[m]
  OBVIOUS
<1>3. m # 0
  BY <1>2 DEF AddsUp
<1>4. m - 1 \in 0 .. Len(q) /\ m \in 1 .. Len(q) /\ ~(m <= m - 1)
  BY <1>2, <1>3
<1>5. f[m - 1] = g[m - 1]
  BY <1>1, <1>4
<1> QED
  BY <1>2, <1>4, <1>5 DEF AddsUp

(* Total adds the differences up.                                            *)
LEMMA TotalAddsUp ==
  ASSUME NEW q \in Seq(Timers)
  PROVE  /\ Totals(q) \in [0 .. Len(q) -> Int]
         /\ AddsUp(Totals(q), q)
<1> DEFINE Turn(f, n) == IF n = 0 THEN 0 ELSE f[n - 1] + q[n].time
           sum == CHOOSE f : f = [n \in 0 .. Len(q) |-> Turn(f, n)]
<1>1. /\ Len(q) \in Nat
      /\ \A i \in 1 .. Len(q) : q[i].time \in Int
  <2>1. \A i \in 1 .. Len(q) : q[i] \in Timers
    OBVIOUS
  <2> QED
    BY <2>1 DEF Timers
<1>2. PICK step : step = [x \in (1 .. Len(q)) \X Int |-> x[2] + q[x[1]].time]
  OBVIOUS
<1>3. /\ step \in [(1 .. Len(q)) \X Int -> Int]
      /\ \A i \in 1 .. Len(q), x \in Int : step[<<i, x>>] = x + q[i].time
  BY <1>1, <1>2
<1>4. PICK g \in [0 .. Len(q) -> Int] :
         g[0] = 0 /\ \A i \in 1 .. Len(q) : g[i] = step[<<i, g[i - 1]>>]
  <2>1. PICK m \in Nat : m = Len(q)
    BY <1>1
  <2>2. 0 \in Int /\ step \in [(1 .. m) \X Int -> Int]
    BY <1>3, <2>1
  <2>3. \E f \in [0 .. m -> Int] : Loops(f, 0, m, step)
    BY <2>2, LoopEnds
  <2> QED
    BY <2>1, <2>3 DEF Loops
<1>5. \A i \in 1 .. Len(q) : g[i] = g[i - 1] + q[i].time
  <2> TAKE i \in 1 .. Len(q)
  <2>1. i - 1 \in 0 .. Len(q)
    BY <1>1
  <2>2. PICK x \in Int : x = g[i - 1]
    BY <2>1
  <2> QED
    BY <1>3, <1>4, <2>2
<1>6. g = [n \in 0 .. Len(q) |-> Turn(g, n)]
  <2> SUFFICES ASSUME NEW n \in 0 .. Len(q) PROVE g[n] = Turn(g, n)
    OBVIOUS
  <2>1. n = 0 \/ n \in 1 .. Len(q)
    BY <1>1
  <2> QED
    BY <1>1, <1>4, <1>5, <2>1
<1>7. sum = [n \in 0 .. Len(q) |-> Turn(sum, n)]
  <2> HIDE DEF Turn
  <2> QED
    BY <1>6
<1>8. Totals(q) = sum
  BY DEF Totals
<1> HIDE DEF sum
<1>9. \A n \in 0 .. Len(q) : sum[n] = Turn(sum, n)
  <2> HIDE DEF Turn
  <2> QED
    BY <1>7
<1>10. AddsUp(sum, q)
  <2>1. 0 \in 0 .. Len(q) /\ \A i \in 1 .. Len(q) : i \in 0 .. Len(q) /\ i # 0
    BY <1>1
  <2> QED
    BY <1>9, <2>1 DEF AddsUp
<1>11. DOMAIN sum = 0 .. Len(q) /\ sum = [n \in 0 .. Len(q) |-> sum[n]]
  <2> HIDE DEF Turn
  <2> QED
    BY <1>7
<1>12. \A n \in 0 .. Len(q) : sum[n] = g[n]
  <2>1. AddsUp(g, q)
    BY <1>4, <1>5 DEF AddsUp
  <2> QED
    BY <1>1, <1>10, <2>1, SumsAgree
<1>13. sum \in [0 .. Len(q) -> Int]
  BY <1>11, <1>12
<1> QED
  BY <1>8, <1>10, <1>13

(* Any function that adds up the differences is what Total gives.            *)
LEMMA TotalIs ==
  ASSUME NEW q \in Seq(Timers), NEW f, AddsUp(f, q)
  PROVE  \A i \in 0 .. Len(q) : Total(q, i) = f[i]
<1>1. AddsUp(Totals(q), q) /\ Len(q) \in Nat
  BY TotalAddsUp
<1> QED
  BY <1>1, SumsAgree DEF Total

(* What Total gives for no entries, and for one more.                        *)
LEMMA TotalSteps ==
  ASSUME NEW q \in Seq(Timers)
  PROVE  /\ Total(q, 0) = 0
         /\ \A i \in 0 .. Len(q) : Total(q, i) \in Int
         /\ \A i \in 1 .. Len(q) : /\ i - 1 \in 0 .. Len(q)
                                   /\ q[i].time \in Int
                                   /\ Total(q, i) = Total(q, i - 1) + q[i].time
<1>1. \A i \in 1 .. Len(q) : q[i] \in Timers
  OBVIOUS
<1>2. \A i \in 1 .. Len(q) : q[i].time \in Int
  BY <1>1 DEF Timers
<1>3. Totals(q) \in [0 .. Len(q) -> Int] /\ AddsUp(Totals(q), q)
  BY TotalAddsUp
<1>4. \A i \in 0 .. Len(q) : Total(q, i) \in Int
  BY <1>3 DEF Total
<1>5. Len(q) \in Nat /\ Total(q, 0) = 0
  BY <1>3 DEF Total, AddsUp
<1>6. \A i \in 1 .. Len(q) : Total(q, i) = Total(q, i - 1) + q[i].time
  BY <1>3 DEF Total, AddsUp
<1>7. \A i \in 1 .. Len(q) : i - 1 \in 0 .. Len(q)
  BY <1>5
<1> QED
  BY <1>2, <1>4, <1>5, <1>6, <1>7

(* A later entry does not expire earlier.                                    *)
LEMMA TotalGrows ==
  ASSUME NEW q \in Seq(Timers), Ordered(q),
         NEW i \in 1 .. Len(q), NEW j \in 1 .. Len(q), i <= j
  PROVE  Total(q, i) <= Total(q, j)
<1> DEFINE Lower == {n \in 1 .. Len(q) : i <= n /\ ~(Total(q, i) <= Total(q, n))}
<1> SUFFICES ASSUME Lower # {} PROVE FALSE
  OBVIOUS
<1>1. PICK m \in Lower : \A n \in Lower : m <= n
  <2>1. Lower \subseteq Nat
    OBVIOUS
  <2> HIDE DEF Lower
  <2> QED
    BY <2>1, LeastNat
<1>2. m \in 1 .. Len(q) /\ m \in 0 .. Len(q) /\ i \in 0 .. Len(q) /\ i <= m /\ ~(Total(q, i) <= Total(q, m))
  OBVIOUS
<1>3. Total(q, i) \in Int /\ Total(q, m) \in Int
  BY <1>2, TotalSteps
<1>4. i # m
  BY <1>2, <1>3
<1>5. m \in 2 .. Len(q) /\ m - 1 \in 1 .. Len(q) /\ m - 1 \in 0 .. Len(q) /\ i <= m - 1 /\ ~(m <= m - 1)
  BY <1>2, <1>4
<1>6. Total(q, i) <= Total(q, m - 1)
  BY <1>1, <1>5
<1>7. Total(q, m - 1) \in Int /\ q[m].time \in Int /\ Total(q, m) = Total(q, m - 1) + q[m].time
  BY <1>2, <1>5, TotalSteps
<1>8. q[m].time >= 0
  BY <1>5 DEF Ordered
<1> QED
  BY <1>2, <1>3, <1>6, <1>7, <1>8

(* A new entry goes behind those that expire before it or with it.           *)
LEMMA AheadSplits ==
  ASSUME NEW q \in Seq(Timers), Ordered(q), NEW t \in Int
  PROVE  /\ Ahead(q, t) \in 0 .. Len(q)
         /\ Ahead(q, t) # 0 => Total(q, Ahead(q, t)) <= t
         /\ Ahead(q, t) < Len(q) => Total(q, Ahead(q, t) + 1) > t
<1> DEFINE Late == {n \in 1 .. Len(q) + 1 : n = Len(q) + 1 \/ ~(t >= Total(q, n))}
<1>1. Len(q) \in Nat /\ DOMAIN q = 1 .. Len(q)
  OBVIOUS
<1>2. PICK m \in Late : \A n \in Late : m <= n
  <2>1. Late \subseteq Nat
    OBVIOUS
  <2>2. Len(q) + 1 \in Late
    BY <1>1
  <2> HIDE DEF Late
  <2> QED
    BY <2>1, <2>2, LeastNat
<1>3. m \in 1 .. Len(q) + 1
  OBVIOUS
<1>4. PICK k : k = m - 1
  OBVIOUS
<1>5. k \in 0 .. Len(q) /\ m = k + 1 /\ k \in Nat
  BY <1>1, <1>3, <1>4
<1>6. \A n \in 1 .. Len(q) : n <= k => t >= Total(q, n)
  BY <1>1, <1>2, <1>5
<1>7. k < Len(q) => ~(t >= Total(q, k + 1))
  BY <1>1, <1>2, <1>5
<1>8. \A n \in 1 .. Len(q) : ~(n <= k) => ~(t >= Total(q, n))
  <2> SUFFICES ASSUME NEW n \in 1 .. Len(q), ~(n <= k)
               PROVE  ~(t >= Total(q, n))
    OBVIOUS
  <2>1. /\ k + 1 \in 0 .. Len(q) /\ n \in 0 .. Len(q) /\ k + 1 <= n /\ k < Len(q)
        /\ k + 1 \in 1 .. Len(q)
    BY <1>1, <1>5
  <2>2. Total(q, k + 1) <= Total(q, n)
    BY <2>1, TotalGrows
  <2>3. Total(q, k + 1) \in Int /\ Total(q, n) \in Int
    BY <2>1, TotalSteps
  <2> QED
    BY <1>7, <2>1, <2>2, <2>3
<1>9. {n \in DOMAIN q : t >= Total(q, n)} = 1 .. k
  BY <1>1, <1>5, <1>6, <1>8
<1>10. Ahead(q, t) = k
  <2>1. Cardinality(1 .. k) = k
    <3>1. 1 \in Int /\ k \in Int /\ ~(1 > k + 1)
      BY <1>5
    <3>2. Cardinality(1 .. k) = IF 1 > k THEN 0 ELSE k - 1 + 1
      BY <3>1, FS_Interval
    <3> QED
      BY <1>5, <3>2
  <2> QED
    BY <1>9, <2>1 DEF Ahead
<1>11. k # 0 => Total(q, k) <= t
  <2> SUFFICES ASSUME k # 0 PROVE Total(q, k) <= t
    OBVIOUS
  <2>1. k \in 1 .. Len(q) /\ k <= k /\ Total(q, k) \in Int
    BY <1>1, <1>5, TotalSteps
  <2> QED
    BY <1>6, <2>1
<1>12. k < Len(q) => Total(q, k + 1) > t
  <2> SUFFICES ASSUME k < Len(q) PROVE Total(q, k + 1) > t
    OBVIOUS
  <2>1. k + 1 \in 0 .. Len(q)
    BY <1>1, <1>5
  <2>2. Total(q, k + 1) \in Int
    BY <2>1, TotalSteps
  <2> QED
    BY <1>7, <2>2
<1> QED
  BY <1>5, <1>10, <1>11, <1>12

-----------------------------------------------------------------------------
(* Nobody has two timers.                                                    *)
OneEach(q) == \A i, j \in 1 .. Len(q) : q[i].proc = q[j].proc => i = j

(* An entry inserted into the queue q after the first k.                     *)
After(q, k, p, own) ==
    SubSeq(q, 1, k) \o <<[proc |-> p, time |-> own]>>
    \o (IF SubSeq(q, k + 1, Len(q)) = << >> THEN SubSeq(q, k + 1, Len(q))
        ELSE [SubSeq(q, k + 1, Len(q)) EXCEPT ![1].time = @ - own])

(* Where the entries of q are then.                                          *)
LEMMA AfterEntries ==
  ASSUME NEW q \in Seq(Timers), NEW k \in 0 .. Len(q), NEW p \in Procs, NEW own \in Int,
         NEW r, r = After(q, k, p, own)
  PROVE  /\ r \in Seq(Timers)
         /\ Len(r) = Len(q) + 1
         /\ \A i \in 1 .. k : r[i] = q[i]
         /\ r[k + 1] = [proc |-> p, time |-> own]
         /\ k < Len(q) => r[k + 2] = [proc |-> q[k + 1].proc, time |-> q[k + 1].time - own]
         /\ \A i \in k + 3 .. Len(q) + 1 : r[i] = q[i - 1]
<1>1. /\ Len(q) \in Nat /\ k \in Nat /\ k <= Len(q)
      /\ \A i \in 1 .. Len(q) : q[i] \in Timers
  OBVIOUS
<1>2. PICK a, b, new : /\ a = SubSeq(q, 1, k)
                       /\ b = SubSeq(q, k + 1, Len(q))
                       /\ new = [proc |-> p, time |-> own]
  OBVIOUS
<1>3. /\ a \in Seq(Timers) /\ Len(a) = k
      /\ \A i \in 1 .. k : a[i] = q[i]
  <2>1. SubSeq(q, 1, k) \in Seq(Timers) /\ Len(SubSeq(q, 1, k)) = k
    BY <1>1
  <2>2. \A i \in 1 .. k : SubSeq(q, 1, k)[i] = q[i]
    BY <1>1
  <2> QED
    BY <1>2, <2>1, <2>2
<1>4. /\ b \in Seq(Timers) /\ Len(b) = Len(q) - k
      /\ \A i \in 1 .. Len(q) - k : b[i] = q[k + i]
  <2>1. SubSeq(q, k + 1, Len(q)) \in Seq(Timers) /\ Len(SubSeq(q, k + 1, Len(q))) = Len(q) - k
    BY <1>1
  <2>2. \A i \in 1 .. Len(q) - k : SubSeq(q, k + 1, Len(q))[i] = q[k + i]
    BY <1>1
  <2> QED
    BY <1>2, <2>1, <2>2
<1>5. new \in Timers
  BY <1>2 DEF Timers
<1>6. PICK c : c = IF b = << >> THEN b ELSE [b EXCEPT ![1].time = @ - own]
  OBVIOUS
<1>7. /\ c \in Seq(Timers) /\ Len(c) = Len(q) - k
      /\ k < Len(q) => c[1] = [proc |-> q[k + 1].proc, time |-> q[k + 1].time - own]
      /\ \A i \in 2 .. Len(q) - k : c[i] = q[k + i]
  <2>1. CASE k = Len(q)
    <3>1. b = << >>
      BY <1>4, <2>1
    <3> QED
      BY <1>1, <1>4, <1>6, <2>1, <3>1
  <2>2. CASE k < Len(q)
    <3>1. b # << >> /\ 1 \in 1 .. Len(b) /\ b[1] = q[k + 1]
      BY <1>1, <1>4, <2>2
    <3>2. PICK e \in Timers : e = q[k + 1]
      BY <1>1, <2>2
    <3>3. PICK d : d = [proc |-> e.proc, time |-> e.time - own]
      OBVIOUS
    <3>4. e = [proc |-> e.proc, time |-> e.time] /\ e.time \in Int /\ e.proc \in Procs
      BY DEF Timers
    <3>5. d \in Timers
      BY <2>2, <3>2, <3>3, <3>4 DEF Timers
    <3>6. [e EXCEPT !.time = @ - own] = d
      BY SMTT(30), <3>3, <3>4
    <3>7. c = [b EXCEPT ![1] = d]
      <4>1. c = [b EXCEPT ![1].time = @ - own]
        BY <1>6, <3>1
      <4>2. [b EXCEPT ![1].time = @ - own] = [b EXCEPT ![1] = [b[1] EXCEPT !.time = @ - own]]
        OBVIOUS
      <4> QED
        BY <3>1, <3>2, <3>6, <4>1, <4>2
    <3>8. c \in Seq(Timers) /\ Len(c) = Len(b) /\ c[1] = d
          /\ \A i \in 2 .. Len(b) : c[i] = b[i]
      BY <1>4, <3>1, <3>5, <3>7
    <3> QED
      BY <1>1, <1>4, <2>2, <3>2, <3>3, <3>8
  <2> QED
    BY <1>1, <2>1, <2>2
<1>8. r = a \o <<new>> \o c
  BY <1>2, <1>6 DEF After
<1>9. PICK ab : ab = a \o <<new>>
  OBVIOUS
<1>10. /\ ab \in Seq(Timers) /\ Len(ab) = k + 1 /\ ab[k + 1] = new
       /\ \A i \in 1 .. k : ab[i] = a[i]
  BY <1>1, <1>3, <1>5, <1>9
<1>11. /\ r \in Seq(Timers) /\ Len(r) = k + 1 + Len(c)
       /\ \A i \in 1 .. k + 1 : r[i] = ab[i]
       /\ \A i \in 1 .. Len(c) : r[k + 1 + i] = c[i]
  <2>1. r = ab \o c
    BY <1>8, <1>9
  <2>2. c \in Seq(Timers) /\ ab \in Seq(Timers) /\ Len(ab) = k + 1
    BY <1>7, <1>10
  <2>3. /\ ab \o c \in Seq(Timers)
        /\ Len(ab \o c) = Len(ab) + Len(c)
        /\ \A i \in 1 .. Len(ab) : (ab \o c)[i] = ab[i]
    <3>1. /\ ab \o c \in Seq(Timers)
          /\ Len(ab \o c) = Len(ab) + Len(c)
      BY <2>2
    <3>2. \A i \in 1 .. Len(ab) : (ab \o c)[i] = ab[i]
      BY <2>2
    <3> QED
      BY <3>1, <3>2
  <2>4. \A i \in 1 .. Len(c) : (ab \o c)[Len(ab) + i] = c[i]
    BY <2>2
  <2>5. /\ r \in Seq(Timers) /\ Len(r) = k + 1 + Len(c)
        /\ \A i \in 1 .. k + 1 : r[i] = ab[i]
    BY <2>1, <2>2, <2>3
  <2>6. \A i \in 1 .. Len(c) : r[k + 1 + i] = c[i]
    BY <2>1, <2>2, <2>4
  <2> QED
    BY <2>5, <2>6
<1>12. Len(r) = Len(q) + 1
  BY <1>1, <1>7, <1>11
<1>13. \A i \in 1 .. k : r[i] = q[i]
  BY <1>1, <1>3, <1>10, <1>11
<1>14. r[k + 1] = [proc |-> p, time |-> own]
  BY <1>1, <1>2, <1>10, <1>11
<1>15. k < Len(q) => r[k + 2] = [proc |-> q[k + 1].proc, time |-> q[k + 1].time - own]
  <2> SUFFICES ASSUME k < Len(q)
               PROVE  r[k + 2] = [proc |-> q[k + 1].proc, time |-> q[k + 1].time - own]
    OBVIOUS
  <2>1. 1 \in 1 .. Len(c) /\ k + 1 + 1 = k + 2
    BY <1>1, <1>7
  <2>2. r[k + 2] = c[1]
    BY <1>11, <2>1
  <2> QED
    BY <1>7, <2>2
<1>16. \A i \in k + 3 .. Len(q) + 1 : r[i] = q[i - 1]
  <2> TAKE i \in k + 3 .. Len(q) + 1
  <2>1. PICK j \in 2 .. Len(q) - k : i = k + 1 + j
    <3>1. i - (k + 1) \in 2 .. Len(q) - k /\ i = k + 1 + (i - (k + 1))
      BY <1>1
    <3> QED
      BY <3>1
  <2>2. j \in 1 .. Len(c) /\ k + j = i - 1
    BY <1>1, <1>7, <2>1
  <2> QED
    BY <1>7, <1>11, <2>1, <2>2
<1> QED
  BY <1>11, <1>12, <1>13, <1>14, <1>15, <1>16

(* r is q with a timer of t seconds for p after the first k, and the others  *)
(* as they were.                                                             *)
TimerSet(q, r, k, p, t) ==
    /\ r \in Seq(Timers) /\ Ordered(r)
    /\ Len(r) = Len(q) + 1
    /\ r[1].time = IF k = 0 THEN t ELSE q[1].time
    /\ k = 0 /\ q # << >> => t < q[1].time
    /\ r[k + 1].proc = p /\ Total(r, k + 1) = t
    /\ \A i \in 1 .. k : r[i].proc = q[i].proc /\ Total(r, i) = Total(q, i)
    /\ \A i \in k + 1 .. Len(q) :
           r[i + 1].proc = q[i].proc /\ Total(r, i + 1) = Total(q, i)

(* kitimer gives its caller the time it asked for and leaves the others      *)
(* theirs.                                                                   *)
LEMMA InsertedTimes ==
  ASSUME NEW q \in Seq(Timers), Ordered(q), NEW p \in Procs, NEW t \in Int,
         NEW r, r = Inserted(q, p, t)
  PROVE  \E k \in 0 .. Len(q) : TimerSet(q, r, k, p, t)
<1>1. PICK k \in 0 .. Len(q) :
         /\ k = Ahead(q, t)
         /\ k # 0 => Total(q, k) <= t
         /\ k < Len(q) => Total(q, k + 1) > t
  BY AheadSplits
<1>2. PICK own : own = t - Total(q, k)
  OBVIOUS
<1>3. Len(q) \in Nat /\ k \in Nat /\ k <= Len(q) /\ Total(q, k) \in Int
  BY TotalSteps
<1>4. own \in Int /\ t = Total(q, k) + own /\ (k # 0 => own >= 0)
  BY <1>1, <1>2, <1>3
<1>5. k < Len(q) => own < q[k + 1].time
  <2> SUFFICES ASSUME k < Len(q) PROVE own < q[k + 1].time
    OBVIOUS
  <2>1. PICK j \in 1 .. Len(q) : j = k + 1
    BY <1>3
  <2>2. Total(q, j) = Total(q, j - 1) + q[j].time /\ j - 1 = k /\ q[j].time \in Int
    BY <1>3, <2>1, TotalSteps
  <2> QED
    BY <1>1, <1>3, <1>4, <2>1, <2>2
<1>6. r = After(q, k, p, own)
  BY <1>1, <1>2 DEF Inserted, After
<1>7. /\ r \in Seq(Timers)
      /\ Len(r) = Len(q) + 1
      /\ \A i \in 1 .. k : r[i] = q[i]
      /\ r[k + 1] = [proc |-> p, time |-> own]
      /\ k < Len(q) => r[k + 2] = [proc |-> q[k + 1].proc, time |-> q[k + 1].time - own]
      /\ \A i \in k + 3 .. Len(q) + 1 : r[i] = q[i - 1]
  BY <1>4, <1>6, AfterEntries
<1>8. \A i \in k + 1 .. Len(q) : r[i + 1].proc = q[i].proc
  <2> TAKE i \in k + 1 .. Len(q)
  <2>1. i = k + 1 \/ i + 1 \in k + 3 .. Len(q) + 1
    BY <1>3
  <2>2. CASE i = k + 1
    <3>1. i + 1 = k + 2 /\ k < Len(q)
      BY <1>3, <2>2
    <3> QED
      BY <1>7, <2>2, <3>1
  <2>3. CASE i + 1 \in k + 3 .. Len(q) + 1
    <3>1. (i + 1) - 1 = i
      BY <1>3
    <3> QED
      BY <1>7, <2>3, <3>1
  <2> QED
    BY <2>1, <2>2, <2>3
<1>9. PICK f : f = [i \in 0 .. Len(q) + 1 |->
                      IF i <= k THEN Total(q, i) ELSE IF i = k + 1 THEN t ELSE Total(q, i - 1)]
  OBVIOUS
<1>10. AddsUp(f, r)
  <2>1. f[0] = 0
    BY <1>3, <1>9, TotalSteps
  <2>2. ASSUME NEW i \in 1 .. Len(r) PROVE f[i] = f[i - 1] + r[i].time
    <3>1. i \in 1 .. Len(q) + 1 /\ i - 1 \in 0 .. Len(q) + 1 /\ i \in 0 .. Len(q) + 1
      BY <1>3, <1>7
    <3>2. CASE i <= k
      <4>1. i \in 1 .. Len(q) /\ i \in 1 .. k /\ i - 1 <= k
        BY <1>3, <3>1, <3>2
      <4>2. f[i] = Total(q, i) /\ f[i - 1] = Total(q, i - 1)
        BY <1>9, <3>1, <3>2, <4>1
      <4> QED
        BY <1>7, <4>1, <4>2, TotalSteps
    <3>3. CASE i = k + 1
      <4>1. i - 1 = k /\ ~(i <= k)
        BY <1>3, <3>3
      <4>2. f[i] = t /\ f[i - 1] = Total(q, k)
        BY <1>3, <1>9, <3>1, <3>3, <4>1
      <4> QED
        BY <1>4, <1>7, <3>3, <4>2
    <3>4. CASE i = k + 2
      <4>1. PICK j \in 1 .. Len(q) : j = k + 1
        BY <1>3, <3>1, <3>4
      <4>2. i - 1 = k + 1 /\ ~(i <= k) /\ i # k + 1 /\ ~(k + 1 <= k) /\ j - 1 = k /\ k < Len(q)
        BY <1>3, <3>4, <4>1
      <4>3. f[i] = Total(q, j) /\ f[i - 1] = t
        BY <1>9, <3>1, <4>1, <4>2
      <4>4. Total(q, j) = Total(q, k) + q[j].time /\ q[j].time \in Int
        BY <4>1, <4>2, TotalSteps
      <4>5. r[i].time = q[j].time - own
        BY <1>7, <3>4, <4>1, <4>2
      <4> QED
        BY SMTT(30), <1>3, <1>4, <4>3, <4>4, <4>5
    <3>5. CASE i > k + 2
      <4>1. PICK j \in 1 .. Len(q) : j = i - 1
        BY <1>3, <3>1, <3>5
      <4>2. i \in k + 3 .. Len(q) + 1 /\ ~(i <= k) /\ i # k + 1 /\ ~(j <= k) /\ j # k + 1
        BY <1>3, <3>1, <3>5, <4>1
      <4>3. f[i] = Total(q, j) /\ f[i - 1] = Total(q, j - 1)
        BY <1>9, <3>1, <4>1, <4>2
      <4>4. r[i] = q[j]
        BY <1>7, <4>1, <4>2
      <4> QED
        BY <4>3, <4>4, TotalSteps
    <3> QED
      BY <1>3, <3>1, <3>2, <3>3, <3>4, <3>5
  <2> QED
    BY <2>1, <2>2 DEF AddsUp
<1>11. \A i \in 0 .. Len(q) + 1 : Total(r, i) = f[i]
  BY <1>7, <1>10, TotalIs
<1>12. r[k + 1].proc = p /\ Total(r, k + 1) = t
  <2>1. k + 1 \in 0 .. Len(q) + 1 /\ ~(k + 1 <= k)
    BY <1>3
  <2> QED
    BY <1>7, <1>9, <1>11, <2>1
<1>13. \A i \in 1 .. k : r[i].proc = q[i].proc /\ Total(r, i) = Total(q, i)
  <2> TAKE i \in 1 .. k
  <2>1. i \in 0 .. Len(q) + 1 /\ i <= k
    BY <1>3
  <2> QED
    BY <1>7, <1>9, <1>11, <2>1
<1>14. \A i \in k + 1 .. Len(q) : Total(r, i + 1) = Total(q, i)
  <2> TAKE i \in k + 1 .. Len(q)
  <2>1. i + 1 \in 0 .. Len(q) + 1 /\ ~(i + 1 <= k) /\ i + 1 # k + 1 /\ (i + 1) - 1 = i
    BY <1>3
  <2> QED
    BY <1>9, <1>11, <2>1
<1>15. k = 0 => Total(q, k) = 0
  BY TotalSteps
<1>16. r[1].time = IF k = 0 THEN t ELSE q[1].time
  <2>1. CASE k = 0
    <3>1. r[1] = [proc |-> p, time |-> own] /\ own = t
      BY <1>3, <1>4, <1>7, <1>15, <2>1
    <3> QED
      BY <2>1, <3>1
  <2>2. CASE k # 0
    <3>1. 1 \in 1 .. k
      BY <1>3, <2>2
    <3> QED
      BY <1>7, <2>2, <3>1
  <2> QED
    BY <2>1, <2>2
<1>17. k = 0 /\ q # << >> => t < q[1].time
  <2> SUFFICES ASSUME k = 0, q # << >> PROVE t < q[1].time
    OBVIOUS
  <2>1. k < Len(q) /\ k + 1 = 1
    BY <1>3
  <2>2. own < q[1].time /\ own = t
    BY <1>3, <1>4, <1>5, <1>15, <2>1
  <2> QED
    BY <2>2
<1>18. Ordered(r)
  <2> SUFFICES ASSUME NEW i \in 2 .. Len(r) PROVE r[i].time >= 0
    BY DEF Ordered
  <2>1. i \in 2 .. Len(q) + 1
    BY <1>7
  <2>2. CASE i <= k
    <3>1. i \in 1 .. k /\ i \in 2 .. Len(q)
      BY <1>3, <2>1, <2>2
    <3> QED
      BY <1>7, <3>1 DEF Ordered
  <2>3. CASE i = k + 1
    <3>1. k # 0 /\ own >= 0
      BY <1>3, <1>4, <2>1, <2>3
    <3>2. r[i] = [proc |-> p, time |-> own]
      BY <1>7, <2>3
    <3> QED
      BY <3>1, <3>2
  <2>4. CASE i = k + 2
    <3>1. PICK j \in 1 .. Len(q) : j = k + 1 /\ k < Len(q)
      BY <1>3, <2>1, <2>4
    <3>2. r[i].time = q[j].time - own /\ own < q[j].time /\ q[j].time \in Int
      BY <1>5, <1>7, <2>4, <3>1, EntryTypes
    <3> QED
      BY <1>4, <3>2
  <2>5. CASE i > k + 2
    <3>1. i \in k + 3 .. Len(q) + 1 /\ i - 1 \in 2 .. Len(q)
      BY <1>3, <2>1, <2>5
    <3> QED
      BY <1>7, <3>1 DEF Ordered
  <2> QED
    BY <1>3, <2>1, <2>2, <2>3, <2>4, <2>5
<1> QED
  BY <1>7, <1>8, <1>12, <1>13, <1>14, <1>16, <1>17, <1>18 DEF TimerSet

(* The loop of thandler stops at the first entry that has time left.         *)
LEMMA ExpiredStops ==
  ASSUME NEW q \in Seq(Timers)
  PROVE  /\ Expired(q) \in 0 .. Len(q)
         /\ \A i \in 1 .. Expired(q) : q[i].time = 0
         /\ Expired(q) < Len(q) => q[Expired(q) + 1].time # 0
<1> DEFINE Stop == {n \in 0 .. Len(q) : n = Len(q) \/ q[n + 1].time # 0}
<1>1. Len(q) \in Nat
  OBVIOUS
<1>2. PICK n \in Stop : \A m \in Stop : n <= m
  <2>1. Stop \subseteq Nat
    OBVIOUS
  <2>2. Len(q) \in Stop
    BY <1>1
  <2> HIDE DEF Stop
  <2> QED
    BY <2>1, <2>2, LeastNat
<1>3. PICK x : x = Expired(q)
  OBVIOUS
<1>4. x \in Stop /\ \A m \in Stop : x <= m
  BY <1>2, <1>3 DEF Expired, Min
<1>5. x \in 0 .. Len(q) /\ (x = Len(q) \/ q[x + 1].time # 0)
  BY <1>4
<1>6. \A i \in 1 .. x : q[i].time = 0
  <2> SUFFICES ASSUME NEW i \in 1 .. x, q[i].time # 0 PROVE FALSE
    OBVIOUS
  <2>1. i - 1 \in 0 .. Len(q) /\ (i - 1) + 1 = i /\ ~(x <= i - 1)
    BY <1>1, <1>5
  <2>2. i - 1 \in Stop
    BY <2>1
  <2> QED
    BY <1>4, <2>1, <2>2
<1> QED
  BY SMTT(30), <1>1, <1>3, <1>5, <1>6

(* The queue one second later, its head counted down.                        *)
Down1(q) == [q EXCEPT ![1].time = @ - 1]

(* What is left of it when the expired entries are taken off.                *)
Later(q) == SubSeq(q, Expired(q) + 1, Len(q))

(* Its entries are the last ones of q.                                       *)
LEMMA LaterEntries ==
  ASSUME NEW q \in Seq(Timers), NEW n \in 0 .. Len(q), n = Expired(q),
         NEW r, r = Later(q)
  PROVE  /\ r \in Seq(Timers) /\ Len(r) = Len(q) - n
         /\ \A i \in 1 .. Len(q) - n : r[i] = q[n + i]
<1>1. Len(q) \in Nat /\ n \in Nat /\ n <= Len(q)
  OBVIOUS
<1>2. r = SubSeq(q, n + 1, Len(q))
  BY DEF Later
<1>3. SubSeq(q, n + 1, Len(q)) \in Seq(Timers) /\ Len(SubSeq(q, n + 1, Len(q))) = Len(q) - n
  BY <1>1
<1>4. \A i \in 1 .. Len(q) - n : SubSeq(q, n + 1, Len(q))[i] = q[n + i]
  BY <1>1
<1> QED
  BY <1>2, <1>3, <1>4

(* Its head has no time left.                                                *)
Held(q) == q # << >> /\ q[1].time <= 0

(* d is q one second later, and r what is left of it: all but the first n,   *)
(* whose last second it was, or all if q was held up.                          *)
SecondGone(q, d, n, r) ==
    /\ n \in 0 .. Len(q)
    /\ d \in Seq(Timers) /\ Len(d) = Len(q)
    /\ \A i \in 1 .. Len(q) : d[i].proc = q[i].proc
    /\ \A i \in 1 .. n : Total(q, i) = 1
    /\ r \in Seq(Timers) /\ Ordered(r) /\ Len(r) = Len(q) - n
    /\ \A i \in 1 .. Len(q) - n : /\ r[i].proc = q[n + i].proc
                                  /\ Total(r, i) = Total(q, n + i) - 1
                                  /\ ~Held(q) => Total(r, i) > 0
    /\ Held(q) => n = 0

(* A second takes one from everybody's time, and takes off whose time is up  *)
(* unless the queue is held up.                                                *)
LEMMA SecondTimes ==
  ASSUME NEW q \in Seq(Timers), Ordered(q), q # << >>,
         NEW d, d = Down1(q), NEW n, n = Expired(d),
         NEW r, r = Later(d)
  PROVE  SecondGone(q, d, n, r)
<1>1. Len(q) \in Int /\ Len(q) > 0 /\ 1 \in 1 .. Len(q)
  OBVIOUS
<1>2. PICK e \in Timers : e = q[1]
  BY <1>1
<1>3. PICK g : g = [proc |-> e.proc, time |-> e.time - 1]
  OBVIOUS
<1>4. e = [proc |-> e.proc, time |-> e.time] /\ e.time \in Int /\ e.proc \in Procs
  BY <1>2 DEF Timers
<1>5. g \in Timers
  BY <1>3, <1>4 DEF Timers
<1>6. d = [q EXCEPT ![1] = g]
  <2>1. [e EXCEPT !.time = @ - 1] = g
    <3>1. PICK a, b : e = [proc |-> a, time |-> b]
      BY <1>4
    <3> QED
      BY <1>3, <3>1
  <2>2. d = [q EXCEPT ![1] = [q[1] EXCEPT !.time = @ - 1]]
    BY DEF Down1
  <2> QED
    BY <1>2, <2>1, <2>2
<1>7. /\ d \in Seq(Timers) /\ Len(d) = Len(q) /\ d[1] = g
      /\ \A i \in 2 .. Len(q) : d[i] = q[i]
  BY <1>1, <1>5, <1>6
<1>8. \A i \in 1 .. Len(q) : d[i].proc = q[i].proc
  <2> TAKE i \in 1 .. Len(q)
  <2>1. i = 1 \/ i \in 2 .. Len(q)
    BY <1>1
  <2> QED
    BY <1>2, <1>3, <1>7, <2>1
<1>9. /\ n \in 0 .. Len(q)
      /\ \A i \in 1 .. n : d[i].time = 0
      /\ n < Len(q) => d[n + 1].time # 0
  BY <1>7, ExpiredStops
<1>10. \A i \in 1 .. Len(q) : Total(d, i) = Total(q, i) - 1
  <2>1. PICK f : f = [i \in 0 .. Len(q) |-> IF i = 0 THEN 0 ELSE Total(q, i) - 1]
    OBVIOUS
  <2>2. f[0] = 0 /\ Total(q, 0) = 0
    BY <1>1, <2>1, TotalSteps
  <2>3. ASSUME NEW i \in 1 .. Len(q) PROVE f[i] = f[i - 1] + d[i].time
    <3>1. /\ i \in 0 .. Len(q) /\ i # 0 /\ i - 1 \in 0 .. Len(q)
          /\ Total(q, i) = Total(q, i - 1) + q[i].time
          /\ Total(q, i) \in Int /\ Total(q, i - 1) \in Int /\ q[i].time \in Int
      <4>1. i \in 0 .. Len(q) /\ i # 0 /\ i - 1 \in 0 .. Len(q)
        BY <1>1
      <4>2. /\ Total(q, i) = Total(q, i - 1) + q[i].time
            /\ q[i].time \in Int
        BY TotalSteps
      <4>3. Total(q, i) \in Int /\ Total(q, i - 1) \in Int
        BY <4>1, TotalSteps, Zenon
      <4> QED
        BY <4>1, <4>2, <4>3, Zenon
    <3>2. f[i] = Total(q, i) - 1
      BY <2>1, <3>1
    <3>3. CASE i = 1
      BY <1>2, <1>3, <1>4, <1>7, <2>2, <3>1, <3>2, <3>3
    <3>4. CASE i # 1
      <4>1. i \in 2 .. Len(q) /\ i - 1 # 0
        BY <3>1, <3>4
      <4>2. f[i - 1] = Total(q, i - 1) - 1 /\ d[i] = q[i]
        BY <1>7, <2>1, <3>1, <4>1
      <4>3. d[i].time = q[i].time
        BY <4>2
      <4>4. f[i - 1] = Total(q, i - 1) - 1
        BY <4>2
      <4> QED
        BY <3>1, <3>2, <4>3, <4>4
    <3> QED
      BY <3>3, <3>4
  <2>4. AddsUp(f, d)
    BY <1>7, <2>2, <2>3 DEF AddsUp
  <2>5. \A i \in 0 .. Len(q) : Total(d, i) = f[i]
    BY <1>7, <2>4, TotalIs
  <2>6. \A i \in 1 .. Len(q) : i \in 0 .. Len(q) /\ i # 0
    OBVIOUS
  <2> QED
    BY <2>1, <2>5, <2>6
<1>11. \A i \in 0 .. n : Total(d, i) = 0
  <2> DEFINE Left == {i \in 0 .. n : Total(d, i) # 0}
  <2> SUFFICES ASSUME Left # {} PROVE FALSE
    OBVIOUS
  <2>1. PICK m \in Left : \A i \in Left : m <= i
    <3>1. Left \subseteq Nat
      BY <1>9
    <3> HIDE DEF Left
    <3> QED
      BY <3>1, LeastNat
  <2>2. m \in 0 .. n /\ Total(d, m) # 0
    OBVIOUS
  <2>3. m # 0
    BY <1>7, <2>2, TotalSteps
  <2>4. m - 1 \in 0 .. n /\ m \in 1 .. n /\ m \in 1 .. Len(d) /\ ~(m <= m - 1)
    BY <1>7, <1>9, <2>2, <2>3
  <2>5. Total(d, m - 1) = 0
    BY <2>1, <2>4
  <2>6. Total(d, m) = Total(d, m - 1) + d[m].time
    BY <1>7, <2>4, TotalSteps
  <2> QED
    BY <1>9, <2>2, <2>4, <2>5, <2>6
<1>12. \A i \in 1 .. n : Total(q, i) = 1
  <2> TAKE i \in 1 .. n
  <2>1. i \in 0 .. n /\ i \in 1 .. Len(q) /\ i \in 0 .. Len(q)
    BY <1>9
  <2>2. Total(q, i) \in Int
    BY <2>1, TotalSteps
  <2> QED
    BY <1>10, <1>11, <2>1, <2>2
<1>13. /\ r \in Seq(Timers) /\ Len(r) = Len(q) - n
       /\ \A i \in 1 .. Len(q) - n : r[i] = d[n + i]
  <2>1. d \in Seq(Timers) /\ n \in 0 .. Len(d) /\ Len(d) = Len(q) /\ n \in Nat /\ n <= Len(d)
    BY <1>1, <1>7, <1>9
  <2>2. r = SubSeq(d, n + 1, Len(d))
    BY DEF Later
  <2>3. SubSeq(d, n + 1, Len(d)) \in Seq(Timers) /\ Len(SubSeq(d, n + 1, Len(d))) = Len(d) - n
    BY <1>1, <2>1
  <2>4. \A i \in 1 .. Len(d) - n : SubSeq(d, n + 1, Len(d))[i] = d[n + i]
    BY <1>1, <2>1
  <2> QED
    BY <2>1, <2>2, <2>3, <2>4
<1>14. \A i \in 0 .. Len(r) : Total(r, i) = Total(d, n + i)
  <2>1. PICK f : f = [i \in 0 .. Len(r) |-> Total(d, n + i)]
    OBVIOUS
  <2>2. f[0] = 0
    <3>1. 0 \in 0 .. Len(r) /\ n + 0 = n /\ n \in 0 .. n
      BY <1>9, <1>13
    <3> QED
      BY <1>11, <2>1, <3>1
  <2>3. ASSUME NEW i \in 1 .. Len(r) PROVE f[i] = f[i - 1] + r[i].time
    <3>1. /\ i \in 0 .. Len(r) /\ i - 1 \in 0 .. Len(r) /\ i \in 1 .. Len(q) - n
          /\ n + i \in 1 .. Len(d) /\ (n + i) - 1 = n + (i - 1)
      <4>1. n \in Nat /\ n <= Len(q) /\ i \in Nat /\ 1 <= i /\ i <= Len(q) - n
        BY <1>1, <1>9, <1>13
      <4>2. n + i \in 1 .. Len(q) /\ (n + i) - 1 = n + (i - 1)
        BY <1>1, <4>1
      <4>3. i \in 0 .. Len(q) - n /\ i - 1 \in 0 .. Len(q) - n
        BY <1>1, <4>1
      <4> QED
        BY <1>7, <1>13, <4>1, <4>2, <4>3
    <3>2. Total(d, n + i) = Total(d, n + (i - 1)) + d[n + i].time
      BY <1>7, <3>1, TotalSteps
    <3> QED
      BY <1>13, <2>1, <3>1, <3>2
  <2>4. AddsUp(f, r)
    BY <2>2, <2>3 DEF AddsUp
  <2>5. \A i \in 0 .. Len(r) : Total(r, i) = f[i]
    BY <1>13, <2>4, TotalIs
  <2> QED
    BY <2>1, <2>5
<1>16. Ordered(d)
  <2> SUFFICES ASSUME NEW i \in 2 .. Len(q) PROVE d[i].time >= 0
    BY <1>7 DEF Ordered
  <2> QED
    BY <1>7 DEF Ordered
<1>17. Ordered(r)
  <2> SUFFICES ASSUME NEW i \in 2 .. Len(q) - n PROVE r[i].time >= 0
    BY <1>13 DEF Ordered
  <2>1. n + i \in 2 .. Len(d) /\ i \in 1 .. Len(q) - n
    BY <1>1, <1>7, <1>9
  <2> QED
    BY <1>13, <1>16, <2>1 DEF Ordered
<1>15. ASSUME NEW i \in 1 .. Len(q) - n
       PROVE  /\ r[i].proc = q[n + i].proc
              /\ Total(r, i) = Total(q, n + i) - 1
              /\ ~Held(q) => Total(r, i) > 0
  <2>1. /\ i \in 0 .. Len(r) /\ n + i \in 1 .. Len(q) /\ 1 \in 0 .. Len(r)
        /\ 1 <= i /\ n < Len(q) /\ n + 1 \in 1 .. Len(d) /\ 1 \in 1 .. Len(r) /\ 1 \in 1 .. Len(q) - n
        /\ i \in 1 .. Len(r)
    BY <1>1, <1>7, <1>9, <1>13
  <2>2. r[i].proc = q[n + i].proc
    BY <1>8, <1>13, <2>1
  <2>3. Total(r, i) = Total(q, n + i) - 1
    BY <1>10, <1>14, <2>1
  <2>4. r[1].time # 0
    BY <1>9, <1>13, <2>1
  <2>5. Total(r, 1) = Total(r, 1 - 1) + r[1].time /\ Total(r, 0) = 0 /\ r[1].time \in Int
    BY <1>13, <2>1, TotalSteps
  <2>6. /\ Total(r, 1) <= Total(r, i)
        /\ Total(r, 1) \in Int /\ Total(r, i) \in Int
    BY <1>13, <1>17, <2>1, TotalGrows, TotalSteps
  <2>7. ~Held(q) => r[1].time > 0
    <3> SUFFICES ASSUME ~Held(q) PROVE r[1].time >= 0
      BY <2>4, <2>5
    <3>1. CASE n = 0
      <4>1. r[1] = g /\ e.time > 0
        BY <1>1, <1>2, <1>4, <1>7, <1>13, <2>1, <3>1 DEF Held
      <4> QED
        BY <1>3, <1>4, <4>1
    <3>2. CASE n # 0
      <4>1. n + 1 \in 2 .. Len(d) /\ r[1] = d[n + 1]
        BY <1>1, <1>7, <1>9, <1>13, <2>1, <3>2
      <4> QED
        BY <1>16, <4>1 DEF Ordered
    <3> QED
      BY <3>1, <3>2
  <2> QED
    BY <2>2, <2>3, <2>5, <2>6, <2>7
<1>18. Held(q) => n = 0
  <2> SUFFICES ASSUME Held(q), n # 0 PROVE FALSE
    OBVIOUS
  <2>1. 1 \in 1 .. n /\ d[1].time = 0
    BY <1>1, <1>9
  <2>2. d[1].time = e.time - 1 /\ e.time <= 0
    BY <1>2, <1>3, <1>7 DEF Held
  <2> QED
    BY <1>4, <2>1, <2>2
<1> QED
  BY <1>7, <1>8, <1>9, <1>12, <1>13, <1>15, <1>17, <1>18 DEF SecondGone

-----------------------------------------------------------------------------
(* Statuses and lists that agree.                                            *)
Agreeing ==
    {l \in [status : [Procs -> Statuses], ready : Seq(Procs), sleep : Seq(Procs)] :
        Kept(l.status, priority, freeList, l.ready, l.sleep)}

(* Whom the first i entries of q wake.                                       *)
WokenBy(q, i, p) == status[p] = "SLEEP" /\ \E j \in 1 .. i : event[p] = Entry(q[j].proc)

(* thandler's loop wakes exactly the sleepers of the expired entries and     *)
(* mixes up no list, however many timers expire together.                    *)
LEMMA WakeAllKeeps ==
  ASSUME KInv, NEW q \in Seq(Timers), NEW l, l = WakeAll(Lists, q)
  PROVE  /\ Kept(l.status, priority, freeList, l.ready, l.sleep)
         /\ \A p \in Procs : l.status[p] = IF WokenBy(q, Len(q), p) THEN "READY" ELSE status[p]
<1> DEFINE Turn(f, i) == IF i = 0 THEN Lists ELSE kwakeup(f[i - 1], Entry(q[i].proc))
           turn == CHOOSE f : f = [i \in 0 .. Len(q) |-> Turn(f, i)]
<1>1. Sane /\ Agree
  BY TwoHalves
<1>2. Len(q) \in Nat
  OBVIOUS
<1>3. PICK S : S = Agreeing
  OBVIOUS
<1>4. Lists \in S /\ Lists.status = status
  <2>1. Lists = [status |-> status, ready |-> readyQueue, sleep |-> sleepList]
    BY DEF Lists
  <2>2. /\ status \in [Procs -> Statuses] /\ readyQueue \in Seq(Procs) /\ sleepList \in Seq(Procs)
        /\ Kept(status, priority, freeList, readyQueue, sleepList)
    BY <1>1 DEF Agree, Kept
  <2> QED
    BY <1>3, <2>1, <2>2 DEF Agreeing
<1>5. ASSUME NEW x \in S, NEW ev
      PROVE  /\ kwakeup(x, ev) \in S
             /\ \A p \in Procs : kwakeup(x, ev).status[p] =
                    IF x.status[p] = "SLEEP" /\ event[p] = ev THEN "READY" ELSE x.status[p]
  <2>1. PICK r : r = kwakeup(x, ev)
    OBVIOUS
  <2>2. Kept(x.status, priority, freeList, x.ready, x.sleep)
    BY <1>3 DEF Agreeing
  <2>3. Woken(x, ev, freeList, r)
    BY <2>1, <2>2, WakeupKeeps
  <2>4. PICK a, b, c : r = [status |-> a, ready |-> b, sleep |-> c]
    BY <2>1 DEF kwakeup
  <2>5. a \in [Procs -> Statuses] /\ b \in Seq(Procs) /\ c \in Seq(Procs)
    BY <2>3, <2>4 DEF Woken, Kept
  <2>6. r \in [status : [Procs -> Statuses], ready : Seq(Procs), sleep : Seq(Procs)]
    BY <2>4, <2>5
  <2>7. r \in S
    BY <1>3, <2>3, <2>6 DEF Agreeing, Woken
  <2> QED
    BY <2>1, <2>3, <2>7 DEF Woken
<1>6. PICK n \in Nat : n = Len(q)
  BY <1>2
<1>7. PICK step : step = [x \in (1 .. n) \X S |-> kwakeup(x[2], Entry(q[x[1]].proc))]
  OBVIOUS
<1>8. /\ step \in [(1 .. n) \X S -> S]
      /\ \A i \in 1 .. n, x \in S : step[<<i, x>>] = kwakeup(x, Entry(q[i].proc))
  BY <1>5, <1>7
<1>9. PICK g \in [0 .. n -> S] : Loops(g, Lists, n, step)
  BY <1>4, <1>8, LoopEnds
<1>10. g[0] = Lists /\ \A i \in 1 .. n : g[i] = kwakeup(g[i - 1], Entry(q[i].proc))
  <2>1. \A i \in 1 .. n : i - 1 \in 0 .. n
    BY <1>6
  <2> QED
    BY <1>8, <1>9, <2>1 DEF Loops
<1>11. g = [i \in 0 .. Len(q) |-> Turn(g, i)]
  <2> SUFFICES ASSUME NEW i \in 0 .. Len(q) PROVE g[i] = Turn(g, i)
    BY <1>6
  <2>1. i = 0 \/ i \in 1 .. n
    BY <1>6
  <2> QED
    BY <1>6, <1>10, <2>1
<1>12. turn = [i \in 0 .. Len(q) |-> Turn(turn, i)]
  <2> HIDE DEF Turn
  <2> QED
    BY <1>11
<1>13. l = turn[Len(q)]
  BY DEF WakeAll
<1> HIDE DEF turn
<1>14. /\ turn[0] = Lists
       /\ \A i \in 1 .. n : turn[i] = kwakeup(turn[i - 1], Entry(q[i].proc))
  <2>1. \A i \in 0 .. n : turn[i] = Turn(turn, i)
    <3> HIDE DEF Turn
    <3> QED
      BY <1>6, <1>12
  <2>2. 0 \in 0 .. n /\ \A i \in 1 .. n : i \in 0 .. n /\ i # 0
    BY <1>6
  <2> QED
    BY <2>1, <2>2
<1> DEFINE Good(i) == /\ turn[i] \in S
                      /\ \A p \in Procs : turn[i].status[p] =
                             IF WokenBy(q, i, p) THEN "READY" ELSE status[p]
           Bad == {i \in 0 .. n : ~Good(i)}
<1>15. Good(0)
  BY <1>4, <1>14 DEF WokenBy
<1>16. ASSUME NEW i \in 1 .. n, Good(i - 1) PROVE Good(i)
  <2>1. PICK x \in S : x = turn[i - 1]
    BY <1>16
  <2>2. PICK ev : ev = Entry(q[i].proc)
    OBVIOUS
  <2>3. turn[i] = kwakeup(x, ev)
    BY <1>14, <2>1, <2>2
  <2>4. \A j \in 1 .. i : j = i \/ j \in 1 .. i - 1
    OBVIOUS
  <2>5. \A j \in 1 .. i - 1 : j \in 1 .. i
    OBVIOUS
  <2>6. i \in 1 .. i
    OBVIOUS
  <2>7. ASSUME NEW p \in Procs
        PROVE  WokenBy(q, i, p) <=> WokenBy(q, i - 1, p) \/ (status[p] = "SLEEP" /\ event[p] = ev)
    BY <2>2, <2>4, <2>5, <2>6 DEF WokenBy
  <2>8. \A p \in Procs : x.status[p] = IF WokenBy(q, i - 1, p) THEN "READY" ELSE status[p]
    BY <1>16, <2>1
  <2>9. \A p \in Procs : turn[i].status[p] =
            IF x.status[p] = "SLEEP" /\ event[p] = ev THEN "READY" ELSE x.status[p]
    BY <1>5, <2>3
  <2>10. \A p \in Procs : WokenBy(q, i - 1, p) => status[p] = "SLEEP"
    BY DEF WokenBy
  <2>11. ASSUME NEW p \in Procs
         PROVE  turn[i].status[p] = IF WokenBy(q, i, p) THEN "READY" ELSE status[p]
    <3>1. CASE WokenBy(q, i - 1, p)
      BY <2>7, <2>8, <2>9, <2>10, <3>1
    <3>2. CASE ~WokenBy(q, i - 1, p)
      BY <2>7, <2>8, <2>9, <3>2
    <3> QED
      BY <3>1, <3>2
  <2> QED
    BY <1>5, <2>3, <2>11
<1>17. Good(n)
  <2> SUFFICES ASSUME Bad # {} PROVE FALSE
    <3>1. n \in 0 .. n
      BY <1>6
    <3> QED
      BY <3>1
  <2>1. PICK m \in Bad : \A j \in Bad : m <= j
    <3>1. Bad \subseteq Nat
      BY <1>6
    <3> HIDE DEF Bad
    <3> QED
      BY <3>1, LeastNat
  <2>2. m \in 0 .. n /\ ~Good(m)
    OBVIOUS
  <2> HIDE DEF Good
  <2>3. m # 0
    BY <1>15, <2>2
  <2>4. m \in 1 .. n /\ m - 1 \in 0 .. n /\ ~(m <= m - 1)
    BY <1>6, <2>2, <2>3
  <2>5. Good(m - 1)
    BY <2>1, <2>4
  <2> QED
    BY <1>16, <2>2, <2>4, <2>5
<1> QED
  BY <1>3, <1>6, <1>13, <1>17 DEF Agreeing

-----------------------------------------------------------------------------
(* Whom the timer queue may name: who is on its way to sleep in kitimer, and *)
(* who sleeps on its entry.                                                  *)
AsleepOnTimer(p) == status[p] = "SLEEP" /\ event[p] = Entry(p)
HasTimer(p) == at[p] = "kitimer" \/ AsleepOnTimer(p)

(* Where the processes are, and that inkmode tells it.  P0 is always in the  *)
(* kernel, kitimer is not left by a switch before its ksleep, and a process  *)
(* in user mode or in kitimer is not at the same time in kwait.              *)
Modes ==
    /\ inkmode \in [Procs -> 0 .. 2]
    /\ at \in [Procs -> {"user", "kernel", "kitimer"}]
    /\ \A p \in Procs : inkmode[p] = IF at[p] = "user" THEN 0 ELSE 1
    /\ at[0] = "kernel"
    /\ \A p \in Procs : at[p] = "kitimer" => p = running
    /\ \A p \in Procs : at[p] # "kernel" => pc[p] = "body"

(* Every slice has some of its seconds left.                                 *)
Slices == time \in [Procs -> Int] /\ SliceInBounds

(* A queue of differences, in which nobody is twice.                         *)
Sound(q) == q \in Seq(Timers) /\ Ordered(q) /\ OneEach(q)

(* Nobody is on the queue who does not wait for it.                          *)
Owners == Sound(tq) /\ \A i \in 1 .. Len(tq) : HasTimer(tq[i].proc)

(* The inductive invariant.                                                  *)
TimerIInv ==
    /\ KInv
    /\ Modes
    /\ Slices
    /\ Owners
    /\ astray \in BOOLEAN

(* A step that leaves the queue alone disturbs nobody who is on it.          *)
LEMMA OwnersStay ==
  ASSUME Owners, UNCHANGED tq, \A p \in Procs : HasTimer(p) => HasTimer(p)'
  PROVE  Owners'
<1>1. \A i \in 1 .. Len(tq) : tq[i].proc \in Procs
  BY EntryTypes DEF Owners, Sound
<1>2. ASSUME NEW i \in 1 .. Len(tq) PROVE HasTimer(tq[i].proc)'
  <2>1. PICK p \in Procs : p = tq[i].proc
    BY <1>1
  <2>2. HasTimer(p)'
    BY <2>1 DEF Owners
  <2> QED
    BY <2>1, <2>2 DEF HasTimer, AsleepOnTimer
<1>3. Sound(tq)'
  BY DEF Owners, Sound, OneEach, Ordered
<1> QED
  BY <1>2, <1>3 DEF Owners

(* What everybody else does to those who sleep on their timers: nothing.     *)
Undisturbed == \A p \in Procs : AsleepOnTimer(p) => status'[p] = "SLEEP" /\ event'[p] = event[p]

(* tswitch changes only processes that run or are ready.                     *)
LEMMA SwitchLeaves ==
  ASSUME KInv, NEW st, NEW rq, NEW sl,
         Kept(st, priority, freeList, rq, sl),
         \A p \in Procs : st[p] = "RUNNING" => p = running,
         st[0] \in {"RUNNING", "READY"},
         \A p \in Procs : AsleepOnTimer(p) => st[p] = "SLEEP",
         \A p \in Procs : p # running => event'[p] = event[p],
         scheduler(st, rq)
  PROVE  Undisturbed
<1>1. \A p \in Procs : IF st[p] \in {"RUNNING", "READY"}
                       THEN status'[p] \in {"RUNNING", "READY"}
                       ELSE status'[p] = st[p]
  BY SwitchedFrom
<1>2. status[running] = "RUNNING"
  BY TwoHalves DEF Sane
<1> QED
  BY <1>1, <1>2 DEF Undisturbed, AsleepOnTimer

(* So it is when nothing but tswitch is done,                                *)
LEMMA TswitchLeaves ==
  ASSUME KInv, scheduler(status, readyQueue), UNCHANGED event
  PROVE  Undisturbed
<1>1. Sane /\ Agree
  BY TwoHalves
<1>2. /\ Kept(status, priority, freeList, readyQueue, sleepList)
      /\ \A p \in Procs : status[p] = "RUNNING" => p = running
      /\ status[0] \in {"RUNNING", "READY"}
  BY <1>1 DEF Agree, Sane
<1>3. \A p \in Procs : AsleepOnTimer(p) => status[p] = "SLEEP"
  BY DEF AsleepOnTimer
<1> QED
  BY <1>2, <1>3, SwitchLeaves

(* in a fork, which takes a PROC that was free,                              *)
LEMMA KforkLeaves ==
  ASSUME KInv, kfork
  PROVE  /\ Undisturbed
         /\ Head(freeList) \in Procs /\ status[Head(freeList)] = "FREE"
<1>1. Sane /\ Agree
  BY TwoHalves
<1>2. freeList \in Seq(Procs) /\ freeList # << >>
  BY <1>1 DEF Agree, Kept, kfork
<1>3. PICK p : p = Head(freeList)
  OBVIOUS
<1>4. status' = [status EXCEPT ![p] = "READY"] /\ UNCHANGED event
  BY <1>3 DEF kfork, dequeue
<1>5. p \in Procs /\ p \in Range(freeList)
  BY <1>2, <1>3 DEF Range
<1>6. status[p] = "FREE"
  BY <1>1, <1>5 DEF Agree, Kept
<1>7. \A o \in Procs : status'[o] = IF o = p THEN "READY" ELSE status[o]
  BY <1>1, <1>4, <1>5 DEF Agree, Kept
<1> QED
  BY <1>3, <1>4, <1>5, <1>6, <1>7 DEF Undisturbed, AsleepOnTimer

(* A death wakes who waits for a child, never who waits for a timer: the     *)
(* entries of the queue lie behind the PROCs.                                *)
LEMMA KexitLeaves ==
  ASSUME KInv, NEW value, kexit(value), running # 0
  PROVE  Undisturbed
<1>1. Sane /\ Agree
  BY TwoHalves
<1>2. PICK l : l = WakeParents([Lists EXCEPT !.status[running] = "ZOMBIE"])
  OBVIOUS
<1>3. scheduler(l.status, l.ready) /\ UNCHANGED event
  BY <1>2 DEF kexit
<1>4. /\ Kept(l.status, priority, freeList, l.ready, l.sleep)
      /\ \A p \in Procs : l.status[p] =
             IF p = running THEN "ZOMBIE"
             ELSE IF /\ status[p] = "SLEEP"
                     /\ event[p] \in {Address(parent[running]), Address(1)}
             THEN "READY" ELSE status[p]
      /\ \A p \in Procs : l.status[p] = "RUNNING" => p = running
      /\ l.status[0] \in {"RUNNING", "READY"}
  BY <1>2, KexitLists
<1>5. status[running] = "RUNNING"
  BY <1>1 DEF Sane
<1>6. \A p \in Procs : AsleepOnTimer(p) => l.status[p] = "SLEEP"
  <2> SUFFICES ASSUME NEW p \in Procs, AsleepOnTimer(p) PROVE l.status[p] = "SLEEP"
    OBVIOUS
  <2>1. p # running /\ status[p] = "SLEEP" /\ event[p] = TqBase + p
    BY <1>5 DEF AsleepOnTimer, Entry
  <2>2. PICK m \in Procs \cup {NULL} : m = parent[running]
    BY <1>1 DEF Sane
  <2>3. /\ TqBase + p # ProcBase + m /\ TqBase + p # ProcBase + 1
        /\ Address(parent[running]) = ProcBase + m /\ Address(1) = ProcBase + 1
    BY <2>2 DEF Procs, Address
  <2> QED
    BY <1>4, <2>1, <2>3
<1> QED
  BY <1>3, <1>4, <1>6, SwitchLeaves

(* A process that goes to sleep does so by itself.                           *)
LEMMA KsleepLeaves ==
  ASSUME KInv, NEW ev, ksleep(ev), running # 0
  PROVE  /\ Undisturbed
         /\ status'[running] = "SLEEP" /\ event'[running] = ev
<1>1. Sane /\ Agree
  BY TwoHalves
<1>2. running \in Procs /\ status[running] = "RUNNING" /\ event \in [Procs -> Int]
  BY <1>1 DEF Sane
<1>3. PICK st : st = [status EXCEPT ![running] = "SLEEP"]
  OBVIOUS
<1>4. PICK sl : sl = enqueue(sleepList, running, priority)
  OBVIOUS
<1>5. scheduler(st, readyQueue) /\ event' = [event EXCEPT ![running] = ev]
  BY <1>3 DEF ksleep
<1>6. /\ Kept(st, priority, freeList, readyQueue, sl)
      /\ \A p \in Procs : st[p] = IF p = running THEN "SLEEP" ELSE status[p]
      /\ \A p \in Procs : st[p] = "RUNNING" => p = running
      /\ st[0] \in {"RUNNING", "READY"}
  BY <1>3, <1>4, KsleepLists
<1>7. /\ \A p \in Procs : AsleepOnTimer(p) => st[p] = "SLEEP"
      /\ \A p \in Procs : p # running => event'[p] = event[p]
      /\ event'[running] = ev
  BY <1>2, <1>5, <1>6 DEF AsleepOnTimer
<1>8. Undisturbed
  BY <1>5, <1>6, <1>7, SwitchLeaves
<1>9. st[running] = "SLEEP"
  BY <1>2, <1>6
<1>10. status'[running] = st[running]
  BY <1>2, <1>5, <1>6, <1>9, SwitchedFrom
<1> QED
  BY <1>7, <1>8, <1>9, <1>10

(* Neither does a parent that lays its child to rest or waits for one.       *)
LEMMA KwaitLeaves ==
  ASSUME KInv, running # 0, LayToRest \/ SleepOnSelf
  PROVE  Undisturbed /\ \A p \in Procs : p # running => pc'[p] = pc[p]
<1>1. Sane /\ Agree
  BY TwoHalves
<1>2. running \in Procs /\ pc \in [Procs -> Places]
  BY <1>1 DEF Sane
<1>3. CASE LayToRest
  <2>1. PICK c : c = Min(Dead(running))
    OBVIOUS
  <2>2. c \in Procs /\ status[c] = "ZOMBIE"
    BY <1>3, <2>1, FirstDead DEF LayToRest, Dead, Children
  <2>3. /\ status' = [status EXCEPT ![c] = "FREE"]
        /\ pc' = [pc EXCEPT ![running] = "body"]
        /\ UNCHANGED event
    BY <1>3, <2>1 DEF LayToRest, Release
  <2>4. \A o \in Procs : status'[o] = IF o = c THEN "FREE" ELSE status[o]
    BY <1>1, <2>2, <2>3 DEF Agree, Kept
  <2>5. \A p \in Procs : p # running => pc'[p] = pc[p]
    BY <1>2, <2>3
  <2> QED
    BY <2>2, <2>3, <2>4, <2>5 DEF Undisturbed, AsleepOnTimer
<1>4. CASE SleepOnSelf
  <2>1. ksleep(Address(running)) /\ pc' = [pc EXCEPT ![running] = "kwait"]
    BY <1>4 DEF SleepOnSelf
  <2>2. \A p \in Procs : p # running => pc'[p] = pc[p]
    BY <1>2, <2>1
  <2> QED
    BY <2>1, <2>2, KsleepLeaves
<1> QED
  BY <1>3, <1>4

-----------------------------------------------------------------------------
(* Who runs is a process; in user mode or in kitimer it is not P0.           *)
LEMMA WhoRuns ==
  ASSUME KInv, Modes
  PROVE  /\ running \in Procs /\ status[running] = "RUNNING" /\ 0 \in Procs
         /\ pc \in [Procs -> Places]
         /\ at[running] # "kernel" => running # 0 /\ AtPrompt
         /\ ~AsleepOnTimer(running)
<1>1. running \in Procs /\ status[running] = "RUNNING" /\ 0 \in Procs /\ pc \in [Procs -> Places]
  BY SMTT(30), TwoHalves DEF Sane, Procs
<1>2. running # NULL
  BY <1>1 DEF Procs
<1> QED
  BY <1>1, <1>2 DEF Modes, AtPrompt, AsleepOnTimer

(* The entry into the kernel, from where the caller may be switched.         *)
LEMMA EnterModes ==
  ASSUME KInv, Modes, InUmode, Enter,
         \A p \in Procs : p # running => pc'[p] = pc[p]
  PROVE  /\ Modes'
         /\ \A p \in Procs : p # running => at'[p] = at[p]
         /\ at'[running] = "kernel"
<1>1. running \in Procs /\ at[running] = "user" /\ running # 0
  BY WhoRuns DEF InUmode
<1>2. /\ inkmode' = [inkmode EXCEPT ![running] = @ + 1]
      /\ at' = [at EXCEPT ![running] = "kernel"]
  BY DEF Enter, Entered
<1>3. inkmode[running] = 0
  BY <1>1 DEF Modes
<1>4. /\ inkmode' \in [Procs -> 0 .. 2]
      /\ \A p \in Procs : inkmode'[p] = IF p = running THEN 1 ELSE inkmode[p]
  BY <1>1, <1>2, <1>3 DEF Modes
<1>5. /\ at' \in [Procs -> {"user", "kernel", "kitimer"}]
      /\ \A p \in Procs : at'[p] = IF p = running THEN "kernel" ELSE at[p]
  BY <1>1, <1>2 DEF Modes
<1>6. \A p \in Procs : inkmode'[p] = IF at'[p] = "user" THEN 0 ELSE 1
  BY <1>1, <1>4, <1>5 DEF Modes
<1>7. at'[0] = "kernel"
  <2>1. 0 \in Procs
    BY DEF Procs
  <2> QED
    BY <1>1, <1>5, <2>1 DEF Modes
<1>8. \A p \in Procs : at'[p] # "kitimer"
  BY <1>5 DEF Modes
<1>9. \A p \in Procs : at'[p] # "kernel" => pc'[p] = "body"
  BY <1>5 DEF Modes
<1>10. Modes'
  BY <1>4, <1>5, <1>6, <1>7, <1>8, <1>9 DEF Modes
<1> QED
  BY <1>1, <1>5, <1>10

(* Owners, after a step in which running was neither on its way to sleep nor *)
(* asleep on its timer.                                                      *)
LEMMA OwnersAfter ==
  ASSUME KInv, Modes, Owners, Undisturbed, UNCHANGED tq, at[running] # "kitimer",
         \A p \in Procs : at[p] = "kitimer" => at'[p] = "kitimer"
  PROVE  Owners'
<1>1. \A p \in Procs : HasTimer(p) => HasTimer(p)'
  <2> SUFFICES ASSUME NEW p \in Procs, HasTimer(p) PROVE HasTimer(p)'
    OBVIOUS
  <2>1. AsleepOnTimer(p)
    BY DEF HasTimer, Modes
  <2> QED
    BY <2>1 DEF Undisturbed, HasTimer, AsleepOnTimer
<1> QED
  BY <1>1, OwnersStay

(* The calls that enter the kernel and may switch or die there.              *)
LEMMA CallKeeps ==
  ASSUME TimerIInv, InUmode, KInv', Undisturbed, Enter, UNCHANGED <<tq, astray>>,
         time' \in [Procs -> Int], SliceInBounds',
         \A p \in Procs : p # running => pc'[p] = pc[p]
  PROVE  TimerIInv'
<1>1. KInv /\ Modes /\ Slices /\ Owners /\ astray \in BOOLEAN
  BY DEF TimerIInv
<1>2. /\ Modes' 
      /\ \A p \in Procs : p # running => at'[p] = at[p]
      /\ at'[running] = "kernel"
  BY <1>1, EnterModes
<1>3. at[running] = "user"
  BY DEF InUmode
<1>4. Owners'
  BY <1>1, <1>2, <1>3, OwnersAfter
<1> QED
  BY <1>1, <1>2, <1>4 DEF TimerIInv, Slices

(* A tswitch, from a call or from a slice that ends.                         *)
LEMMA SwitchCallKeeps ==
  ASSUME TimerIInv, InUmode, scheduler(status, readyQueue), Enter,
         time' \in [Procs -> Int], SliceInBounds',
         UNCHANGED <<ppid, parent, priority, event, exitCode, freeList,
                     sleepList, nproc, pc, tq, astray>>
  PROVE  TimerIInv'
<1>1. KInv /\ Modes
  BY DEF TimerIInv
<1>2. at[running] = "user"
  BY DEF InUmode
<1>3. AtPrompt
  BY <1>1, <1>2, WhoRuns
<1>4. DoTswitch
  BY <1>3 DEF DoTswitch
<1>5. KInv'
  BY <1>1, <1>4, NextKeeps DEF Next, body
<1>6. Undisturbed
  BY <1>1, TswitchLeaves
<1> QED
  BY <1>5, <1>6, CallKeeps

(* tswitch called by a user.                                                 *)
LEMMA KtswitchKeeps == TimerIInv /\ ktswitch => TimerIInv'
<1> SUFFICES ASSUME TimerIInv, ktswitch PROVE TimerIInv'
  OBVIOUS
<1>1. /\ InUmode /\ scheduler(status, readyQueue) /\ Enter
      /\ UNCHANGED <<ppid, parent, priority, event, exitCode, freeList,
                     sleepList, nproc, pc, tq, astray, time>>
  BY DEF ktswitch
<1>2. time' \in [Procs -> Int] /\ SliceInBounds'
  BY <1>1 DEF TimerIInv, Slices, SliceInBounds
<1> QED
  BY <1>1, <1>2, SwitchCallKeeps

(* A call that changes nothing but the mode.                                 *)
LEMMA OtherCallKeeps == TimerIInv /\ OtherCall => TimerIInv'
<1> SUFFICES ASSUME TimerIInv, OtherCall PROVE TimerIInv'
  OBVIOUS
<1>1. InUmode /\ Enter /\ UNCHANGED <<vars, tq, astray, time>>
  BY DEF OtherCall
<1>2. time' \in [Procs -> Int] /\ SliceInBounds'
  BY <1>1 DEF TimerIInv, Slices, SliceInBounds
<1>3. KInv'
  BY <1>1, NextKeeps DEF TimerIInv
<1>4. Undisturbed /\ \A p \in Procs : pc'[p] = pc[p]
  BY <1>1 DEF vars, Undisturbed, AsleepOnTimer
<1> QED
  BY <1>1, <1>2, <1>3, <1>4, CallKeeps

(* wait.                                                                     *)
LEMMA KkwaitKeeps == TimerIInv /\ kkwait => TimerIInv'
<1> SUFFICES ASSUME TimerIInv, kkwait PROVE TimerIInv'
  OBVIOUS
<1>1. InUmode /\ DoWait /\ Enter /\ UNCHANGED <<tq, astray, time>>
  BY DEF kkwait
<1>2. time' \in [Procs -> Int] /\ SliceInBounds'
  BY <1>1 DEF TimerIInv, Slices, SliceInBounds
<1>3. KInv /\ Modes
  BY DEF TimerIInv
<1>4. KInv'
  BY <1>1, <1>3, NextKeeps DEF Next, body
<1>5. running # 0
  BY <1>1, <1>3, WhoRuns DEF InUmode
<1>6. Undisturbed /\ \A p \in Procs : p # running => pc'[p] = pc[p]
  BY <1>1, <1>3, <1>5, KwaitLeaves DEF DoWait
<1> QED
  BY <1>1, <1>2, <1>4, <1>6, CallKeeps

(* exit.                                                                     *)
LEMMA KkexitKeeps ==
  ASSUME TimerIInv, NEW value \in ExitValues, kkexit(value)
  PROVE  TimerIInv'
<1>1. InUmode /\ kexit(value) /\ Enter /\ UNCHANGED <<tq, astray, time>>
  BY DEF kkexit
<1>2. time' \in [Procs -> Int] /\ SliceInBounds'
  BY <1>1 DEF TimerIInv, Slices, SliceInBounds
<1>3. KInv /\ Modes
  BY DEF TimerIInv
<1>4. running # 0 /\ value \in Int
  BY <1>1, <1>3, WhoRuns DEF InUmode
<1>5. KInv'
  BY <1>1, <1>3, <1>4, KexitKeeps
<1>6. Undisturbed /\ UNCHANGED pc
  BY <1>1, <1>3, <1>4, KexitLeaves DEF kexit
<1> QED
  BY <1>1, <1>2, <1>5, <1>6, CallKeeps

-----------------------------------------------------------------------------
(* Steps that leave the timer's own variables as they are.                   *)
LEMMA KernelOnlyKeeps ==
  ASSUME TimerIInv, KInv', Undisturbed, UNCHANGED timerVars,
         at[running] = "kernel",
         \A p \in Procs : p # running => pc'[p] = pc[p]
  PROVE  TimerIInv'
<1>1. KInv /\ Modes /\ Slices /\ Owners /\ astray \in BOOLEAN
  BY DEF TimerIInv
<1>2. UNCHANGED tq /\ UNCHANGED astray /\ UNCHANGED inkmode /\ UNCHANGED time /\ UNCHANGED at
  BY DEF timerVars
<1>3. \A p \in Procs : at[p] # "kitimer"
  BY <1>1 DEF Modes
<1>4. Modes'
  <2>1. \A p \in Procs : at'[p] # "kernel" => pc'[p] = "body"
    BY <1>1, <1>2 DEF Modes
  <2>2. \A p \in Procs : at'[p] = "kitimer" => p = running'
    BY <1>2, <1>3
  <2> QED
    BY <1>1, <1>2, <2>1, <2>2 DEF Modes
<1>5. Owners'
  BY <1>1, <1>2, <1>3, WhoRuns, OwnersAfter
<1>6. Slices'
  BY <1>1, <1>2 DEF Slices, SliceInBounds
<1> QED
  BY <1>1, <1>2, <1>4, <1>5, <1>6 DEF TimerIInv

(* P0 makes its processes,                                                   *)
LEMMA MainForksKeeps == TimerIInv /\ MainForks => TimerIInv'
<1> SUFFICES ASSUME TimerIInv, MainForks PROVE TimerIInv'
  OBVIOUS
<1>1. KInv /\ Modes
  BY DEF TimerIInv
<1>2. /\ running = 0 /\ kfork /\ UNCHANGED timerVars
      /\ pc' = [pc EXCEPT ![0] = IF nproc' > NFORKS THEN "loop" ELSE "kfork"]
  BY DEF MainForks
<1>3. 0 \in Procs /\ pc \in [Procs -> Places] /\ at[0] = "kernel"
  BY <1>1, WhoRuns DEF Modes
<1>4. /\ pc' \in [Procs -> Places]
      /\ pc'[0] \in {"loop", "kfork"}
      /\ \A p \in Procs : p # running => pc'[p] = pc[p]
  BY <1>2, <1>3 DEF Places
<1>5. KInv'
  BY <1>1, <1>2, <1>4, KforkKeeps
<1> QED
  BY <1>1, <1>2, <1>3, <1>4, <1>5, KforkLeaves, KernelOnlyKeeps

(* switches to them,                                                         *)
LEMMA MainSwitchKeeps == TimerIInv /\ MainSwitch /\ UNCHANGED timerVars => TimerIInv'
<1> SUFFICES ASSUME TimerIInv, MainSwitch, UNCHANGED timerVars PROVE TimerIInv'
  OBVIOUS
<1>1. KInv /\ Modes
  BY DEF TimerIInv
<1>2. /\ running = 0 /\ scheduler(status, readyQueue) /\ UNCHANGED event
      /\ pc' = [pc EXCEPT ![0] = "tswitch"]
  BY DEF MainSwitch
<1>3. pc \in [Procs -> Places] /\ at[0] = "kernel"
  BY <1>1, WhoRuns DEF Modes
<1>4. \A p \in Procs : p # running => pc'[p] = pc[p]
  BY <1>2, <1>3
<1>5. KInv'
  BY <1>1, NextKeeps DEF Next
<1> QED
  BY <1>1, <1>2, <1>3, <1>4, <1>5, TswitchLeaves, KernelOnlyKeeps

(* and a parent that was woken looks for its child again.                    *)
LEMMA WaitAgainKeeps == TimerIInv /\ WaitAgain /\ UNCHANGED timerVars => TimerIInv'
<1> SUFFICES ASSUME TimerIInv, WaitAgain, UNCHANGED timerVars PROVE TimerIInv'
  OBVIOUS
<1>1. KInv /\ Modes
  BY DEF TimerIInv
<1>2. pc[running] = "kwait" /\ (LayToRest \/ SleepOnSelf)
  BY DEF WaitAgain
<1>3. running # 0 /\ at[running] = "kernel"
  BY <1>1, <1>2, WhoRuns DEF Modes, KInv
<1>4. KInv'
  BY <1>1, NextKeeps DEF Next
<1> QED
  BY <1>1, <1>2, <1>3, <1>4, KwaitLeaves, KernelOnlyKeeps

(* The return to user mode undoes the entry.                                 *)
LEMMA IreturnKeeps == TimerIInv /\ ireturn => TimerIInv'
<1> SUFFICES ASSUME TimerIInv, ireturn PROVE TimerIInv'
  OBVIOUS
<1>1. KInv /\ Modes /\ Slices /\ Owners /\ astray \in BOOLEAN
  BY DEF TimerIInv
<1>2. /\ running # 0 /\ at[running] = "kernel" /\ pc[running] = "body"
      /\ inkmode' = [inkmode EXCEPT ![running] = @ - 1]
      /\ at' = IF inkmode'[running] > 0 THEN at ELSE [at EXCEPT ![running] = "user"]
      /\ UNCHANGED <<vars, tq, astray, time>>
  BY DEF ireturn
<1>3. running \in Procs /\ 0 \in Procs /\ inkmode[running] = 1
  BY <1>1, <1>2, WhoRuns DEF Modes
<1>4. /\ inkmode' \in [Procs -> 0 .. 2]
      /\ \A p \in Procs : inkmode'[p] = IF p = running THEN 0 ELSE inkmode[p]
  BY <1>1, <1>2, <1>3 DEF Modes
<1>5. /\ at' \in [Procs -> {"user", "kernel", "kitimer"}]
      /\ \A p \in Procs : at'[p] = IF p = running THEN "user" ELSE at[p]
  <2>1. at' = [at EXCEPT ![running] = "user"]
    BY <1>2, <1>3, <1>4
  <2> QED
    BY <1>1, <1>3, <2>1 DEF Modes
<1>6. UNCHANGED pc /\ UNCHANGED running /\ UNCHANGED status /\ UNCHANGED event
  BY <1>2 DEF vars
<1>7. Modes'
  <2>1. \A p \in Procs : inkmode'[p] = IF at'[p] = "user" THEN 0 ELSE 1
    BY <1>1, <1>4, <1>5 DEF Modes
  <2>2. at'[0] = "kernel"
    BY <1>1, <1>2, <1>3, <1>5 DEF Modes
  <2>3. \A p \in Procs : at'[p] = "kitimer" => p = running'
    BY <1>1, <1>5, <1>6 DEF Modes
  <2>4. \A p \in Procs : at'[p] # "kernel" => pc'[p] = "body"
    BY <1>1, <1>2, <1>5, <1>6 DEF Modes
  <2> QED
    BY <1>4, <1>5, <2>1, <2>2, <2>3, <2>4 DEF Modes
<1>8. KInv'
  BY <1>1, <1>2, NextKeeps
<1>9. Owners'
  <2>1. Undisturbed
    BY <1>6 DEF Undisturbed, AsleepOnTimer
  <2>2. \A p \in Procs : at[p] = "kitimer" => at'[p] = "kitimer"
    BY <1>2, <1>5
  <2> QED
    BY <1>1, <1>2, <2>1, <2>2, OwnersAfter
<1>10. Slices'
  BY <1>1, <1>2 DEF Slices, SliceInBounds
<1> QED
  BY <1>1, <1>2, <1>7, <1>8, <1>9, <1>10 DEF TimerIInv

(* The end of kitimer: whoever was on its way to sleep sleeps on its entry.  *)
LEMMA GoToSleepKeeps == TimerIInv /\ GoToSleep => TimerIInv'
<1> SUFFICES ASSUME TimerIInv, GoToSleep PROVE TimerIInv'
  OBVIOUS
<1>1. KInv /\ Modes /\ Slices /\ Owners /\ astray \in BOOLEAN
  BY DEF TimerIInv
<1>2. /\ at[running] = "kitimer" /\ ksleep(Entry(running))
      /\ at' = [at EXCEPT ![running] = "kernel"]
      /\ UNCHANGED <<ppid, parent, priority, exitCode, freeList, nproc, pc,
                     tq, astray, inkmode, time>>
  BY DEF GoToSleep
<1>3. /\ running \in Procs /\ 0 \in Procs /\ running # 0 /\ pc \in [Procs -> Places]
      /\ Entry(running) \in Int
  BY <1>1, <1>2, WhoRuns DEF Entry, Procs
<1>4. KInv'
  <2>1. pc' \in [Procs -> Places] /\ pc'[0] \notin {"body", "kwait"}
    BY <1>1, <1>2, <1>3 DEF KInv
  <2> QED
    BY <1>1, <1>2, <1>3, <2>1, KsleepKeeps
<1>5. /\ at' \in [Procs -> {"user", "kernel", "kitimer"}]
      /\ \A p \in Procs : at'[p] = IF p = running THEN "kernel" ELSE at[p]
  BY <1>1, <1>2, <1>3 DEF Modes
<1>6. Modes'
  <2>1. \A p \in Procs : inkmode'[p] = IF at'[p] = "user" THEN 0 ELSE 1
    BY <1>1, <1>2, <1>5 DEF Modes
  <2>2. at'[0] = "kernel"
    BY <1>1, <1>3, <1>5 DEF Modes
  <2>3. \A p \in Procs : at'[p] = "kitimer" => p = running'
    BY <1>1, <1>5 DEF Modes
  <2>4. \A p \in Procs : at'[p] # "kernel" => pc'[p] = "body"
    BY <1>1, <1>2, <1>5 DEF Modes
  <2> QED
    BY <1>1, <1>2, <1>5, <2>1, <2>2, <2>3, <2>4 DEF Modes
<1>7. Undisturbed /\ status'[running] = "SLEEP" /\ event'[running] = Entry(running)
  BY <1>1, <1>2, <1>3, KsleepLeaves
<1>8. \A p \in Procs : HasTimer(p) => HasTimer(p)'
  <2> SUFFICES ASSUME NEW p \in Procs, HasTimer(p) PROVE HasTimer(p)'
    OBVIOUS
  <2>1. CASE p = running
    BY <1>7, <2>1 DEF HasTimer, AsleepOnTimer
  <2>2. CASE p # running
    <3>1. AsleepOnTimer(p)
      BY <1>1, <2>2 DEF HasTimer, Modes
    <3> QED
      BY <1>7, <3>1 DEF Undisturbed, HasTimer, AsleepOnTimer
  <2> QED
    BY <2>1, <2>2
<1>9. Owners'
  BY <1>1, <1>2, <1>8, OwnersStay
<1>10. Slices'
  BY <1>1, <1>2 DEF Slices, SliceInBounds
<1> QED
  BY <1>1, <1>2, <1>4, <1>6, <1>9, <1>10 DEF TimerIInv

(* kitimer puts an entry for its caller, who has none, on the queue.         *)
LEMMA InsertedIsSound ==
  ASSUME KInv, Modes, Owners, InUmode, NEW t \in Times, NEW r, r = Inserted(tq, running, t)
  PROVE  /\ Sound(r)
         /\ \A i \in 1 .. Len(r) : r[i].proc = running \/ HasTimer(r[i].proc)
<1>1. running \in Procs /\ at[running] = "user" /\ ~HasTimer(running)
  BY WhoRuns DEF InUmode, HasTimer
<1>2. tq \in Seq(Timers) /\ Ordered(tq) /\ OneEach(tq) /\ t \in Int
  BY TimesFit DEF Owners, Sound
<1>3. PICK k \in 0 .. Len(tq) : TimerSet(tq, r, k, running, t)
  BY <1>1, <1>2, InsertedTimes
<1> USE DEF TimerSet
<1>4. Len(tq) \in Nat /\ k \in Nat /\ k <= Len(tq)
  BY <1>2
<1>5. \A i \in 1 .. Len(tq) : tq[i].proc # running /\ HasTimer(tq[i].proc)
  BY <1>1 DEF Owners
<1>6. ASSUME NEW i \in 1 .. Len(r)
      PROVE  \/ i = k + 1 /\ r[i].proc = running
             \/ i \in 1 .. k /\ r[i].proc = tq[i].proc /\ i \in 1 .. Len(tq)
             \/ i \in k + 2 .. Len(r) /\ r[i].proc = tq[i - 1].proc /\ i - 1 \in 1 .. Len(tq)
  <2>1. CASE i > k + 1
    <3>1. PICK j \in k + 1 .. Len(tq) : j = i - 1
      BY <1>3, <1>4, <2>1
    <3>2. r[j + 1].proc = tq[j].proc /\ j + 1 = i /\ j \in 1 .. Len(tq)
      BY <1>3, <1>4, <3>1
    <3> QED
      BY <1>3, <1>4, <2>1, <3>1, <3>2
  <2> QED
    BY <1>3, <1>4, <2>1
<1>7. OneEach(r)
  <2> SUFFICES ASSUME NEW i \in 1 .. Len(r), NEW j \in 1 .. Len(r), r[i].proc = r[j].proc
               PROVE  i = j
    BY DEF OneEach
  <2>1. ASSUME NEW x \in 1 .. Len(r), x # k + 1
        PROVE  \E m \in 1 .. Len(tq) : /\ r[x].proc = tq[m].proc
                                       /\ x = IF m <= k THEN m ELSE m + 1
    BY <1>3, <1>4, <1>6, <2>1
  <2>2. \A x \in 1 .. Len(r) : x # k + 1 => r[x].proc # running
    BY <1>5, <2>1
  <2>3. CASE i # k + 1 /\ j # k + 1
    <3>1. PICK m \in 1 .. Len(tq) : r[i].proc = tq[m].proc /\ i = IF m <= k THEN m ELSE m + 1
      BY <2>1, <2>3
    <3>2. PICK n \in 1 .. Len(tq) : r[j].proc = tq[n].proc /\ j = IF n <= k THEN n ELSE n + 1
      BY <2>1, <2>3
    <3>3. m = n
      BY <1>2, <3>1, <3>2 DEF OneEach
    <3> QED
      BY <3>1, <3>2, <3>3
  <2> QED
    BY <1>3, <2>2, <2>3
<1>8. \A i \in 1 .. Len(r) : r[i].proc = running \/ HasTimer(r[i].proc)
  <2> SUFFICES ASSUME NEW i \in 1 .. Len(r), r[i].proc # running PROVE HasTimer(r[i].proc)
    OBVIOUS
  <2>1. PICK m \in 1 .. Len(tq) : r[i].proc = tq[m].proc
    BY <1>6
  <2> QED
    BY <1>5, <2>1
<1> QED
  BY <1>3, <1>7, <1>8 DEF Sound

(* kitimer up to its unlock leaves its caller on the way to sleep.           *)
LEMMA KitimerKeeps ==
  ASSUME TimerIInv, NEW t \in Times, kitimer(t)
  PROVE  TimerIInv'
<1>1. KInv /\ Modes /\ Slices /\ Owners /\ astray \in BOOLEAN
  BY DEF TimerIInv
<1>2. /\ InUmode
      /\ tq' = Inserted(tq, running, t)
      /\ inkmode' = [inkmode EXCEPT ![running] = @ + 1]
      /\ at' = [at EXCEPT ![running] = "kitimer"]
      /\ UNCHANGED <<vars, astray, time>>
  BY DEF kitimer, Entered
<1>3. running \in Procs /\ 0 \in Procs /\ running # 0 /\ at[running] = "user"
  BY <1>1, <1>2, WhoRuns DEF InUmode
<1>4. UNCHANGED pc /\ UNCHANGED running /\ UNCHANGED status /\ UNCHANGED event
  BY <1>2 DEF vars
<1>5. /\ inkmode' \in [Procs -> 0 .. 2]
      /\ \A p \in Procs : inkmode'[p] = IF p = running THEN 1 ELSE inkmode[p]
  BY <1>1, <1>2, <1>3 DEF Modes
<1>6. /\ at' \in [Procs -> {"user", "kernel", "kitimer"}]
      /\ \A p \in Procs : at'[p] = IF p = running THEN "kitimer" ELSE at[p]
  BY <1>1, <1>2, <1>3 DEF Modes
<1>7. Modes'
  <2>1. \A p \in Procs : inkmode'[p] = IF at'[p] = "user" THEN 0 ELSE 1
    BY <1>1, <1>5, <1>6 DEF Modes
  <2>2. at'[0] = "kernel"
    BY <1>1, <1>3, <1>6 DEF Modes
  <2>3. \A p \in Procs : at'[p] = "kitimer" => p = running'
    BY <1>1, <1>4, <1>6 DEF Modes
  <2>4. \A p \in Procs : at'[p] # "kernel" => pc'[p] = "body"
    BY <1>1, <1>3, <1>4, <1>6 DEF Modes
  <2> QED
    BY <1>5, <1>6, <2>1, <2>2, <2>3, <2>4 DEF Modes
<1>8. KInv'
  BY <1>1, <1>2, NextKeeps
<1>9. PICK r : r = Inserted(tq, running, t)
  OBVIOUS
<1>10. Sound(r) /\ \A i \in 1 .. Len(r) : r[i].proc = running \/ HasTimer(r[i].proc)
  BY <1>1, <1>2, <1>9, InsertedIsSound
<1>11. tq' = r
  BY <1>2, <1>9
<1>12. Owners'
  <2>1. Sound(tq)'
    BY <1>10, <1>11 DEF Sound, OneEach, Ordered
  <2>2. \A i \in 1 .. Len(r) : r[i].proc \in Procs
    BY <1>10, EntryTypes DEF Sound
  <2>3. ASSUME NEW i \in 1 .. Len(r) PROVE HasTimer(r[i].proc)'
    <3>1. PICK p \in Procs : p = r[i].proc
      BY <2>2
    <3>2. HasTimer(p)'
      BY <1>4, <1>6, <1>10, <3>1 DEF HasTimer, AsleepOnTimer
    <3> QED
      BY <1>11, <3>1, <3>2 DEF HasTimer, AsleepOnTimer
  <2> QED
    BY <1>11, <2>1, <2>3 DEF Owners
<1>13. Slices'
  BY <1>1, <1>2 DEF Slices, SliceInBounds
<1> QED
  BY <1>1, <1>2, <1>7, <1>8, <1>12, <1>13 DEF TimerIInv

(* A fork gives the new process a whole slice, in the kernel.                *)
LEMMA KkforkKeeps == TimerIInv /\ kkfork => TimerIInv'
<1> SUFFICES ASSUME TimerIInv, kkfork PROVE TimerIInv'
  OBVIOUS
<1>1. KInv /\ Modes /\ Slices /\ Owners /\ astray \in BOOLEAN
  BY DEF TimerIInv
<1>2. PICK child : child = Head(freeList)
  OBVIOUS
<1>3. /\ InUmode /\ kfork
      /\ inkmode' = [Entered EXCEPT ![child] = 1]
      /\ time' = [time EXCEPT ![child] = SWITCH_TIME]
      /\ at' = [at EXCEPT ![running] = "kernel", ![child] = "kernel"]
      /\ UNCHANGED <<pc, tq, astray>>
  BY <1>2 DEF kkfork
<1>4. Undisturbed /\ child \in Procs /\ status[child] = "FREE"
  BY <1>1, <1>2, <1>3, KforkLeaves
<1>5. /\ running \in Procs /\ 0 \in Procs /\ running # 0 /\ at[running] = "user"
      /\ status[running] = "RUNNING" /\ pc \in [Procs -> Places] /\ inkmode[running] = 0
  BY <1>1, <1>3, WhoRuns DEF InUmode, Modes
<1>6. PICK ent : ent = Entered
  OBVIOUS
<1>7. ent \in [Procs -> 0 .. 2] /\ \A p \in Procs : ent[p] = IF p = running THEN 1 ELSE inkmode[p]
  BY <1>1, <1>5, <1>6 DEF Modes, Entered
<1>8. /\ inkmode' \in [Procs -> 0 .. 2]
      /\ \A p \in Procs : inkmode'[p] = IF p \in {running, child} THEN 1 ELSE inkmode[p]
  <2>1. inkmode' = [ent EXCEPT ![child] = 1]
    BY <1>3, <1>6
  <2> QED
    BY <1>4, <1>7, <2>1
<1>9. /\ at' \in [Procs -> {"user", "kernel", "kitimer"}]
      /\ \A p \in Procs : at'[p] = IF p \in {running, child} THEN "kernel" ELSE at[p]
  BY <1>1, <1>3, <1>4, <1>5 DEF Modes
<1>10. Modes'
  <2>1. \A p \in Procs : inkmode'[p] = IF at'[p] = "user" THEN 0 ELSE 1
    BY <1>1, <1>8, <1>9 DEF Modes
  <2>2. at'[0] = "kernel"
    BY <1>1, <1>5, <1>9 DEF Modes
  <2>3. \A p \in Procs : at'[p] # "kitimer"
    BY <1>1, <1>9 DEF Modes
  <2>4. \A p \in Procs : at'[p] # "kernel" => pc'[p] = "body"
    BY <1>1, <1>3, <1>9 DEF Modes
  <2> QED
    BY <1>8, <1>9, <2>1, <2>2, <2>3, <2>4 DEF Modes
<1>11. KInv'
  <2>1. pc' \in [Procs -> Places] /\ pc'[0] \notin {"body", "kwait"}
    BY <1>1, <1>3, <1>5 DEF KInv
  <2> QED
    BY <1>1, <1>3, <2>1, KforkKeeps
<1>12. Owners'
  <2>1. \A p \in Procs : at[p] = "kitimer" => at'[p] = "kitimer"
    BY <1>1, <1>5 DEF Modes
  <2> QED
    BY <1>1, <1>3, <1>4, <1>5, <2>1, OwnersAfter
<1>13. Slices'
  <2>1. /\ time' \in [Procs -> Int]
        /\ \A p \in Procs : time'[p] = IF p = child THEN SWITCH_TIME ELSE time[p]
    BY <1>1, <1>3, <1>4 DEF Slices
  <2> QED
    BY <1>1, <2>1 DEF Slices, SliceInBounds
<1> QED
  BY <1>1, <1>3, <1>10, <1>11, <1>12, <1>13 DEF TimerIInv

-----------------------------------------------------------------------------
(* A slice ends in user mode only, and the next one is a whole one.          *)
LEMMA SliceEndsKeeps == TimerIInv /\ running # NULL /\ SliceEnds => TimerIInv'
<1> SUFFICES ASSUME TimerIInv, running # NULL, SliceEnds PROVE TimerIInv'
  OBVIOUS
<1>1. KInv /\ Modes /\ Slices
  BY DEF TimerIInv
<1>2. /\ FromUmode /\ time' = [time EXCEPT ![running] = SWITCH_TIME]
      /\ scheduler(status, readyQueue) /\ Enter
      /\ UNCHANGED <<ppid, parent, priority, event, exitCode, freeList,
                     sleepList, nproc, pc, tq, astray>>
  BY DEF SliceEnds, Refilled
<1>3. running \in Procs
  BY <1>1, WhoRuns
<1>4. InUmode
  <2>1. inkmode[running] + 1 < 2
    BY <1>2 DEF FromUmode
  <2> QED
    BY <1>1, <1>3, <2>1 DEF Modes, InUmode
<1>5. /\ time' \in [Procs -> Int]
      /\ \A p \in Procs : time'[p] = IF p = running THEN SWITCH_TIME ELSE time[p]
  BY <1>1, <1>2, <1>3 DEF Slices
<1>6. SliceInBounds'
  BY <1>1, <1>5 DEF Slices, SliceInBounds
<1> QED
  BY <1>2, <1>4, <1>5, <1>6, SwitchCallKeeps

(* The queue one second later, and what is taken off its head.               *)
Ticked(q) == IF q = << >> THEN q ELSE Down1(q)
Taken(q) == SubSeq(Ticked(q), 1, Expired(Ticked(q)))

(* w are the first n entries of q, whose time is up in a second, and r are   *)
(* the others, a second later; if q is held up they are all.                   *)
Split(q, n, w, r) ==
    /\ w \in Seq(Timers) /\ Len(w) = n
    /\ \A i \in 1 .. n : w[i].proc = q[i].proc /\ Total(q, i) = 1
    /\ r \in Seq(Timers) /\ Ordered(r) /\ Len(r) = Len(q) - n
    /\ \A i \in 1 .. Len(q) - n : /\ r[i].proc = q[n + i].proc
                                  /\ Total(r, i) = Total(q, n + i) - 1
                                  /\ ~Held(q) => Total(r, i) > 0
    /\ Held(q) => n = 0

(* What a second does to the queue, empty or not.                            *)
LEMMA SecondOfQueue ==
  ASSUME NEW q, Sound(q), NEW r, r = Later(Ticked(q)), NEW w, w = Taken(q)
  PROVE  \E n \in 0 .. Len(q) : Split(q, n, w, r)
<1> USE DEF Split
<1>1. q \in Seq(Timers) /\ Len(q) \in Nat
  BY DEF Sound
<1>2. PICK d : d = Ticked(q)
  OBVIOUS
<1>3. PICK n : n = Expired(d)
  OBVIOUS
<1>4. r = Later(d) /\ w = SubSeq(d, 1, n)
  BY <1>2, <1>3 DEF Taken
<1>5. CASE q = << >>
  <2>1. d = q /\ Len(q) = 0
    BY <1>2, <1>5 DEF Ticked
  <2>2. n \in 0 .. Len(q)
    BY <1>1, <1>3, <2>1, ExpiredStops
  <2>3. n = 0
    BY <2>1, <2>2
  <2>4. r \in Seq(Timers) /\ Len(r) = Len(q) - n
    BY <1>1, <1>3, <1>4, <2>1, <2>2, LaterEntries
  <2>5. SubSeq(d, 1, 0) \in Seq(Timers) /\ Len(SubSeq(d, 1, 0)) = 0
    BY <1>1, <2>1
  <2>6. w \in Seq(Timers) /\ Len(w) = n
    BY <1>4, <2>3, <2>5
  <2>7. 1 .. n = {} /\ 1 .. Len(q) - n = {}
    BY <2>1, <2>3
  <2>8. Ordered(r)
    <3>1. Len(r) = 0
      BY <2>1, <2>3, <2>4
    <3> QED
      BY <3>1 DEF Ordered
  <2> QED
    BY <2>2, <2>3, <2>4, <2>6, <2>7, <2>8
<1>6. CASE q # << >>
  <2>1. Ordered(q) /\ d = Down1(q)
    BY <1>2, <1>6 DEF Sound, Ticked
  <2>2. SecondGone(q, d, n, r)
    BY <1>1, <1>3, <1>4, <1>6, <2>1, SecondTimes
  <2> USE DEF SecondGone
  <2>3. SubSeq(d, 1, n) \in Seq(Timers) /\ Len(SubSeq(d, 1, n)) = n
    BY <1>1, <2>2
  <2>4. \A i \in 1 .. n : SubSeq(d, 1, n)[i] = d[i]
    BY <1>1, <2>2
  <2>5. \A i \in 1 .. n : i \in 1 .. Len(q)
    BY <1>1, <2>2
  <2>6. \A i \in 1 .. n : w[i].proc = q[i].proc /\ Total(q, i) = 1
    BY <1>4, <2>2, <2>4, <2>5
  <2> QED
    BY <1>4, <2>2, <2>3, <2>6
<1> QED
  BY <1>5, <1>6

(* Nobody who is left on the queue loses its place on it or is woken.        *)
LEMMA SplitIsSound ==
  ASSUME NEW q, Sound(q), NEW n \in 0 .. Len(q), NEW w, NEW r, Split(q, n, w, r)
  PROVE  /\ Sound(r)
         /\ \A i \in 1 .. Len(r) : \E j \in 1 .. Len(q) :
                /\ r[i].proc = q[j].proc
                /\ \A m \in 1 .. n : w[m].proc # q[j].proc
<1>1. /\ q \in Seq(Timers) /\ OneEach(q) /\ Len(q) \in Nat /\ n \in Nat /\ n <= Len(q)
      /\ r \in Seq(Timers) /\ Ordered(r) /\ Len(r) = Len(q) - n
      /\ \A i \in 1 .. Len(q) - n : r[i].proc = q[n + i].proc
      /\ \A i \in 1 .. n : w[i].proc = q[i].proc
  <2>1. q \in Seq(Timers) /\ OneEach(q)
    BY DEF Sound
  <2>2. Len(q) \in Nat
    BY <2>1
  <2>3. n \in Nat /\ n <= Len(q)
    BY <2>2
  <2>4. r \in Seq(Timers) /\ Ordered(r) /\ Len(r) = Len(q) - n
    BY DEF Split
  <2>5. \A i \in 1 .. Len(q) - n : r[i].proc = q[n + i].proc
    BY DEF Split
  <2>6. \A i \in 1 .. n : w[i].proc = q[i].proc
    BY DEF Split
  <2> QED
    BY <2>1, <2>2, <2>3, <2>4, <2>5, <2>6
<1>2. ASSUME NEW i \in 1 .. Len(r)
      PROVE  n + i \in 1 .. Len(q) /\ r[i].proc = q[n + i].proc
  <2>1. i \in 1 .. Len(q) - n
    BY <1>1
  <2>2. n + i \in 1 .. Len(q)
    BY <1>1, <2>1
  <2> QED
    BY <1>1, <2>1, <2>2
<1>3. OneEach(r)
  <2> SUFFICES ASSUME NEW i \in 1 .. Len(r), NEW j \in 1 .. Len(r), r[i].proc = r[j].proc
               PROVE  i = j
    BY DEF OneEach
  <2>1. n + i = n + j
    <3>1. PICK x \in 1 .. Len(q) : x = n + i /\ r[i].proc = q[x].proc
      BY <1>2
    <3>2. PICK y \in 1 .. Len(q) : y = n + j /\ r[j].proc = q[y].proc
      BY <1>2
    <3> QED
      BY <1>1, <3>1, <3>2 DEF OneEach
  <2> QED
    BY <1>1, <2>1
<1>5. ASSUME NEW i \in 1 .. Len(r)
      PROVE  \E j \in 1 .. Len(q) : /\ r[i].proc = q[j].proc
                                    /\ \A m \in 1 .. n : w[m].proc # q[j].proc
  <2>1. PICK j \in 1 .. Len(q) : j = n + i /\ r[i].proc = q[j].proc
    BY <1>2
  <2>2. ASSUME NEW m \in 1 .. n PROVE w[m].proc # q[j].proc
    <3>1. m \in 1 .. Len(q) /\ m # j
      BY <1>1, <2>1
    <3> QED
      BY <1>1, <3>1 DEF OneEach
  <2> QED
    BY <2>1, <2>2
<1> QED
  BY <1>1, <1>3, <1>5 DEF Sound

(* A second of the queue takes a second of the slice at most and wakes       *)
(* nobody who stays on the queue.                                            *)
LEMMA SecondPassesKeeps == TimerIInv /\ running # NULL /\ SecondPasses => TimerIInv'
<1> SUFFICES ASSUME TimerIInv, running # NULL, SecondPasses PROVE TimerIInv'
  OBVIOUS
<1>1. KInv /\ Modes /\ Slices /\ Owners /\ astray \in BOOLEAN
  BY DEF TimerIInv
<1>2. PICK w, r : w = Taken(tq) /\ r = Later(Ticked(tq))
  OBVIOUS
<1>3. PICK l : l = WakeAll(Lists, w)
  OBVIOUS
<1>4. /\ ~(FromUmode /\ time[running] = 1)
      /\ time' = IF FromUmode THEN [time EXCEPT ![running] = @ - 1] ELSE time
      /\ tq' = r
      /\ astray' = (tq # << >> /\ tq' = << >>)
      /\ status' = l.status /\ readyQueue' = l.ready /\ sleepList' = l.sleep
      /\ UNCHANGED <<running, ppid, parent, priority, event, exitCode, freeList,
                     nproc, rflag, pc, inkmode, at>>
  BY <1>2, <1>3 DEF SecondPasses, Ticked, Taken, Later, Down1
<1>5. Sound(tq) /\ \A i \in 1 .. Len(tq) : HasTimer(tq[i].proc)
  BY <1>1 DEF Owners
<1>6. PICK n \in 0 .. Len(tq) : Split(tq, n, w, r)
  BY <1>2, <1>5, SecondOfQueue
<1>7. /\ Kept(l.status, priority, freeList, l.ready, l.sleep)
      /\ \A p \in Procs : l.status[p] = IF WokenBy(w, n, p) THEN "READY" ELSE status[p]
  <2>1. w \in Seq(Timers) /\ Len(w) = n
    BY <1>6 DEF Split
  <2> QED
    BY <1>1, <1>3, <2>1, WakeAllKeeps
<1>8. Sane
  BY <1>1, TwoHalves
<1>9. KInv'
  <2>1. Agree'
    BY <1>4, <1>7 DEF Agree
  <2>2. ASSUME NEW p \in Procs
        PROVE  /\ status'[p] = "RUNNING" <=> status[p] = "RUNNING"
               /\ status'[p] = "FREE" <=> status[p] = "FREE"
    BY <1>4, <1>7 DEF WokenBy
  <2>3. status'[0] = status[0]
    <3>1. 0 \in Procs /\ status[0] # "SLEEP"
      BY SMTT(30), <1>8 DEF Sane, Procs
    <3> QED
      BY <1>4, <1>7, <3>1 DEF WokenBy
  <2>4. /\ rflag' \in {0, 1} /\ pc' \in [Procs -> Places] /\ pc'[0] \notin {"body", "kwait"}
        /\ \A p \in Procs : priority'[p] = priority[p]
        /\ UNCHANGED <<running, ppid, parent, event, exitCode, nproc>>
    BY <1>4, <1>8 DEF Sane
  <2> QED
    BY <1>1, <2>1, <2>2, <2>3, <2>4, StayKeeps
<1>10. Modes'
  BY <1>1, <1>4 DEF Modes
<1>11. Slices'
  <2>1. running \in Procs /\ time \in [Procs -> Int] /\ \A p \in Procs : time[p] \in 1 .. SWITCH_TIME
    BY <1>8, <1>1 DEF Sane, Slices, SliceInBounds
  <2>2. CASE FromUmode
    <3>1. time[running] # 1 /\ time' = [time EXCEPT ![running] = @ - 1]
      BY <1>4, <2>2
    <3>2. /\ time' \in [Procs -> Int]
          /\ \A p \in Procs : time'[p] = IF p = running THEN time[p] - 1 ELSE time[p]
      BY <2>1, <3>1
    <3>3. \A p \in Procs : time'[p] \in 1 .. SWITCH_TIME
      BY <2>1, <3>1, <3>2
    <3> QED
      BY <3>2, <3>3 DEF Slices, SliceInBounds
  <2>3. CASE ~FromUmode
    BY <1>4, <2>1, <2>3 DEF Slices, SliceInBounds
  <2> QED
    BY <2>2, <2>3
<1>12. /\ Sound(r)
       /\ \A i \in 1 .. Len(r) : \E j \in 1 .. Len(tq) :
              /\ r[i].proc = tq[j].proc
              /\ \A m \in 1 .. n : w[m].proc # tq[j].proc
  BY SMTT(30), <1>5, <1>6, SplitIsSound
<1>13. Owners'
  <2>1. Sound(tq)'
    BY <1>4, <1>12 DEF Sound, OneEach, Ordered
  <2>2. \A j \in 1 .. Len(tq) : tq[j].proc \in Procs
    BY <1>5, EntryTypes DEF Sound
  <2>3. \A m \in 1 .. n : w[m].proc \in Procs
    <3>1. w \in Seq(Timers) /\ Len(w) = n
      BY <1>6 DEF Split
    <3> QED
      BY <3>1, EntryTypes
  <2>4. ASSUME NEW i \in 1 .. Len(r) PROVE HasTimer(r[i].proc)'
    <3>1. PICK p \in Procs : p = r[i].proc /\ HasTimer(p) /\ \A m \in 1 .. n : w[m].proc # p
      BY <1>5, <1>12, <2>2
    <3>2. CASE at[p] = "kitimer"
      BY <1>4, <3>1, <3>2 DEF HasTimer
    <3>3. CASE AsleepOnTimer(p)
      <4>1. ASSUME NEW m \in 1 .. n PROVE event[p] # Entry(w[m].proc)
        <5>1. PICK x \in Procs : x = w[m].proc
          BY <2>3
        <5>2. p # x /\ p \in Int /\ x \in Int /\ TqBase \in Int
          BY <3>1, <5>1 DEF Procs
        <5>3. TqBase + p # TqBase + x
          BY <5>2
        <5> QED
          BY <3>3, <5>1, <5>3 DEF AsleepOnTimer, Entry
      <4>2. status'[p] = "SLEEP" /\ event'[p] = Entry(p)
        BY <1>4, <1>7, <3>3, <4>1 DEF AsleepOnTimer, WokenBy
      <4> QED
        BY <1>4, <3>1, <4>2 DEF HasTimer, AsleepOnTimer
    <3> QED
      BY <3>1, <3>2, <3>3 DEF HasTimer
  <2> QED
    BY <1>4, <2>1, <2>4 DEF Owners
<1> QED
  BY <1>4, <1>9, <1>10, <1>11, <1>13 DEF TimerIInv

-----------------------------------------------------------------------------
(* The machine starts with nobody on the queue.                              *)
LEMMA TimerInitKeeps == TimerInit => TimerIInv
<1> SUFFICES ASSUME TimerInit PROVE TimerIInv
  OBVIOUS
<1>1. KInv
  BY FreshIsSound DEF TimerInit, Fresh
<1>2. Modes /\ Slices /\ astray \in BOOLEAN
  <2>1. /\ inkmode = [p \in Procs |-> 1] /\ at = [p \in Procs |-> "kernel"]
        /\ time = [p \in Procs |-> SWITCH_TIME] /\ astray = FALSE /\ 0 \in Procs
    BY DEF TimerInit, Procs
  <2>2. \A p \in Procs : inkmode[p] = 1 /\ at[p] = "kernel" /\ time[p] = SWITCH_TIME
    BY <2>1
  <2>3. Modes
    BY <2>1, <2>2 DEF Modes
  <2>4. \A p \in Procs : time[p] \in 1 .. SWITCH_TIME
    BY <2>2
  <2>5. time \in [Procs -> Int]
    BY <2>1
  <2> QED
    BY <2>1, <2>3, <2>4, <2>5 DEF Slices, SliceInBounds
<1>3. Owners
  <2>1. tq = << >>
    BY DEF TimerInit
  <2>2. << >> \in Seq(Timers) /\ Len(<< >>) = 0
    OBVIOUS
  <2> QED
    BY <2>1, <2>2 DEF Owners, Sound, OneEach, Ordered
<1> QED
  BY <1>1, <1>2, <1>3 DEF TimerIInv

(* Every step keeps the invariant.                                           *)
LEMMA TimerNextKeeps == TimerIInv /\ [TimerNext]_<<vars, timerVars>> => TimerIInv'
<1> SUFFICES ASSUME TimerIInv, [TimerNext]_<<vars, timerVars>> PROVE TimerIInv'
  OBVIOUS
<1>1. CASE UNCHANGED <<vars, timerVars>>
  <2>1. UNCHANGED vars /\ UNCHANGED timerVars
    BY <1>1
  <2>2. KInv'
    BY <2>1, NextKeeps DEF TimerIInv
  <2>3. /\ UNCHANGED tq /\ UNCHANGED astray /\ UNCHANGED inkmode /\ UNCHANGED time /\ UNCHANGED at
        /\ UNCHANGED pc /\ UNCHANGED running /\ UNCHANGED status /\ UNCHANGED event
    BY <2>1 DEF vars, timerVars
  <2>4. Modes' /\ Slices'
    BY <2>3 DEF TimerIInv, Modes, Slices, SliceInBounds
  <2>5. \A p \in Procs : HasTimer(p) => HasTimer(p)'
    BY <2>3 DEF HasTimer, AsleepOnTimer
  <2>6. Owners'
    BY <2>3, <2>5, OwnersStay DEF TimerIInv
  <2> QED
    BY <2>2, <2>3, <2>4, <2>6 DEF TimerIInv
<1>2. CASE MainForks
  BY <1>2, MainForksKeeps
<1>3. CASE KernelStep
  BY <1>3, MainSwitchKeeps, WaitAgainKeeps, IreturnKeeps, GoToSleepKeeps DEF KernelStep
<1>4. CASE thandler
  BY <1>4, SliceEndsKeeps, SecondPassesKeeps DEF thandler
<1>5. CASE ktswitch \/ kkfork \/ kkwait \/ OtherCall
  BY <1>5, KtswitchKeeps, KkforkKeeps, KkwaitKeeps, OtherCallKeeps
<1>6. CASE \E value \in ExitValues : kkexit(value)
  BY <1>6, KkexitKeeps
<1>7. CASE \E t \in Times : kitimer(t)
  BY <1>7, KitimerKeeps
<1> QED
  BY <1>1, <1>2, <1>3, <1>4, <1>5, <1>6, <1>7 DEF TimerNext

(* The invariant holds, for every number of PROCs, length of the slice and   *)
(* set of times.                                                             *)
THEOREM TimerInvariance == TimerSpec => []TimerIInv
BY TimerInitKeeps, TimerNextKeeps, PTL DEF TimerSpec

(* The invariant is enough for the modes.                                    *)
LEMMA ModesTold == TimerIInv => InkmodeTellsMode
<1> SUFFICES ASSUME TimerIInv PROVE InkmodeTellsMode
  OBVIOUS
<1>1. \A i \in DOMAIN tq : tq[i].proc \in Procs /\ tq[i].time \in Int
  <2>1. tq \in Seq(Timers)
    BY DEF TimerIInv, Owners, Sound
  <2>2. \A i \in 1 .. Len(tq) : tq[i].proc \in Procs /\ tq[i].time \in Int
    BY <2>1, EntryTypes
  <2>3. DOMAIN tq = 1 .. Len(tq)
    BY <2>1
  <2> QED
    BY <2>2, <2>3
<1> QED
  BY <1>1 DEF TimerIInv, Modes, Slices, InkmodeTellsMode, TimerTypeOK

(* timer.c:223, ts.s INTH and _ireturn: whatever a process goes through,  *)
(* inkmode is 0 in user mode and 1 in the kernel, so thandler switches in    *)
(* user mode and only there.                                                 *)
THEOREM ModeIsKnown == TimerSpec => []InkmodeTellsMode
BY TimerInvariance, ModesTold, PTL

(* No slice ever runs below one second before thandler looks at it.          *)
THEOREM SlicesEnd == TimerSpec => []SliceInBounds
<1>1. TimerIInv => SliceInBounds
  BY DEF TimerIInv, Slices
<1> QED
  BY <1>1, TimerInvariance, PTL

-----------------------------------------------------------------------------
(* No other step touches the queue.                                          *)
LEMMA QueueTouched ==
  ASSUME [TimerNext]_<<vars, timerVars>>
  PROVE  \/ UNCHANGED tq
         \/ SecondPasses
         \/ \E t \in Times : kitimer(t)
BY DEF TimerNext, KernelStep, thandler, SliceEnds, MainForks, ireturn, GoToSleep, ktswitch,
       kkfork, kkwait, OtherCall, kkexit, timerVars

(* What kitimer does to the queue.                                           *)
LEMMA KitimerSets ==
  ASSUME TimerIInv, TimerIInv', NEW t \in Times, kitimer(t)
  PROVE  /\ running \in Procs /\ t \in Int /\ Sound(tq) /\ Sound(tq')
         /\ \A i \in 1 .. Len(tq) : tq[i].proc # running
         /\ \E k \in 0 .. Len(tq) : TimerSet(tq, tq', k, running, t)
<1>1. KInv /\ Modes /\ Owners /\ Sound(tq)
  BY DEF TimerIInv, Owners
<1>2. InUmode /\ tq' = Inserted(tq, running, t)
  BY DEF kitimer
<1>3. running \in Procs /\ at[running] = "user" /\ ~AsleepOnTimer(running)
  BY <1>1, <1>2, WhoRuns DEF InUmode
<1>4. \A i \in 1 .. Len(tq) : tq[i].proc # running
  BY <1>1, <1>3 DEF Owners, HasTimer
<1>5. PICK r : r = tq'
  OBVIOUS
<1>6. Sound(r)
  BY <1>5 DEF TimerIInv, Owners, Sound, OneEach, Ordered
<1>7. tq \in Seq(Timers) /\ Ordered(tq) /\ t \in Int /\ r = Inserted(tq, running, t)
  BY <1>1, <1>2, <1>5, TimesFit DEF Sound
<1>8. \E k \in 0 .. Len(tq) : TimerSet(tq, r, k, running, t)
  BY <1>3, <1>7, InsertedTimes
<1> QED
  BY <1>1, <1>3, <1>4, <1>5, <1>6, <1>7, <1>8

(* What a second does to it.                                                 *)
LEMMA SecondSplits ==
  ASSUME TimerIInv, SecondPasses
  PROVE  /\ Sound(tq) /\ Sound(tq')
         /\ \E n \in 0 .. Len(tq) : \E w : Split(tq, n, w, tq')
<1>1. Sound(tq)
  BY DEF TimerIInv, Owners
<1>2. PICK w, r : w = Taken(tq) /\ r = Later(Ticked(tq))
  OBVIOUS
<1>3. tq' = r
  BY <1>2 DEF SecondPasses, Ticked, Taken, Later, Down1
<1>4. PICK n \in 0 .. Len(tq) : Split(tq, n, w, r)
  BY <1>1, <1>2, SecondOfQueue
<1>5. Sound(r)
  BY SMTT(30), <1>1, <1>4, SplitIsSound
<1> QED
  BY <1>1, <1>3, <1>4, <1>5

(* Who is on the queue q.                                                    *)
Names(q) == {q[i].proc : i \in DOMAIN q}

LEMMA NamesOf ==
  ASSUME NEW q, Sound(q)
  PROVE  /\ DOMAIN q = 1 .. Len(q) /\ Len(q) \in Nat
         /\ \A x : x \in Names(q) <=> \E i \in 1 .. Len(q) : q[i].proc = x
         /\ q # << >> => 1 \in 1 .. Len(q)
<1>1. q \in Seq(Timers)
  BY DEF Sound
<1>2. DOMAIN q = 1 .. Len(q) /\ Len(q) \in Nat /\ (q # << >> => 1 \in 1 .. Len(q))
  BY <1>1
<1> QED
  BY <1>2 DEF Names

(* Who is there after kitimer,                                               *)
LEMMA NamesAfterSet ==
  ASSUME NEW q, Sound(q), NEW p \in Procs, NEW k \in 0 .. Len(q), NEW r, NEW t,
         TimerSet(q, r, k, p, t), Sound(r)
  PROVE  Names(r) = Names(q) \cup {p}
<1>1. /\ Len(r) = Len(q) + 1 /\ Len(q) \in Nat /\ k \in Nat /\ k <= Len(q)
      /\ r[k + 1].proc = p
      /\ \A i \in 1 .. k : r[i].proc = q[i].proc
      /\ \A i \in k + 1 .. Len(q) : r[i + 1].proc = q[i].proc
  BY DEF TimerSet, Sound
<1>2. ASSUME NEW x \in Names(r) PROVE x \in Names(q) \cup {p}
  <2>1. PICK j \in 1 .. Len(r) : r[j].proc = x
    BY NamesOf
  <2>2. CASE j <= k
    <3>1. j \in 1 .. k /\ j \in 1 .. Len(q)
      BY <1>1, <2>2
    <3> QED
      BY <1>1, <2>1, <3>1, NamesOf
  <2>3. CASE j = k + 1
    BY <1>1, <2>1, <2>3
  <2>4. CASE j > k + 1
    <3>1. PICK i \in k + 1 .. Len(q) : j = i + 1
      <4>1. j - 1 \in k + 1 .. Len(q) /\ j = (j - 1) + 1
        BY <1>1, <2>4
      <4> QED
        BY <4>1
    <3>2. i \in 1 .. Len(q)
      BY <1>1
    <3> QED
      BY <1>1, <2>1, <3>1, <3>2, NamesOf
  <2> QED
    BY <1>1, <2>2, <2>3, <2>4
<1>3. ASSUME NEW x \in Names(q) PROVE x \in Names(r)
  <2>1. PICK i \in 1 .. Len(q) : q[i].proc = x
    BY NamesOf
  <2>2. CASE i \in 1 .. k
    <3>1. i \in 1 .. Len(r)
      BY <1>1
    <3> QED
      BY <1>1, <2>1, <2>2, <3>1, NamesOf
  <2>3. CASE i \in k + 1 .. Len(q)
    <3>1. i + 1 \in 1 .. Len(r)
      BY <1>1
    <3> QED
      BY <1>1, <2>1, <2>3, <3>1, NamesOf
  <2> QED
    BY <1>1, <2>2, <2>3
<1>4. p \in Names(r)
  <2>1. k + 1 \in 1 .. Len(r)
    BY <1>1
  <2> QED
    BY <1>1, <2>1, NamesOf
<1> QED
  BY <1>2, <1>3, <1>4

(* and after a second.                                                       *)
LEMMA NamesAfterSplit ==
  ASSUME NEW q, Sound(q), NEW n \in 0 .. Len(q), NEW w, NEW r, Split(q, n, w, r), Sound(r)
  PROVE  \A x : x \in Names(r) <=> \E i \in n + 1 .. Len(q) : q[i].proc = x
<1>1. Len(q) \in Nat /\ n \in Nat /\ n <= Len(q)
  BY NamesOf
<1>2. /\ Len(r) = Len(q) - n
      /\ \A i \in 1 .. Len(q) - n : r[i].proc = q[n + i].proc
  BY DEF Split
<1>3. ASSUME NEW x, NEW j \in 1 .. Len(r), r[j].proc = x
      PROVE  \E i \in n + 1 .. Len(q) : q[i].proc = x
  <2>1. j \in 1 .. Len(q) - n /\ n + j \in n + 1 .. Len(q)
    BY <1>1, <1>2
  <2> QED
    BY <1>2, <1>3, <2>1
<1>4. ASSUME NEW x, NEW i \in n + 1 .. Len(q), q[i].proc = x
      PROVE  \E j \in 1 .. Len(r) : r[j].proc = x
  <2>1. i - n \in 1 .. Len(q) - n /\ n + (i - n) = i /\ i - n \in 1 .. Len(r)
    BY <1>1, <1>2
  <2> QED
    BY <1>2, <1>4, <2>1
<1> QED
  BY <1>3, <1>4, NamesOf

-----------------------------------------------------------------------------
(* Only a request of zero seconds or less leaves the head without time, and  *)
(* nobody leaves the queue from then on.                                     *)
LEMMA QueueHeld ==
  ASSUME TimerIInv, TimerIInv', [TimerNext]_<<vars, timerVars>>
  PROVE  /\ Held(tq') => Held(tq) \/ \E t \in Times : t <= 0 /\ kitimer(t)
         /\ Held(tq) => Held(tq') /\ Names(tq) \subseteq Names(tq')
<1>1. CASE UNCHANGED tq
  BY <1>1
<1>2. CASE SecondPasses
  <2>1. PICK r : r = tq'
    OBVIOUS
  <2>2. Sound(tq) /\ Sound(r)
    BY <1>2, <2>1, SecondSplits
  <2>3. PICK n, w : n \in 0 .. Len(tq) /\ Split(tq, n, w, r)
    BY <1>2, <2>1, SecondSplits
  <2>4. /\ Len(r) = Len(tq) - n /\ Len(tq) \in Nat /\ r \in Seq(Timers) /\ tq \in Seq(Timers)
        /\ \A i \in 1 .. Len(tq) - n : /\ Total(r, i) = Total(tq, n + i) - 1
                                       /\ ~Held(tq) => Total(r, i) > 0
        /\ Held(tq) => n = 0
    BY <2>2, <2>3 DEF Split, Sound
  <2>5. ASSUME NEW q, q \in Seq(Timers), q # << >> PROVE Total(q, 1) = q[1].time /\ q[1].time \in Int
    <3>1. 1 \in 1 .. Len(q) /\ 1 - 1 = 0
      BY <2>5
    <3>2. Total(q, 1) = Total(q, 1 - 1) + q[1].time /\ Total(q, 0) = 0 /\ q[1].time \in Int
      BY <2>5, <3>1, TotalSteps
    <3> QED
      BY <3>1, <3>2
  <2>6. Held(r) => Held(tq)
    <3> SUFFICES ASSUME Held(r), ~Held(tq) PROVE FALSE
      OBVIOUS
    <3>1. r # << >> /\ r[1].time <= 0
      BY DEF Held
    <3>2. 1 \in 1 .. Len(tq) - n
      BY <2>2, <2>4, <3>1, NamesOf
    <3> QED
      BY <2>4, <2>5, <3>1, <3>2
  <2>7. ASSUME Held(tq) PROVE Held(r) /\ Names(tq) \subseteq Names(r)
    <3>1. n = 0 /\ tq # << >> /\ tq[1].time <= 0
      BY <2>4, <2>7 DEF Held
    <3>2. 1 \in 1 .. Len(tq) /\ 1 \in 1 .. Len(tq) - n /\ n + 1 = 1
      BY <2>2, <2>4, <3>1, NamesOf
    <3>3. Len(r) # 0 /\ r # << >>
      BY <2>4, <3>2
    <3>4. Total(r, 1) = Total(tq, 1) - 1
      BY <2>4, <3>1, <3>2
    <3>5. r[1].time <= 0
      BY <2>4, <2>5, <3>1, <3>3, <3>4
    <3>6. \A x \in Names(tq) : \E i \in n + 1 .. Len(tq) : tq[i].proc = x
      BY <2>2, <3>1, NamesOf
    <3> QED
      BY <2>2, <2>3, <3>3, <3>5, <3>6, NamesAfterSplit DEF Held
  <2> QED
    BY <2>1, <2>6, <2>7
<1>3. ASSUME NEW t \in Times, kitimer(t)
      PROVE  /\ Held(tq') => Held(tq) \/ t <= 0
             /\ Held(tq) => Held(tq') /\ Names(tq) \subseteq Names(tq')
  <2>1. PICK r : r = tq'
    OBVIOUS
  <2>2. Sound(tq) /\ Sound(r) /\ running \in Procs /\ t \in Int
    BY <1>3, <2>1, KitimerSets
  <2>3. PICK k \in 0 .. Len(tq) : TimerSet(tq, r, k, running, t)
    BY <1>3, <2>1, KitimerSets
  <2>4. /\ Len(r) = Len(tq) + 1 /\ Len(tq) \in Nat /\ k \in 0 .. Len(tq)
        /\ r[1].time = IF k = 0 THEN t ELSE tq[1].time
        /\ k = 0 /\ tq # << >> => t < tq[1].time
        /\ tq \in Seq(Timers)
    BY <2>2, <2>3 DEF TimerSet, Sound
  <2>5. k # 0 => tq # << >>
    BY <2>4
  <2>6. tq # << >> => tq[1].time \in Int
    BY <2>2, <2>4, NamesOf, EntryTypes
  <2>7. r # << >>
    BY <2>4
  <2>8. Held(r) => Held(tq) \/ t <= 0
    BY <2>4, <2>5 DEF Held
  <2>9. Held(tq) => Held(r)
    BY <2>2, <2>4, <2>6, <2>7 DEF Held
  <2>10. Names(r) = Names(tq) \cup {running}
    BY <2>2, <2>3, NamesAfterSet
  <2> QED
    BY <2>1, <2>8, <2>9, <2>10
<1> QED
  BY <1>1, <1>2, <1>3, QueueTouched

(* timer.c:57-109, 242-250: the head is counted past zero, and everybody on  *)
(* the queue held up, only after a request of zero seconds or less; from     *)
(* then on nobody leaves the queue.                                          *)
THEOREM ZeroAloneHoldsUp == TimerSpec => OnlyZeroHoldsUp
<1>1. TimerIInv /\ TimerIInv' /\ [TimerNext]_<<vars, timerVars>>
         => [/\ HeldUp' => HeldUp \/ \E t \in Times : t <= 0 /\ kitimer(t)
             /\ HeldUp => HeldUp' /\ Waiting \subseteq Waiting']_<<vars, timerVars>>
  <2>1. (HeldUp <=> Held(tq)) /\ Waiting = Names(tq)
    BY DEF HeldUp, Held, Waiting, Names
  <2>2. (HeldUp' <=> Held(tq')) /\ Waiting' = Names(tq')
    BY DEF HeldUp, Held, Waiting, Names
  <2> QED
    BY <2>1, <2>2, QueueHeld
<1> QED
  BY <1>1, TimerInvariance, PTL DEF TimerSpec, OnlyZeroHoldsUp

-----------------------------------------------------------------------------
(* What a process has left is told by its entry, which is its only one.      *)
LEMMA LeftByEntry ==
  ASSUME NEW q, Sound(q), NEW i \in 1 .. Len(q), NEW p, q[i].proc = p
  PROVE  SecondsLeft(q, p) = Total(q, i)
<1>1. OneEach(q) /\ DOMAIN q = 1 .. Len(q)
  BY DEF Sound
<1>2. PICK c : c = CHOOSE j \in DOMAIN q : q[j].proc = p
  OBVIOUS
<1>3. c \in 1 .. Len(q) /\ q[c].proc = p
  BY <1>1, <1>2
<1>4. c = i
  BY <1>1, <1>3 DEF OneEach
<1> QED
  BY <1>2, <1>4 DEF SecondsLeft

(* A new timer gives its process its time and takes none from the others.    *)
LEMMA LeftAfterSet ==
  ASSUME NEW q, Sound(q), NEW p \in Procs, \A i \in 1 .. Len(q) : q[i].proc # p,
         NEW k \in 0 .. Len(q), NEW r, NEW t, TimerSet(q, r, k, p, t), Sound(r)
  PROVE  \A x \in Names(r) : SecondsLeft(r, x) = IF x = p THEN t ELSE SecondsLeft(q, x)
<1> SUFFICES ASSUME NEW x \in Names(r)
             PROVE  SecondsLeft(r, x) = IF x = p THEN t ELSE SecondsLeft(q, x)
  OBVIOUS
<1>1. /\ Len(r) = Len(q) + 1 /\ Len(q) \in Nat /\ k \in Nat /\ k <= Len(q)
      /\ r[k + 1].proc = p /\ Total(r, k + 1) = t
      /\ \A i \in 1 .. k : r[i].proc = q[i].proc /\ Total(r, i) = Total(q, i)
      /\ \A i \in k + 1 .. Len(q) : r[i + 1].proc = q[i].proc /\ Total(r, i + 1) = Total(q, i)
  BY DEF TimerSet, Sound
<1>2. CASE x = p
  <2>1. k + 1 \in 1 .. Len(r)
    BY <1>1
  <2> QED
    BY <1>1, <1>2, <2>1, LeftByEntry
<1>3. CASE x # p
  <2>1. PICK i \in 1 .. Len(q) : q[i].proc = x
    BY <1>3, NamesAfterSet, NamesOf
  <2>2. PICK j \in 1 .. Len(r) : r[j].proc = x /\ Total(r, j) = Total(q, i)
    <3>1. CASE i \in 1 .. k
      <4>1. i \in 1 .. Len(r)
        BY <1>1
      <4> QED
        BY <1>1, <2>1, <3>1, <4>1
    <3>2. CASE i \in k + 1 .. Len(q)
      <4>1. i + 1 \in 1 .. Len(r)
        BY <1>1
      <4> QED
        BY <1>1, <2>1, <3>2, <4>1
    <3> QED
      BY <1>1, <3>1, <3>2
  <2> QED
    BY <1>3, <2>1, <2>2, LeftByEntry
<1> QED
  BY <1>2, <1>3

(* A second takes one from everybody who stays.                              *)
LEMMA LeftAfterSplit ==
  ASSUME NEW q, Sound(q), NEW n \in 0 .. Len(q), NEW w, NEW r, Split(q, n, w, r), Sound(r)
  PROVE  \A x \in Names(r) : SecondsLeft(r, x) = SecondsLeft(q, x) - 1
<1> SUFFICES ASSUME NEW x \in Names(r) PROVE SecondsLeft(r, x) = SecondsLeft(q, x) - 1
  OBVIOUS
<1>1. Len(q) \in Nat /\ n \in Nat /\ n <= Len(q)
  BY NamesOf
<1>2. /\ Len(r) = Len(q) - n
      /\ \A i \in 1 .. Len(q) - n : r[i].proc = q[n + i].proc /\ Total(r, i) = Total(q, n + i) - 1
  BY DEF Split
<1>3. PICK j \in 1 .. Len(r) : r[j].proc = x
  BY NamesOf
<1>4. PICK i \in 1 .. Len(q) : i = n + j /\ j \in 1 .. Len(q) - n
  BY <1>1, <1>2
<1>5. SecondsLeft(r, x) = Total(r, j)
  BY <1>3, LeftByEntry
<1>6. q[i].proc = x
  BY <1>2, <1>3, <1>4
<1>7. SecondsLeft(q, x) = Total(q, i)
  BY <1>6, LeftByEntry
<1> QED
  BY <1>2, <1>4, <1>5, <1>7

(* The seconds that the waiting processes have left, as TimerAlarm sees them.*)
Left(q) == [p \in Names(q) |-> SecondsLeft(q, p)]

(* kitimer is somebody's request,                                            *)
LEMMA KitimerAsks ==
  ASSUME TimerIInv, TimerIInv', NEW t \in Times, kitimer(t), Left(tq)' = Left(tq')
  PROVE  /\ running \in Procs /\ running \notin Names(tq)
         /\ Left(tq') = [x \in Names(tq) \cup {running} |->
                            IF x = running THEN t ELSE Left(tq)[x]]
<1>1. PICK r : r = tq'
  OBVIOUS
<1>2. /\ running \in Procs /\ Sound(tq) /\ Sound(r)
      /\ \A i \in 1 .. Len(tq) : tq[i].proc # running
  BY <1>1, KitimerSets
<1>3. PICK k \in 0 .. Len(tq) : TimerSet(tq, r, k, running, t)
  BY <1>1, KitimerSets
<1>4. running \notin Names(tq)
  BY <1>2, NamesOf
<1>5. Names(r) = Names(tq) \cup {running}
  BY <1>2, <1>3, NamesAfterSet
<1>6. \A x \in Names(r) : SecondsLeft(r, x) = IF x = running THEN t ELSE SecondsLeft(tq, x)
  BY <1>2, <1>3, LeftAfterSet
<1> QED
  BY <1>1, <1>2, <1>4, <1>5, <1>6 DEF Left

(* and a second of the queue one of everybody's, if anybody waits.           *)
LEMMA SecondIsSecond ==
  ASSUME TimerIInv, TimerIInv', SecondPasses, ~UNCHANGED tq
  PROVE  \E rings : /\ rings = (IF \E p \in Names(tq) : Left(tq)[p] <= 0 THEN {}
                               ELSE {p \in Names(tq) : Left(tq)[p] = 1})
                   /\ Names(tq) # {}
                   /\ Left(tq') = [p \in Names(tq) \ rings |-> Left(tq)[p] - 1]
<1>1. PICK r : r = tq'
  OBVIOUS
<1>2. Sound(tq) /\ Sound(r)
  BY <1>1, SecondSplits
<1>3. PICK n, w : n \in 0 .. Len(tq) /\ Split(tq, n, w, r)
  BY <1>1, SecondSplits
<1>4. PICK late, rings : /\ late = \E p \in Names(tq) : Left(tq)[p] <= 0
                         /\ rings = IF late THEN {} ELSE {p \in Names(tq) : Left(tq)[p] = 1}
  OBVIOUS
<1>5. tq # << >>
  <2> SUFFICES ASSUME tq = << >> PROVE FALSE
    OBVIOUS
  <2>1. r \in Seq(Timers) /\ Len(r) = 0
    BY <1>3 DEF Split
  <2> QED
    BY <1>1, <2>1
<1>6. /\ Len(tq) \in Nat /\ n \in 0 .. Len(tq) /\ Len(r) = Len(tq) - n
      /\ \A i \in 1 .. n : Total(tq, i) = 1
      /\ \A i \in 1 .. Len(tq) - n : /\ r[i].proc = tq[n + i].proc
                                     /\ Total(r, i) = Total(tq, n + i) - 1
                                     /\ ~Held(tq) => Total(r, i) > 0
      /\ Held(tq) => n = 0
  BY <1>2, <1>3, NamesOf DEF Split
<1>7. ASSUME NEW i \in 1 .. Len(tq)
      PROVE  /\ tq[i].proc \in Names(tq) /\ Left(tq)[tq[i].proc] = Total(tq, i)
             /\ Total(tq, i) \in Int
  <2>1. PICK x : x = tq[i].proc
    OBVIOUS
  <2>2. x \in Names(tq) /\ SecondsLeft(tq, x) = Total(tq, i)
    BY <1>2, <2>1, NamesOf, LeftByEntry
  <2>3. Left(tq)[x] = SecondsLeft(tq, x)
    BY <2>2 DEF Left
  <2>4. tq \in Seq(Timers) /\ i \in 0 .. Len(tq)
    BY <1>2 DEF Sound
  <2> QED
    BY <2>1, <2>2, <2>3, <2>4, TotalSteps
<1>8. ASSUME NEW i \in n + 1 .. Len(tq), ~Held(tq) PROVE Total(tq, i) > 1
  <2>1. PICK j \in 1 .. Len(tq) - n : i = n + j
    <3>1. i - n \in 1 .. Len(tq) - n /\ i = n + (i - n)
      BY <1>6
    <3> QED
      BY <3>1
  <2>2. Total(r, j) = Total(tq, i) - 1 /\ Total(r, j) > 0
    BY <1>6, <1>8, <2>1
  <2>3. i \in 1 .. Len(tq)
    BY <1>6
  <2> QED
    BY <1>7, <2>2, <2>3
<1>9. late <=> Held(tq)
  <2>1. ASSUME Held(tq) PROVE late
    <3>1. 1 \in 1 .. Len(tq) /\ 1 - 1 = 0 /\ tq[1].time <= 0 /\ tq \in Seq(Timers)
      BY <1>2, <2>1, NamesOf DEF Held, Sound
    <3>2. Total(tq, 1) = Total(tq, 1 - 1) + tq[1].time /\ Total(tq, 0) = 0 /\ tq[1].time \in Int
      BY <3>1, TotalSteps
    <3>3. Total(tq, 1) <= 0
      BY <3>1, <3>2
    <3> QED
      BY <1>4, <1>7, <3>1, <3>3
  <2>2. ASSUME late, ~Held(tq) PROVE FALSE
    <3>1. PICK p \in Names(tq) : Left(tq)[p] <= 0
      BY <1>4, <2>2
    <3>2. PICK i \in 1 .. Len(tq) : tq[i].proc = p
      BY <1>2, NamesOf
    <3>3. Total(tq, i) <= 0 /\ Total(tq, i) \in Int
      BY <1>7, <3>1, <3>2
    <3>4. i \in 1 .. n \/ i \in n + 1 .. Len(tq)
      BY <1>6
    <3>5. Total(tq, i) >= 1
      BY <1>6, <1>8, <2>2, <3>3, <3>4
    <3> QED
      BY <3>3, <3>5
  <2> QED
    BY <2>1, <2>2
<1>10. Names(r) = Names(tq) \ rings
  <2>1. ASSUME NEW x \in Names(r) PROVE x \in Names(tq) /\ x \notin rings
    <3>1. PICK i \in n + 1 .. Len(tq) : tq[i].proc = x
      BY <1>2, <1>3, NamesAfterSplit
    <3>2. i \in 1 .. Len(tq)
      BY <1>6
    <3>3. x \in Names(tq) /\ Left(tq)[x] = Total(tq, i) /\ Total(tq, i) \in Int
      BY <1>7, <3>1, <3>2
    <3>4. ~Held(tq) => Left(tq)[x] > 1
      BY <1>8, <3>3
    <3> QED
      BY <1>4, <1>9, <3>3, <3>4
  <2>2. ASSUME NEW x \in Names(tq), x \notin rings PROVE x \in Names(r)
    <3>1. PICK i \in 1 .. Len(tq) : tq[i].proc = x
      BY <1>2, NamesOf
    <3>2. CASE i \in n + 1 .. Len(tq)
      BY <1>2, <1>3, <3>1, <3>2, NamesAfterSplit
    <3>3. CASE i \in 1 .. n
      <4>1. Left(tq)[x] = 1 /\ n # 0
        BY <1>6, <1>7, <3>1, <3>3
      <4> QED
        BY <1>4, <1>6, <1>9, <2>2, <4>1
    <3> QED
      BY <1>6, <3>2, <3>3
  <2> QED
    BY <2>1, <2>2
<1>11. \A x \in Names(r) : SecondsLeft(r, x) = SecondsLeft(tq, x) - 1
  BY <1>2, <1>3, LeftAfterSplit
<1>12. Names(tq) # {}
  BY <1>2, <1>5, NamesOf
<1>13. Left(r) = [p \in Names(tq) \ rings |-> Left(tq)[p] - 1]
  BY <1>10, <1>11 DEF Left
<1> QED
  BY <1>1, <1>4, <1>12, <1>13

(* Every step is one of TimerAlarm or leaves everybody's time alone.         *)
LEMMA TimerSteps ==
  TimerIInv /\ TimerIInv' /\ [TimerNext]_<<vars, timerVars>>
    => [Alarm!AlarmNext]_([p \in Waiting |-> SecondsLeft(tq, p)])
<1> SUFFICES ASSUME TimerIInv, TimerIInv', [TimerNext]_<<vars, timerVars>>
             PROVE  [Alarm!AlarmNext]_([p \in Waiting |-> SecondsLeft(tq, p)])
  OBVIOUS
<1>1. /\ [p \in Waiting |-> SecondsLeft(tq, p)] = Left(tq)
      /\ [p \in Waiting |-> SecondsLeft(tq, p)]' = Left(tq')
      /\ DOMAIN Left(tq) = Names(tq)
  BY DEF Left, Waiting, Names
<1>2. CASE UNCHANGED tq
  BY <1>1, <1>2
<1>3. CASE SecondPasses /\ ~UNCHANGED tq
  <2>1. PICK rings : /\ rings = (IF \E p \in Names(tq) : Left(tq)[p] <= 0 THEN {}
                                 ELSE {p \in Names(tq) : Left(tq)[p] = 1})
                     /\ Names(tq) # {}
                     /\ Left(tq') = [p \in Names(tq) \ rings |-> Left(tq)[p] - 1]
    BY <1>3, SecondIsSecond
  <2>2. Alarm!Rings = rings
    BY <1>1, <2>1 DEF Alarm!Rings, Alarm!Late
  <2>3. Alarm!Second
    BY <1>1, <2>1, <2>2 DEF Alarm!Second
  <2> QED
    BY <2>3 DEF Alarm!AlarmNext
<1>4. ASSUME NEW t \in Times, kitimer(t) PROVE Alarm!AlarmNext
  <2>1. Alarm!Ask(running, t) /\ running \in Procs
    BY <1>1, <1>4, KitimerAsks DEF Alarm!Ask
  <2> QED
    BY <2>1 DEF Alarm!AlarmNext
<1> QED
  BY <1>2, <1>3, <1>4, QueueTouched

(* timer.c:57-107, 242-250: the queue of differences, cut by insertions and  *)
(* counted down at its head only, gives every process the seconds it asked   *)
(* for: each of its seconds counts once for everybody, and who has none left *)
(* is taken off unless a request of zero seconds or less holds up the queue. *)
THEOREM TimeIsKept == TimerSpec => KeepsTime
<1>1. TimerInit => Alarm!AlarmInit
  <2> SUFFICES ASSUME TimerInit PROVE Waiting = {}
    BY DEF Alarm!AlarmInit
  <2>1. tq = << >>
    BY DEF TimerInit
  <2> QED
    BY <2>1 DEF Waiting
<1> QED
  BY <1>1, TimerSteps, TimerInvariance, PTL DEF TimerSpec, KeepsTime, Alarm!AlarmSpec

=============================================================================
