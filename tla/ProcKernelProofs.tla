-------------------------- MODULE ProcKernelProofs --------------------------
(***************************************************************************)
(* What holds of the process-switching kernel of 2-tswitch for any number  *)
(* of processes and anything that is typed: first what que.c promises its  *)
(* callers; then types, lists and statuses, and the scheduler's promise    *)
(* that there is always somebody to run; then that equals take turns; then *)
(* parents and children, and that the kernel implements ProcLife.          *)
(***************************************************************************)
EXTENDS ProcKernel, SequenceTheorems, FiniteSetTheorems, WellFoundedInduction, TLAPS

(***************************************************************************)
(* The lists of que.c, of every length: enqueue adds exactly one process   *)
(* and keeps a sorted list sorted, dequeue takes one of the highest        *)
(* priority off, and the loops of wait.c and kernel.c that move a whole    *)
(* list neither lose nor duplicate a process.                              *)
(***************************************************************************)
(* Every nonempty set of natural numbers has a least element: the form in   *)
(* which induction over the loops of que.c is used below.                   *)
LEMMA LeastNat ==
  ASSUME NEW T, T \subseteq Nat, T # {}
  PROVE  \E x \in T : \A y \in T : x <= y
<1>1. IsWellFoundedOn(OpToRel(<, Nat), Nat)
  BY NatLessThanWellFounded
<1> DEFINE R == OpToRel(<, Nat)
<1>2. PICK x \in T : \A y \in T : ~(<<y, x>> \in R)
  <2> HIDE DEF R
  <2>1. IsWellFoundedOn(R, Nat)
    BY <1>1 DEF R
  <2> QED
    BY <2>1, WFMin
<1>3. ASSUME NEW y \in T PROVE x <= y
  <2>1. ~(y < x)
    BY <1>2 DEF OpToRel
  <2> QED
    BY <2>1
<1> QED
  BY <1>3

(* enqueue's walk stops inside the list or at its end.                      *)
LEMMA PlaceIsAPlace ==
  ASSUME NEW P, NEW q \in Seq(P), NEW p \in P, NEW pri \in [P -> Int]
  PROVE  /\ Place(q, p, pri) \in 1 .. Len(q) + 1
         /\ \A j \in 1 .. Place(q, p, pri) - 1 : pri[p] <= pri[q[j]]
         /\ Place(q, p, pri) <= Len(q) => pri[q[Place(q, p, pri)]] < pri[p]
<1> DEFINE Lower == {i \in 1 .. Len(q) + 1 : i <= Len(q) => pri[q[i]] < pri[p]}
<1>1. Len(q) + 1 \in Lower /\ Lower \subseteq Nat
  OBVIOUS
<1>2. PICK k \in Lower : \A j \in Lower : k <= j
  <2> HIDE DEF Lower
  <2> QED
    BY <1>1, LeastNat
<1>3. \A j \in 1 .. k - 1 : pri[p] <= pri[q[j]]
  <2> SUFFICES ASSUME NEW j \in 1 .. k - 1 PROVE pri[p] <= pri[q[j]]
    OBVIOUS
  <2>1. j \in 1 .. Len(q) /\ j \notin Lower
    BY <1>2
  <2>2. q[j] \in P
    BY <2>1
  <2> QED
    BY <2>1, <2>2
<1> QED
  BY <1>2, <1>3 DEF Place

(* A process put between two pieces of a list: where everything ends up.    *)
LEMMA InsertedBetween ==
  ASSUME NEW P, NEW a \in Seq(P), NEW p \in P, NEW b \in Seq(P),
         NEW r, r = a \o <<p>> \o b
  PROVE  /\ r \in Seq(P)
         /\ Len(r) = Len(a) + 1 + Len(b)
         /\ \A i \in 1 .. Len(a) : r[i] = a[i]
         /\ r[Len(a) + 1] = p
         /\ \A i \in 1 .. Len(b) : r[Len(a) + 1 + i] = b[i]
<1>1. PICK f : f = Append(a, p)
  OBVIOUS
<1>2. /\ f \in Seq(P)
      /\ Len(f) = Len(a) + 1
      /\ \A i \in 1 .. Len(a) : f[i] = a[i]
      /\ f[Len(a) + 1] = p
      /\ f = a \o <<p>>
  BY <1>1, AppendProperties, AppendIsConcat
<1>3. /\ f \o b \in Seq(P)
      /\ Len(f \o b) = Len(f) + Len(b)
      /\ \A i \in 1 .. Len(f) + Len(b) :
             (f \o b)[i] = IF i <= Len(f) THEN f[i] ELSE b[i - Len(f)]
  BY <1>2, ConcatProperties
<1>4. r = f \o b
  BY <1>2
<1> QED
  BY <1>2, <1>3, <1>4

(* r is q with p at place k, which has those of at least its priority in     *)
(* front of it; who is behind it has moved one place.                        *)
Placed(P, q, p, pri, r, k) ==
    /\ \A j \in 1 .. k - 1 : pri[p] <= pri[q[j]]
    /\ k <= Len(q) => pri[q[k]] < pri[p]
    /\ r \in Seq(P)
    /\ Len(r) = Len(q) + 1
    /\ \A i \in 1 .. Len(q) + 1 :
           r[i] = IF i < k THEN q[i] ELSE IF i = k THEN p ELSE q[i - 1]

(* That is what enqueue makes of a list.                                     *)
LEMMA EnqueuePlaces ==
  ASSUME NEW P, NEW q \in Seq(P), NEW p \in P, NEW pri \in [P -> Int],
         NEW r, r = enqueue(q, p, pri)
  PROVE  \E k \in 1 .. Len(q) + 1 : Placed(P, q, p, pri, r, k)
<1>1. PICK k \in 1 .. Len(q) + 1 : k = Place(q, p, pri)
  BY PlaceIsAPlace
<1>2. /\ k \in 1 .. Len(q) + 1
      /\ \A j \in 1 .. k - 1 : pri[p] <= pri[q[j]]
      /\ k <= Len(q) => pri[q[k]] < pri[p]
  BY <1>1, PlaceIsAPlace
<1>3. /\ r \in Seq(P)
      /\ Len(r) = Len(q) + 1
      /\ \A i \in 1 .. Len(q) + 1 :
             r[i] = IF i < k THEN q[i] ELSE IF i = k THEN p ELSE q[i - 1]
  <2>0. \A i \in 1 .. Len(q) : q[i] \in P
    OBVIOUS
  <2>2. PICK a : a = SubSeq(q, 1, k - 1)
    OBVIOUS
  <2>3. /\ a \in Seq(P)
        /\ Len(a) = k - 1
        /\ \A i \in 1 .. k - 1 : a[i] = q[i]
    <3>1. \A i \in 1 .. k - 1 : q[i] \in P
      BY <2>0
    <3> QED
      BY <2>2, <3>1, SubSeqProperties
  <2>4. PICK b : b = SubSeq(q, k, Len(q))
    OBVIOUS
  <2>5. /\ b \in Seq(P)
        /\ Len(b) = Len(q) - k + 1
        /\ \A i \in 1 .. Len(q) - k + 1 : b[i] = q[k + i - 1]
    <3>1. \A i \in k .. Len(q) : q[i] \in P
      BY <2>0
    <3> QED
      BY <2>4, <3>1, SubSeqProperties
  <2>7. r = a \o <<p>> \o b
    BY <1>1, <2>2, <2>4 DEF enqueue, InsertAt
  <2>8. /\ r \in Seq(P)
        /\ Len(r) = Len(a) + 1 + Len(b)
        /\ \A i \in 1 .. Len(a) : r[i] = a[i]
        /\ r[Len(a) + 1] = p
        /\ \A i \in 1 .. Len(b) : r[Len(a) + 1 + i] = b[i]
    <3>1. a \in Seq(P) /\ b \in Seq(P)
      BY <2>3, <2>5
    <3> QED
      BY SMTT(30), <2>7, <3>1, InsertedBetween
  <2>9. Len(r) = Len(q) + 1
    BY <2>3, <2>5, <2>8
  <2>10. ASSUME NEW i \in 1 .. k - 1
         PROVE  r[i] = q[i]
    BY <2>3, <2>8
  <2>11. r[k] = p
    BY <2>3, <2>8
  <2>12. ASSUME NEW i \in k .. Len(q)
         PROVE  r[i + 1] = q[i]
    <3>1. i - k + 1 \in 1 .. Len(q) - k + 1
      OBVIOUS
    <3>2. b[i - k + 1] = q[k + (i - k + 1) - 1]
      BY <2>5, <3>1
    <3>3. r[Len(a) + 1 + (i - k + 1)] = b[i - k + 1]
      BY <2>5, <2>8, <3>1
    <3>4. Len(a) + 1 + (i - k + 1) = i + 1 /\ k + (i - k + 1) - 1 = i
      BY <2>3
    <3> QED
      BY <3>2, <3>3, <3>4
  <2>13. ASSUME NEW i \in 1 .. Len(q) + 1, i > k PROVE r[i] = q[i - 1]
    <3>1. i - 1 \in k .. Len(q) /\ i = (i - 1) + 1
      BY <2>13
    <3> QED
      BY <2>12, <3>1
  <2>14. ASSUME NEW i \in 1 .. Len(q) + 1, i < k PROVE r[i] = q[i]
    BY <2>10, <2>14
  <2>15. ASSUME NEW i \in 1 .. Len(q) + 1
         PROVE  r[i] = IF i < k THEN q[i] ELSE IF i = k THEN p ELSE q[i - 1]
    <3>1. CASE i < k
      BY <2>14, <3>1
    <3>2. CASE i = k
      BY <2>11, <3>2
    <3>3. CASE i > k
      BY <2>13, <3>3
    <3> QED
      BY <3>1, <3>2, <3>3
  <2> QED
    BY <2>8, <2>9, <2>15
<1> QED
  BY <1>2, <1>3 DEF Placed

(* What enqueue promises of the list r that it makes of q: p is added and    *)
(* nothing else changes hands, and a sorted list stays sorted.               *)
Enqueued(P, q, p, pri, r) ==
    /\ r \in Seq(P)
    /\ Len(r) = Len(q) + 1
    /\ Range(r) = Range(q) \cup {p}
    /\ IsInjective(q) /\ p \notin Range(q) => IsInjective(r)
    /\ Sorted(q, pri) => Sorted(r, pri)

(* enqueue keeps that promise on every list.                                 *)
LEMMA EnqueueProperties ==
  ASSUME NEW P, NEW q \in Seq(P), NEW p \in P, NEW pri \in [P -> Int],
         NEW r, r = enqueue(q, p, pri)
  PROVE  Enqueued(P, q, p, pri, r)
<1>1. PICK k \in 1 .. Len(q) + 1 : Placed(P, q, p, pri, r, k)
  BY EnqueuePlaces
<1>2. /\ k \in 1 .. Len(q) + 1
      /\ \A j \in 1 .. k - 1 : pri[p] <= pri[q[j]]
      /\ k <= Len(q) => pri[q[k]] < pri[p]
  BY <1>1 DEF Placed
<1>3. /\ r \in Seq(P)
      /\ Len(r) = Len(q) + 1
      /\ \A i \in 1 .. Len(q) + 1 :
             r[i] = IF i < k THEN q[i] ELSE IF i = k THEN p ELSE q[i - 1]
  BY <1>1 DEF Placed
<1>4. /\ DOMAIN r = 1 .. Len(q) + 1
      /\ DOMAIN q = 1 .. Len(q)
      /\ Len(q) \in Nat
      /\ \A i \in 1 .. Len(q) : q[i] \in P
  BY <1>3
<1>a. \A i \in 1 .. Len(q) + 1 :
         r[i] = IF i < k THEN q[i] ELSE IF i = k THEN p ELSE q[i - 1]
  BY <1>3
<1>b. ASSUME NEW i \in 1 .. Len(q) + 1, i < k
      PROVE  i \in 1 .. Len(q) /\ r[i] = q[i]
  BY <1>a, <1>b, <1>4
<1>c. ASSUME NEW i \in 1 .. Len(q) + 1, i > k
      PROVE  i - 1 \in 1 .. Len(q) /\ r[i] = q[i - 1]
  BY <1>a, <1>c, <1>4
<1>d. ASSUME NEW i \in 1 .. Len(q), i >= k
      PROVE  i + 1 \in 1 .. Len(q) + 1 /\ r[i + 1] = q[i]
  <2>1. i + 1 \in 1 .. Len(q) + 1 /\ i + 1 > k /\ (i + 1) - 1 = i
    BY <1>d, <1>4
  <2> QED
    BY <2>1, <1>c
<1>5. Range(r) = Range(q) \cup {p}
  <2>1. Range(r) \subseteq Range(q) \cup {p}
    <3> SUFFICES ASSUME NEW i \in 1 .. Len(q) + 1
                 PROVE  r[i] \in Range(q) \cup {p}
      BY <1>4 DEF Range
    <3>1. CASE i < k
      <4>1. i \in 1 .. Len(q) /\ r[i] = q[i]
        BY <1>b, <3>1
      <4> QED
        BY <1>4, <4>1 DEF Range
    <3>2. CASE i = k
      BY <1>3, <3>2
    <3>3. CASE i > k
      <4>1. i - 1 \in 1 .. Len(q) /\ r[i] = q[i - 1]
        BY <1>c, <3>3
      <4> QED
        BY <1>4, <4>1 DEF Range
    <3> QED
      BY <1>2, <3>1, <3>2, <3>3
  <2>2. p \in Range(r)
    BY <1>2, <1>3, <1>4 DEF Range
  <2>3. ASSUME NEW i \in 1 .. Len(q) PROVE q[i] \in Range(r)
    <3>1. CASE i < k
      <4>1. i \in 1 .. Len(q) + 1 /\ r[i] = q[i]
        BY <1>b, <1>4, <3>1
      <4> QED
        BY <1>4, <4>1 DEF Range
    <3>2. CASE i >= k
      <4>1. i + 1 \in 1 .. Len(q) + 1 /\ r[i + 1] = q[i]
        BY <1>d, <3>2
      <4> QED
        BY <1>4, <4>1 DEF Range
    <3> QED
      BY <1>2, <3>1, <3>2
  <2> QED
    BY <1>4, <2>1, <2>2, <2>3 DEF Range
<1> DEFINE Old(i) == IF i < k THEN i ELSE i - 1
<1>6. \A i \in 1 .. Len(q) + 1 : i # k => /\ Old(i) \in 1 .. Len(q)
                                         /\ r[i] = q[Old(i)]
  <2> SUFFICES ASSUME NEW i \in 1 .. Len(q) + 1, i # k
               PROVE  Old(i) \in 1 .. Len(q) /\ r[i] = q[Old(i)]
    OBVIOUS
  <2>1. CASE i < k
    BY <1>b, <2>1
  <2>2. CASE i > k
    BY <1>c, <2>2
  <2> QED
    BY <1>2, <2>1, <2>2
<1>7. \A i, j \in 1 .. Len(q) + 1 :
         i # k /\ j # k /\ i < j => Old(i) < Old(j)
  BY <1>2
<1>8. r[k] = p
  BY <1>2, <1>3
<1>9. ASSUME IsInjective(q), p \notin Range(q) PROVE IsInjective(r)
  <2>1. \A i \in 1 .. Len(q) : q[i] # p
    BY <1>4, <1>9 DEF Range
  <2>2. \A i, j \in 1 .. Len(q) : q[i] = q[j] => i = j
    BY <1>4, <1>9 DEF IsInjective
  <2> SUFFICES ASSUME NEW i \in 1 .. Len(q) + 1, NEW j \in 1 .. Len(q) + 1,
                      i < j
               PROVE  r[i] # r[j]
    BY <1>4 DEF IsInjective
  <2>3. CASE i = k \/ j = k
    BY SMTT(30), <1>6, <1>8, <2>1, <2>3
  <2>4. CASE i # k /\ j # k
    <3>1. Old(i) < Old(j)
      BY <1>7, <2>4
    <3> HIDE DEF Old
    <3> QED
      BY SMTT(30), <1>6, <2>2, <2>4, <3>1
  <2> QED
    BY <2>3, <2>4
<1>10. ASSUME Sorted(q, pri) PROVE Sorted(r, pri)
  <2>1. \A i, j \in 1 .. Len(q) : i < j => pri[q[j]] <= pri[q[i]]
    BY <1>10 DEF Sorted
  <2>2. \A i \in 1 .. Len(q) : pri[q[i]] \in Int
    BY <1>4
  <2>3. pri[p] \in Int
    OBVIOUS
  <2>4. \A i \in 1 .. Len(q) : k <= i => pri[q[i]] < pri[p]
    BY <1>2, <2>1, <2>2, <2>3
  <2> SUFFICES ASSUME NEW i \in 1 .. Len(q) + 1, NEW j \in 1 .. Len(q) + 1,
                      i < j
               PROVE  pri[r[j]] <= pri[r[i]]
    BY <1>3 DEF Sorted
  <2>5. CASE i = k
    <3>1. j - 1 \in 1 .. Len(q) /\ k <= j - 1 /\ r[j] = q[j - 1]
      BY <1>2, <1>3, <2>5
    <3> QED
      BY SMTT(30), <1>8, <2>2, <2>3, <2>4, <2>5, <3>1
  <2>6. CASE j = k
    <3>1. i \in 1 .. k - 1 /\ r[i] = q[i]
      BY <1>2, <1>3, <2>6
    <3> QED
      BY <1>2, <1>8, <2>6, <3>1
  <2>7. CASE i # k /\ j # k
    <3>1. Old(i) < Old(j)
      BY <1>7, <2>7
    <3> HIDE DEF Old
    <3> QED
      BY <1>6, <2>1, <2>7, <3>1
  <2> QED
    BY <2>5, <2>6, <2>7
<1> QED
  BY <1>3, <1>5, <1>9, <1>10 DEF Enqueued

(* What dequeue promises of the process p it takes off q and of the list t   *)
(* it leaves: p was on q, the others are still there, and on a sorted list   *)
(* none of them outranks p.                                                  *)
Dequeued(P, q, pri, p, t) ==
    /\ p \in P
    /\ t \in Seq(P)
    /\ Len(t) = Len(q) - 1
    /\ Range(q) = Range(t) \cup {p}
    /\ IsInjective(q) => IsInjective(t) /\ p \notin Range(t)
    /\ Sorted(q, pri) => /\ Sorted(t, pri)
                         /\ \A o \in Range(t) : pri[o] <= pri[p]

(* dequeue keeps that promise on every list that is not empty.               *)
LEMMA DequeueProperties ==
  ASSUME NEW P, NEW q \in Seq(P), q # << >>, NEW pri,
         NEW t, t = Tail(q)
  PROVE  Dequeued(P, q, pri, Head(q), t)
<1>2. /\ t \in Seq(P)
      /\ Len(t) = Len(q) - 1
      /\ \A i \in 1 .. Len(t) : t[i] = q[i + 1]
      /\ Head(q) \in P
  BY HeadTailProperties
<1>3. /\ Len(q) \in Nat
      /\ Len(q) > 0
      /\ DOMAIN q = 1 .. Len(q)
      /\ DOMAIN t = 1 .. Len(q) - 1
      /\ Head(q) = q[1]
  BY <1>2, EmptySeq
<1>4. \A i \in 1 .. Len(q) - 1 : t[i] = q[i + 1] /\ i + 1 \in 1 .. Len(q)
  BY <1>2, <1>3
<1>5. \A i \in 1 .. Len(q) : i # 1 => /\ i - 1 \in 1 .. Len(q) - 1
                                     /\ q[i] = t[i - 1]
  BY <1>3, <1>4
<1>6. Range(q) = Range(t) \cup {Head(q)}
  <2>1. ASSUME NEW x \in Range(q) PROVE x \in Range(t) \cup {Head(q)}
    <3>1. PICK i \in 1 .. Len(q) : q[i] = x
      BY <1>3 DEF Range
    <3>2. CASE i = 1
      BY <1>3, <3>1, <3>2
    <3>3. CASE i # 1
      <4>1. i - 1 \in DOMAIN t /\ t[i - 1] = x
        BY <1>3, <1>5, <3>1, <3>3
      <4> QED
        BY <4>1 DEF Range
    <3> QED
      BY <3>2, <3>3
  <2>2. \A x \in Range(t) : x \in Range(q)
    BY <1>3, <1>4 DEF Range
  <2>3. Head(q) \in Range(q)
    BY <1>3 DEF Range
  <2> QED
    BY <2>1, <2>2, <2>3
<1>7. ASSUME IsInjective(q) PROVE IsInjective(t) /\ Head(q) \notin Range(t)
  <2>1. \A i, j \in 1 .. Len(q) : q[i] = q[j] => i = j
    BY <1>3, <1>7 DEF IsInjective
  <2>2. \A i, j \in 1 .. Len(q) - 1 : t[i] = t[j] => i = j
    BY <1>3, <1>4, <2>1
  <2>3. \A i \in 1 .. Len(q) - 1 : t[i] # q[1]
    BY <1>3, <1>4, <2>1
  <2> QED
    BY <1>3, <2>2, <2>3 DEF IsInjective, Range
<1>8. ASSUME Sorted(q, pri)
      PROVE  Sorted(t, pri) /\ \A p \in Range(t) : pri[p] <= pri[Head(q)]
  <2>1. \A i, j \in 1 .. Len(q) : i < j => pri[q[j]] <= pri[q[i]]
    BY <1>8 DEF Sorted
  <2>2. \A i, j \in 1 .. Len(t) : i < j => pri[t[j]] <= pri[t[i]]
    BY <1>2, <1>3, <1>4, <2>1
  <2>3. \A i \in 1 .. Len(q) - 1 : pri[t[i]] <= pri[q[1]]
    BY <1>3, <1>4, <2>1
  <2> QED
    BY <1>3, <2>2, <2>3 DEF Sorted, Range
<1> QED
  BY <1>2, <1>6, <1>7, <1>8 DEF Dequeued

(* The loop of EnqueueAll after i turns, f[i] being the list it builds.       *)
IsRun(f, n, q, s, S, pri) ==
    /\ f[0] = q
    /\ \A i \in 1 .. n :
           f[i] = IF s[i] \in S THEN enqueue(f[i - 1], s[i], pri) ELSE f[i - 1]

(* The loop runs to the end of the list whatever its length.                 *)
LEMMA RunExists ==
  ASSUME NEW P, NEW q \in Seq(P), NEW s \in Seq(P), NEW S, NEW pri \in [P -> Int],
         NEW n \in 0 .. Len(s)
  PROVE  \E f \in [0 .. n -> Seq(P)] : IsRun(f, n, q, s, S, pri)
<1> DEFINE Stuck == {m \in 0 .. Len(s) :
                       ~ \E f \in [0 .. m -> Seq(P)] : IsRun(f, m, q, s, S, pri)}
<1> SUFFICES ASSUME Stuck # {} PROVE FALSE
  OBVIOUS
<1>1. PICK m \in Stuck : \A j \in Stuck : m <= j
  <2>1. Stuck \subseteq Nat
    OBVIOUS
  <2> HIDE DEF Stuck
  <2> QED
    BY <2>1, LeastNat
<1>2. m \in 0 .. Len(s)
  OBVIOUS
<1>3. m # 0
  <2> SUFFICES ASSUME m = 0 PROVE FALSE
    OBVIOUS
  <2> DEFINE f == [i \in 0 .. 0 |-> q]
  <2>1. f \in [0 .. m -> Seq(P)] /\ IsRun(f, m, q, s, S, pri)
    BY DEF IsRun
  <2> QED
    BY <2>1
<1>4. m - 1 \in 0 .. Len(s) /\ m - 1 \notin Stuck
  <2>1. m - 1 \in 0 .. Len(s) /\ ~(m <= m - 1)
    BY <1>2, <1>3
  <2> HIDE DEF Stuck
  <2> QED
    BY <1>1, <2>1
<1>5. PICK g \in [0 .. m - 1 -> Seq(P)] : IsRun(g, m - 1, q, s, S, pri)
  BY <1>4
<1>6. m \in 1 .. Len(s) /\ s[m] \in P /\ g[m - 1] \in Seq(P)
  BY <1>2, <1>3
<1>7. PICK last \in Seq(P) :
         last = IF s[m] \in S THEN enqueue(g[m - 1], s[m], pri) ELSE g[m - 1]
  <2>1. PICK x \in Seq(P), p \in P : x = g[m - 1] /\ p = s[m]
    BY <1>6
  <2>2. PICK r : r = enqueue(x, p, pri)
    OBVIOUS
  <2>3. r \in Seq(P)
    BY <2>2, EnqueueProperties DEF Enqueued
  <2> QED
    BY <2>1, <2>2, <2>3
<1>8. PICK h : h = [i \in 0 .. m |-> IF i < m THEN g[i] ELSE last]
  OBVIOUS
<1>9. h \in [0 .. m -> Seq(P)]
  BY <1>6, <1>8
<1>10. \A i \in 0 .. m - 1 : h[i] = g[i]
  BY <1>6, <1>8
<1>11. h[m] = last
  BY <1>6, <1>8
<1>12. ASSUME NEW i \in 1 .. m
       PROVE  h[i] = IF s[i] \in S THEN enqueue(h[i - 1], s[i], pri) ELSE h[i - 1]
  <2>1. i - 1 \in 0 .. m - 1 /\ h[i - 1] = g[i - 1]
    BY SMTT(30), <1>6, <1>10
  <2>2. CASE i = m
    BY <1>7, <1>11, <2>1, <2>2
  <2>3. CASE i < m
    <3>1. i \in 1 .. m - 1 /\ h[i] = g[i]
      BY SMTT(30), <1>6, <1>10, <2>3
    <3>2. g[i] = IF s[i] \in S THEN enqueue(g[i - 1], s[i], pri) ELSE g[i - 1]
      BY <1>5, <3>1 DEF IsRun
    <3> QED
      BY <2>1, <3>1, <3>2
  <2> QED
    BY <1>6, <2>2, <2>3
<1>13. IsRun(h, m, q, s, S, pri)
  <2>1. 0 \in 0 .. m - 1
    BY <1>6
  <2>2. h[0] = q
    BY <1>5, <1>10, <2>1 DEF IsRun
  <2> QED
    BY <1>12, <2>2 DEF IsRun
<1> QED
  BY <1>9, <1>13

(* EnqueueAll is where its loop ends.                                        *)
LEMMA EnqueueAllIsARun ==
  ASSUME NEW P, NEW q \in Seq(P), NEW s \in Seq(P), NEW S, NEW pri \in [P -> Int]
  PROVE  \E f : /\ IsRun(f, Len(s), q, s, S, pri)
               /\ EnqueueAll(q, s, S, pri) = f[Len(s)]
<1> DEFINE Turn(f, i) == IF i = 0 THEN q
                         ELSE IF s[i] \in S THEN enqueue(f[i - 1], s[i], pri)
                         ELSE f[i - 1]
<1> DEFINE run == CHOOSE f : f = [i \in 0 .. Len(s) |-> Turn(f, i)]
<1>1. Len(s) \in Nat /\ Len(s) \in 0 .. Len(s)
  OBVIOUS
<1>2. PICK g \in [0 .. Len(s) -> Seq(P)] : IsRun(g, Len(s), q, s, S, pri)
  BY <1>1, RunExists
<1>3. g = [i \in 0 .. Len(s) |-> Turn(g, i)]
  <2> SUFFICES ASSUME NEW i \in 0 .. Len(s) PROVE g[i] = Turn(g, i)
    OBVIOUS
  <2>1. CASE i = 0
    BY <1>2, <2>1 DEF IsRun
  <2>2. CASE i # 0
    BY <1>1, <1>2, <2>2 DEF IsRun
  <2> QED
    BY <2>1, <2>2
<1>4. run = [i \in 0 .. Len(s) |-> Turn(run, i)]
  <2> HIDE DEF Turn
  <2> QED
    BY <1>3
<1>5. EnqueueAll(q, s, S, pri) = run[Len(s)]
  BY DEF EnqueueAll
<1> HIDE DEF run
<1>6. \A i \in 0 .. Len(s) : run[i] = Turn(run, i)
  <2> HIDE DEF Turn
  <2> QED
    BY <1>4
<1>7. IsRun(run, Len(s), q, s, S, pri)
  <2>1. run[0] = q
    BY <1>1, <1>6
  <2>2. ASSUME NEW i \in 1 .. Len(s)
        PROVE  run[i] = IF s[i] \in S THEN enqueue(run[i - 1], s[i], pri)
                        ELSE run[i - 1]
    <3>1. i \in 0 .. Len(s) /\ i # 0
      BY <1>1
    <3> QED
      BY <1>6, <3>1
  <2> QED
    BY <2>1, <2>2 DEF IsRun
<1> QED
  BY <1>5, <1>7

(* What a loop that moves the processes of s that are in S over to q         *)
(* promises: each of them is moved once and no other is, and a sorted list   *)
(* stays sorted.                                                             *)
AllEnqueued(P, q, s, S, pri, r) ==
    /\ r \in Seq(P)
    /\ Range(r) = Range(q) \cup (Range(s) \cap S)
    /\ /\ IsInjective(q)
       /\ IsInjective(s)
       /\ Range(q) \cap (Range(s) \cap S) = {}
       => IsInjective(r)
    /\ Sorted(q, pri) => Sorted(r, pri)

(* The loop keeps that promise, for lists of every length.                   *)
LEMMA EnqueueAllProperties ==
  ASSUME NEW P, NEW q \in Seq(P), NEW s \in Seq(P), NEW S, NEW pri \in [P -> Int],
         NEW r, r = EnqueueAll(q, s, S, pri)
  PROVE  AllEnqueued(P, q, s, S, pri, r)
<1>1. PICK f : /\ IsRun(f, Len(s), q, s, S, pri)
               /\ r = f[Len(s)]
  BY EnqueueAllIsARun
<1>2. /\ Len(s) \in Nat
      /\ DOMAIN s = 1 .. Len(s)
      /\ \A i \in 1 .. Len(s) : s[i] \in P
  OBVIOUS
<1> DEFINE Moved(i) == {s[j] : j \in 1 .. i} \cap S
           Distinct == /\ IsInjective(q)
                       /\ IsInjective(s)
                       /\ Range(q) \cap (Range(s) \cap S) = {}
           Good(i) == /\ f[i] \in Seq(P)
                      /\ Range(f[i]) = Range(q) \cup Moved(i)
                      /\ Distinct => IsInjective(f[i])
                      /\ Sorted(q, pri) => Sorted(f[i], pri)
           Bad == {i \in 0 .. Len(s) : ~Good(i)}
<1>3. Good(0)
  <2>1. f[0] = q /\ Moved(0) = {}
    BY <1>1 DEF IsRun
  <2> QED
    BY <2>1
<1>4. ASSUME NEW i \in 1 .. Len(s), Good(i - 1)
      PROVE  Good(i)
  <2>1. Moved(i) = Moved(i - 1) \cup ({s[i]} \cap S)
    <3>1. 1 .. i = (1 .. i - 1) \cup {i}
      OBVIOUS
    <3> QED
      BY <3>1
  <2>2. PICK x \in Seq(P), p \in P : x = f[i - 1] /\ p = s[i]
    BY <1>2, <1>4
  <2>3. f[i] = IF p \in S THEN enqueue(x, p, pri) ELSE x
    BY <1>1, <2>2 DEF IsRun
  <2>4. CASE p \notin S
    BY <1>4, <2>1, <2>2, <2>3, <2>4
  <2>5. CASE p \in S
    <3>1. PICK y : y = enqueue(x, p, pri)
      OBVIOUS
    <3>2. /\ y \in Seq(P)
          /\ Range(y) = Range(x) \cup {p}
          /\ IsInjective(x) /\ p \notin Range(x) => IsInjective(y)
          /\ Sorted(x, pri) => Sorted(y, pri)
      <4>1. Enqueued(P, x, p, pri, y)
        BY <3>1, EnqueueProperties
      <4> QED
        BY <4>1 DEF Enqueued
    <3>3. f[i] = y /\ Moved(i) = Moved(i - 1) \cup {p}
      BY <2>1, <2>2, <2>3, <2>5, <3>1
    <3>4. Distinct => p \notin Range(x)
      <4> SUFFICES ASSUME Distinct, p \in Range(x) PROVE FALSE
        OBVIOUS
      <4>1. p \in Range(s) \cap S
        BY <1>2, <2>2, <2>5 DEF Range
      <4>2. p \in Moved(i - 1)
        BY <1>4, <2>2, <4>1
      <4>3. PICK j \in 1 .. i - 1 : s[j] = s[i]
        BY <2>2, <4>2
      <4>4. j \in 1 .. Len(s) /\ j # i
        OBVIOUS
      <4> QED
        BY <1>2, <4>3, <4>4 DEF IsInjective
    <3> HIDE DEF Moved, Distinct
    <3> QED
      BY <1>4, <2>2, <3>2, <3>3, <3>4
  <2> QED
    BY <2>4, <2>5
<1>5. Bad = {}
  <2> SUFFICES ASSUME Bad # {} PROVE FALSE
    OBVIOUS
  <2> HIDE DEF Good
  <2>1. PICK i \in Bad : \A j \in Bad : i <= j
    <3>1. Bad \subseteq Nat
      OBVIOUS
    <3> HIDE DEF Bad
    <3> QED
      BY <3>1, LeastNat
  <2>2. i \in 1 .. Len(s)
    BY <1>2, <1>3
  <2>3. i - 1 \in 0 .. Len(s) /\ ~(i <= i - 1)
    BY <2>2
  <2>4. Good(i - 1)
    BY <2>1, <2>3
  <2> QED
    BY <1>4, <2>2, <2>4
<1>6. Good(Len(s))
  <2> HIDE DEF Good
  <2> QED
    BY SMTT(30), <1>2, <1>5
<1>7. Moved(Len(s)) = Range(s) \cap S
  BY <1>2 DEF Range
<1> QED
  BY <1>1, <1>6, <1>7 DEF AllEnqueued

(* put_proc adds one process to the free list and loses none.                *)
LEMMA PutProcProperties ==
  ASSUME NEW P, NEW list \in Seq(P), NEW p \in P, NEW r, r = put_proc(list, p)
  PROVE  /\ r \in Seq(P)
         /\ Range(r) = Range(list) \cup {p}
         /\ IsInjective(list) /\ p \notin Range(list) => IsInjective(r)
<1>1. PICK h : h = <<p>>
  OBVIOUS
<1>2. h \in Seq(P) /\ Len(h) = 1 /\ h[1] = p
  BY <1>1
<1>3. /\ r \in Seq(P)
      /\ Len(r) = 1 + Len(list)
      /\ \A i \in 1 .. 1 + Len(list) : r[i] = IF i <= 1 THEN h[i] ELSE list[i - 1]
  BY <1>1, <1>2, ConcatProperties DEF put_proc
<1>4. /\ Len(list) \in Nat
      /\ DOMAIN list = 1 .. Len(list)
      /\ DOMAIN r = 1 .. 1 + Len(list)
      /\ r[1] = p
  BY <1>2, <1>3
<1>5. \A i \in 1 .. 1 + Len(list) : i # 1 => /\ i - 1 \in 1 .. Len(list)
                                             /\ r[i] = list[i - 1]
  BY <1>3, <1>4
<1>6. \A i \in 1 .. Len(list) : /\ i + 1 \in 1 .. 1 + Len(list)
                                /\ r[i + 1] = list[i]
  <2> TAKE i \in 1 .. Len(list)
  <2>1. i + 1 \in 1 .. 1 + Len(list) /\ i + 1 # 1 /\ (i + 1) - 1 = i
    BY <1>4
  <2> QED
    BY <1>5, <2>1
<1>7. Range(r) = Range(list) \cup {p}
  <2>1. \A x \in Range(r) : x \in Range(list) \cup {p}
    BY <1>4, <1>5 DEF Range
  <2>2. \A x \in Range(list) : x \in Range(r)
    BY <1>4, <1>6 DEF Range
  <2>3. p \in Range(r)
    BY <1>4 DEF Range
  <2> QED
    BY <2>1, <2>2, <2>3
<1>8. ASSUME IsInjective(list), p \notin Range(list) PROVE IsInjective(r)
  <2>1. \A i \in 1 .. Len(list) : list[i] # p
    BY <1>4, <1>8 DEF Range
  <2>2. \A i, j \in 1 .. Len(list) : list[i] = list[j] => i = j
    BY <1>4, <1>8 DEF IsInjective
  <2>3. \A i, j \in 1 .. 1 + Len(list) : r[i] = r[j] => i = j
    BY <1>4, <1>5, <2>1, <2>2
  <2> QED
    BY <1>4, <2>3 DEF IsInjective
<1> QED
  BY <1>3, <1>7, <1>8


-----------------------------------------------------------------------------

(* The proofs are about the scheduler of 2-tswitch, which tests RUNNING; with *)
(* that of 3-syscalls, which tests READY, the machine does run dry.           *)
ASSUME TestsRunning == Runs = "RUNNING"

USE ProcKernelAssumption, TestsRunning DEF NULL

(* A status and a ready queue with which tswitch may be called.              *)
MaySwitch(st, rq) ==
    /\ st \in [Procs -> Statuses]
    /\ rq \in Seq(Procs)
    /\ IsInjective(rq)
    /\ \A p \in Procs : p \in Range(rq) <=> st[p] = "READY"
    /\ Sorted(rq, priority)
    /\ \A p \in Procs : st[p] = "RUNNING" => p = running
    /\ st[0] \in {"RUNNING", "READY"}

(* What tswitch leaves behind when it is called with statuses st.            *)
Switched(st) ==
    /\ running' \in Procs
    /\ status' \in [Procs -> Statuses]
    /\ readyQueue' \in Seq(Procs)
    /\ rflag' = 0
    /\ IsInjective(readyQueue')
    /\ \A p \in Procs : p \in Range(readyQueue') <=> status'[p] = "READY"
    /\ Sorted(readyQueue', priority)
    /\ \A p \in Range(readyQueue') : priority[p] <= priority[running']
    /\ \A p \in Procs : status'[p] = "RUNNING" <=> p = running'
    /\ \A p \in Procs : IF st[p] \in {"RUNNING", "READY"}
                        THEN status'[p] \in {"RUNNING", "READY"}
                        ELSE status'[p] = st[p]

(* scheduler never runs out of processes, and loses none.                    *)
LEMMA SchedulerSwitches ==
  ASSUME NEW st, NEW rq, MaySwitch(st, rq), scheduler(st, rq),
         running \in Procs, priority \in [Procs -> Int]
  PROVE  Switched(st)
<1> DEFINE ready == IF CanGoOn(st) THEN enqueue(rq, running, priority) ELSE rq
           left == IF CanGoOn(st) THEN [st EXCEPT ![running] = "READY"] ELSE st
<1>1. /\ ready \in Seq(Procs)
      /\ IsInjective(ready)
      /\ Sorted(ready, priority)
      /\ \A p \in Procs : p \in Range(ready) <=> left[p] = "READY"
      /\ left \in [Procs -> Statuses]
  <2>1. CASE CanGoOn(st)
    <3>1. PICK r : r = enqueue(rq, running, priority)
      OBVIOUS
    <3>2. Enqueued(Procs, rq, running, priority, r)
      BY <3>1, EnqueueProperties DEF MaySwitch
    <3>3. st[running] = "RUNNING" /\ running \notin Range(rq)
      BY <2>1 DEF CanGoOn, MaySwitch
    <3>4. ready = r /\ left = [st EXCEPT ![running] = "READY"]
      BY <2>1, <3>1
    <3>5. left \in [Procs -> Statuses]
      BY <3>4 DEF MaySwitch, Statuses
    <3>6. /\ r \in Seq(Procs) /\ IsInjective(r) /\ Sorted(r, priority)
          /\ Range(r) = Range(rq) \cup {running}
      BY <3>2, <3>3 DEF Enqueued, MaySwitch
    <3>7. \A p \in Procs : p \in Range(r) <=> left[p] = "READY"
      BY <3>4, <3>6 DEF MaySwitch
    <3> QED
      BY <3>4, <3>5, <3>6, <3>7
  <2>2. CASE ~CanGoOn(st)
    BY <2>2 DEF MaySwitch
  <2> QED
    BY <2>1, <2>2
<1>2. \A p \in Procs : left[p] # "RUNNING"
  BY DEF MaySwitch, CanGoOn
<1>3. \A p \in Procs : IF st[p] \in {"RUNNING", "READY"}
                       THEN left[p] = "READY" ELSE left[p] = st[p]
  BY DEF MaySwitch, CanGoOn
<1>4. 0 \in Procs /\ left[0] = "READY"
  BY <1>3 DEF MaySwitch, Procs
<1>5. ready # << >>
  <2>1. 0 \in Range(ready)
    BY <1>1, <1>4
  <2> HIDE DEF ready
  <2>2. Range(<< >>) = {}
    BY DEF Range
  <2> QED
    BY <2>1, <2>2
<1>6. /\ rflag' = 0
      /\ running' = Head(ready)
      /\ readyQueue' = Tail(ready)
      /\ status' = [left EXCEPT ![running'] = "RUNNING"]
  BY <1>5 DEF scheduler, dequeue
<1> HIDE DEF ready, left
<1>7. Dequeued(Procs, ready, priority, running', readyQueue')
  BY <1>1, <1>5, <1>6, DequeueProperties
<1>8. /\ running' \in Procs
      /\ readyQueue' \in Seq(Procs)
      /\ Range(ready) = Range(readyQueue') \cup {running'}
      /\ IsInjective(readyQueue')
      /\ running' \notin Range(readyQueue')
      /\ Sorted(readyQueue', priority)
      /\ \A p \in Range(readyQueue') : priority[p] <= priority[running']
  BY <1>1, <1>7 DEF Dequeued
<1>9. status' \in [Procs -> Statuses]
  BY <1>1, <1>6, <1>8 DEF Statuses
<1>10. \A p \in Procs : status'[p] = IF p = running' THEN "RUNNING" ELSE left[p]
  BY <1>1, <1>6, <1>8
<1>11. left[running'] = "READY"
  BY <1>1, <1>8
<1>12. \A p \in Procs : p \in Range(readyQueue') <=> status'[p] = "READY"
  BY <1>1, <1>8, <1>10
<1>13. \A p \in Procs : status'[p] = "RUNNING" <=> p = running'
  BY <1>2, <1>10
<1>14. \A p \in Procs : IF st[p] \in {"RUNNING", "READY"}
                        THEN status'[p] \in {"RUNNING", "READY"}
                        ELSE status'[p] = st[p]
  BY <1>3, <1>10, <1>11
<1> QED
  BY <1>6, <1>8, <1>9, <1>12, <1>13, <1>14 DEF Switched

-----------------------------------------------------------------------------
(* The inductive invariant: what the runs check, and that P0 is never at the *)
(* prompt of body, so that nothing that is typed can stop or end it.  KInv   *)
(* is the part of it that holds in any kernel of the course, where interrupts *)
(* may wake somebody while P0 has the machine; with no interrupts P0 has it  *)
(* only when all is Halted, and IdleMeansHalt is Priorities and Halted.      *)
Priorities ==
    /\ priority[0] = 0
    /\ \A p \in Procs \ {0} : status[p] # "FREE" => priority[p] >= 1

(* When P0 has the machine back, nobody else can run.                        *)
Halted == running = 0 /\ pc[0] = "tswitch" => readyQueue = << >>

KInv ==
    /\ TypeOK
    /\ SchedulerFindsAProcess
    /\ ListsMatchStatus
    /\ ReadyQueueSorted
    /\ Priorities
    /\ NprocCounts
    /\ pc[0] \notin {"body", "kwait"}

IInv == KInv /\ Halted

(* Statuses st and lists fl, rq and sl that agree with each other.           *)
Kept(st, pri, fl, rq, sl) ==
    /\ st \in [Procs -> Statuses]
    /\ pri \in [Procs -> Int]
    /\ fl \in Seq(Procs) /\ IsInjective(fl)
    /\ rq \in Seq(Procs) /\ IsInjective(rq)
    /\ sl \in Seq(Procs) /\ IsInjective(sl)
    /\ \A p \in Procs : p \in Range(fl) <=> st[p] = "FREE"
    /\ \A p \in Procs : p \in Range(rq) <=> st[p] = "READY"
    /\ \A p \in Procs : p \in Range(sl) <=> st[p] = "SLEEP"
    /\ Sorted(rq, pri)

Agree == Kept(status, priority, freeList, readyQueue, sleepList)

(* The part of the invariant that is about the other variables.              *)
Sane ==
    /\ running \in Procs
    /\ ppid \in [Procs -> Procs]
    /\ parent \in [Procs -> Procs \cup {NULL}]
    /\ event \in [Procs -> Int]
    /\ exitCode \in [Procs -> Int]
    /\ nproc \in 0 .. NPROC
    /\ rflag \in {0, 1}
    /\ pc \in [Procs -> Places]
    /\ pc[0] \notin {"body", "kwait"}
    /\ \A p \in Procs : status[p] = "RUNNING" <=> p = running
    /\ status[0] \in {"RUNNING", "READY"}
    /\ NprocCounts
    /\ Priorities

(* A list of processes holds processes only.                                 *)
LEMMA RangeOfProcs ==
  ASSUME NEW s \in Seq(Procs)
  PROVE  Range(s) \subseteq Procs
BY DEF Range

(* The invariant in the two halves in which the steps are looked at.         *)
LEMMA TwoHalves == KInv <=> Sane /\ Agree
<1>1. ASSUME KInv PROVE Sane
  <2>1. 0 \in Procs
    BY DEF Procs
  <2> QED
    BY <1>1, <2>1 DEF KInv, Sane, TypeOK, SchedulerFindsAProcess, ListsMatchStatus, WithStatus
<1>2. ASSUME KInv PROVE Agree
  BY <1>2 DEF KInv, Agree, Kept, TypeOK, ListsMatchStatus, WithStatus, ReadyQueueSorted
<1>3. ASSUME Sane, Agree PROVE KInv
  <2>1. TypeOK
    BY <1>3 DEF Sane, Agree, Kept, TypeOK
  <2>2. /\ Range(freeList) = WithStatus("FREE")
        /\ Range(readyQueue) = WithStatus("READY")
        /\ Range(sleepList) = WithStatus("SLEEP")
        /\ WithStatus("RUNNING") = {running}
    BY <1>3, RangeOfProcs DEF Sane, Agree, Kept, WithStatus
  <2>3. SchedulerFindsAProcess /\ ReadyQueueSorted
    BY <1>3 DEF Sane, Agree, Kept, SchedulerFindsAProcess, ReadyQueueSorted, Procs
  <2> QED
    BY <1>3, <2>1, <2>2, <2>3 DEF Sane, Agree, Kept, KInv, ListsMatchStatus
<1> QED
  BY <1>1, <1>2, <1>3

(* tswitch, called with statuses st that agree with the lists.               *)
LEMMA SwitchedFrom ==
  ASSUME KInv, NEW st, NEW rq, NEW sl,
         Kept(st, priority, freeList, rq, sl),
         \A p \in Procs : st[p] = "RUNNING" => p = running,
         st[0] \in {"RUNNING", "READY"},
         scheduler(st, rq)
  PROVE  /\ running' \in Procs
         /\ \A p \in Procs : IF st[p] \in {"RUNNING", "READY"}
                             THEN status'[p] \in {"RUNNING", "READY"}
                             ELSE status'[p] = st[p]
<1>1. Sane /\ Agree
  BY TwoHalves
<1>2. MaySwitch(st, rq)
  BY DEF Kept, MaySwitch
<1>3. Switched(st)
  BY <1>1, <1>2, SchedulerSwitches DEF Sane, Agree, Kept
<1> QED
  BY <1>3 DEF Switched

(* Whatever else a step does, one that ends in tswitch with lists that agree *)
(* keeps the invariant.                                                      *)
LEMMA SwitchKeeps ==
  ASSUME KInv, NEW st, NEW rq, NEW sl,
         Kept(st, priority, freeList, rq, sl),
         \A p \in Procs : st[p] = "RUNNING" => p = running,
         st[0] \in {"RUNNING", "READY"},
         \A p \in Procs : st[p] = "FREE" <=> status[p] = "FREE",
         scheduler(st, rq),
         sleepList' = sl,
         UNCHANGED <<priority, freeList, nproc>>,
         ppid' \in [Procs -> Procs],
         parent' \in [Procs -> Procs \cup {NULL}],
         event' \in [Procs -> Int],
         exitCode' \in [Procs -> Int],
         pc' \in [Procs -> Places],
         pc'[0] \notin {"body", "kwait"}
  PROVE  KInv' /\ Halted'
<1>1. Sane /\ Agree
  BY TwoHalves
<1>2. Switched(st)
  <2>1. MaySwitch(st, rq)
    BY DEF Kept, MaySwitch
  <2> QED
    BY <1>1, <2>1, SchedulerSwitches DEF Sane, Kept
<1>3. \A p \in Procs : /\ status'[p] = "FREE" <=> st[p] = "FREE"
                       /\ status'[p] = "SLEEP" <=> st[p] = "SLEEP"
  BY <1>2 DEF Switched
<1>4. Agree'
  BY <1>2, <1>3 DEF Switched, Agree, Kept
<1>5. NprocCounts'
  <2>1. {p \in Procs : status'[p] # "FREE"} = {p \in Procs : status[p] # "FREE"}
    BY <1>3
  <2> QED
    BY <1>1, <2>1 DEF Sane, NprocCounts
<1>6. Priorities'
  BY <1>1, <1>3 DEF Sane, Priorities
<1>7. Sane'
  <2>0. 0 \in Procs
    BY DEF Procs
  <2>1. status'[0] \in {"RUNNING", "READY"}
    BY <1>2, <2>0 DEF Switched
  <2> QED
    BY <1>1, <1>2, <1>5, <1>6, <2>1 DEF Sane, Switched
<1>8. ASSUME running' = 0 PROVE readyQueue' = << >>
  <2>1. priority[0] = 0 /\ \A p \in Procs \ {0} : status'[p] # "FREE" => priority[p] >= 1
    BY <1>1, <1>3 DEF Sane, Priorities
  <2>2. ASSUME NEW p \in Range(readyQueue') PROVE FALSE
    <3>1. p \in Procs /\ status'[p] = "READY" /\ p # running'
      BY <1>2, <2>2, RangeOfProcs DEF Switched
    <3>2. priority[p] <= 0 /\ priority[p] >= 1
      BY <1>2, <1>8, <2>1, <2>2, <3>1 DEF Switched
    <3>3. priority[p] \in Int
      BY <1>1, <3>1 DEF Kept
    <3> QED
      BY <3>2, <3>3
  <2>3. readyQueue' \in Seq(Procs)
    BY <1>2 DEF Switched
  <2>4. Len(readyQueue') = 0
    <3>1. ASSUME Len(readyQueue') # 0 PROVE 1 \in DOMAIN readyQueue'
      BY <2>3, <3>1
    <3> QED
      BY <2>2, <3>1 DEF Range
  <2> QED
    BY <2>3, <2>4
<1>9. KInv'
  BY <1>4, <1>7, TwoHalves, PTL
<1> QED
  BY <1>8, <1>9 DEF Halted

(* A step that does not switch keeps the invariant if the statuses and lists *)
(* it leaves agree, the same processes are free and the same one is running. *)
LEMMA StayKeeps ==
  ASSUME KInv, Agree',
         \A p \in Procs : status'[p] = "RUNNING" <=> status[p] = "RUNNING",
         \A p \in Procs : status'[p] = "FREE" <=> status[p] = "FREE",
         status'[0] = status[0],
         \A p \in Procs : priority'[p] # priority[p] => p # 0 /\ priority'[p] >= 1,
         rflag' \in {0, 1},
         pc' \in [Procs -> Places],
         pc'[0] \notin {"body", "kwait"},
         UNCHANGED <<running, ppid, parent, event, exitCode, nproc>>
  PROVE  KInv' /\ (running # 0 => Halted')
<1>1. Sane /\ Agree
  BY TwoHalves
<1>2. NprocCounts'
  <2>1. {p \in Procs : status'[p] # "FREE"} = {p \in Procs : status[p] # "FREE"}
    OBVIOUS
  <2> QED
    BY <1>1, <2>1 DEF Sane, NprocCounts
<1>3. Priorities'
  <2>1. 0 \in Procs
    BY DEF Procs
  <2> QED
    BY <1>1, <2>1 DEF Sane, Priorities
<1>4. Sane'
  BY <1>1, <1>2, <1>3 DEF Sane
<1>5. KInv'
  BY <1>4, TwoHalves, PTL
<1> QED
  BY <1>5 DEF Halted

(* What kwakeup promises of the r that it makes of the statuses and lists l. *)
Woken(l, ev, fl, r) ==
    /\ Kept(r.status, priority, fl, r.ready, r.sleep)
    /\ \A p \in Procs :
          r.status[p] = IF l.status[p] = "SLEEP" /\ event[p] = ev
                        THEN "READY" ELSE l.status[p]

(* kwakeup moves exactly the sleepers it is meant for and mixes up no list.  *)
LEMMA WakeupKeeps ==
  ASSUME NEW l, NEW ev, NEW fl, NEW r, r = kwakeup(l, ev),
         Kept(l.status, priority, fl, l.ready, l.sleep)
  PROVE  Woken(l, ev, fl, r)
<1> DEFINE woken == {p \in Range(l.sleep) : event[p] = ev}
<1>1. /\ r.status = [p \in Procs |-> IF p \in woken THEN "READY" ELSE l.status[p]]
      /\ r.ready = EnqueueAll(l.ready, l.sleep, woken, priority)
      /\ r.sleep = EnqueueAll(<< >>, l.sleep, Range(l.sleep) \ woken, priority)
  BY DEF kwakeup
<1>2. \A p \in Procs : p \in woken <=> l.status[p] = "SLEEP" /\ event[p] = ev
  BY DEF Kept
<1>3. woken \subseteq Range(l.sleep)
  OBVIOUS
<1> HIDE DEF woken
<1>4. AllEnqueued(Procs, l.ready, l.sleep, woken, priority, r.ready)
  BY <1>1, EnqueueAllProperties DEF Kept
<1>5. << >> \in Seq(Procs) /\ IsInjective(<< >>) /\ Range(<< >>) = {}
  BY DEF IsInjective, Range
<1>6. AllEnqueued(Procs, << >>, l.sleep, Range(l.sleep) \ woken, priority, r.sleep)
  BY <1>1, <1>5, EnqueueAllProperties DEF Kept
<1>7. /\ r.ready \in Seq(Procs)
      /\ Range(r.ready) = Range(l.ready) \cup woken
      /\ IsInjective(r.ready)
      /\ Sorted(r.ready, priority)
  <2>1. Range(l.ready) \cap Range(l.sleep) = {}
    BY RangeOfProcs DEF Kept
  <2> QED
    BY <1>3, <1>4, <2>1 DEF AllEnqueued, Kept
<1>8. /\ r.sleep \in Seq(Procs)
      /\ Range(r.sleep) = Range(l.sleep) \ woken
      /\ IsInjective(r.sleep)
  BY <1>5, <1>6 DEF AllEnqueued, Kept
<1>9. \A p \in Procs :
         r.status[p] = IF l.status[p] = "SLEEP" /\ event[p] = ev
                       THEN "READY" ELSE l.status[p]
  BY <1>1, <1>2
<1>10. r.status \in [Procs -> Statuses]
  BY <1>1 DEF Kept, Statuses
<1> QED
  BY <1>2, <1>7, <1>8, <1>9, <1>10 DEF Kept, Woken

(* kfork makes one process out of a free PROC.                               *)
LEMMA KforkKeeps ==
  ASSUME KInv, kfork,
         pc' \in [Procs -> Places],
         pc'[0] \notin {"body", "kwait"}
  PROVE  KInv' /\ (running # 0 \/ pc'[0] # "tswitch" => Halted')
<1>1. Sane /\ Agree
  BY TwoHalves
<1>2. freeList \in Seq(Procs) /\ freeList # << >>
  BY <1>1 DEF Agree, Kept, kfork
<1>3. PICK p : p = Head(freeList)
  OBVIOUS
<1>4. /\ freeList' = Tail(freeList)
      /\ status' = [status EXCEPT ![p] = "READY"]
      /\ priority' = [priority EXCEPT ![p] = 1]
      /\ ppid' = [ppid EXCEPT ![p] = running]
      /\ parent' = [parent EXCEPT ![p] = running]
      /\ readyQueue' = enqueue(readyQueue, p, priority')
      /\ nproc' = nproc + 1
      /\ UNCHANGED <<running, event, exitCode, sleepList, rflag>>
  BY <1>3 DEF kfork, dequeue
<1>5. Dequeued(Procs, freeList, priority, p, freeList')
  BY <1>2, <1>3, <1>4, DequeueProperties
<1>6. /\ p \in Procs
      /\ freeList' \in Seq(Procs)
      /\ Range(freeList) = Range(freeList') \cup {p}
      /\ IsInjective(freeList')
      /\ p \notin Range(freeList')
  BY <1>1, <1>5 DEF Dequeued, Agree, Kept
<1>7. status[p] = "FREE"
  BY <1>1, <1>6 DEF Agree, Kept
<1>8. status' \in [Procs -> Statuses] /\ priority' \in [Procs -> Int]
  BY <1>1, <1>4, <1>6 DEF Agree, Kept, Statuses
<1>9. \A o \in Procs : /\ status'[o] = IF o = p THEN "READY" ELSE status[o]
                       /\ priority'[o] = IF o = p THEN 1 ELSE priority[o]
  BY <1>1, <1>4, <1>6 DEF Agree, Kept
<1>10. p \notin Range(readyQueue)
  BY <1>1, <1>6, <1>7 DEF Agree, Kept
<1>11. Sorted(readyQueue, priority')
  <2>1. \A i \in 1 .. Len(readyQueue) : readyQueue[i] \in Procs \ {p}
    BY <1>1, <1>10 DEF Agree, Kept, Range
  <2>2. \A i \in 1 .. Len(readyQueue) : priority'[readyQueue[i]] = priority[readyQueue[i]]
    BY <1>9, <2>1
  <2> QED
    BY <1>1, <2>2 DEF Agree, Kept, Sorted
<1>12. Enqueued(Procs, readyQueue, p, priority', readyQueue')
  BY <1>1, <1>4, <1>6, <1>8, EnqueueProperties DEF Agree, Kept
<1>13. /\ readyQueue' \in Seq(Procs)
       /\ Range(readyQueue') = Range(readyQueue) \cup {p}
       /\ IsInjective(readyQueue')
       /\ Sorted(readyQueue', priority')
  BY <1>1, <1>10, <1>11, <1>12 DEF Enqueued, Agree, Kept
<1>14. Agree'
  <2>1. \A o \in Procs : o \in Range(readyQueue') <=> status'[o] = "READY"
    BY <1>1, <1>9, <1>13 DEF Agree, Kept
  <2>2. \A o \in Procs : o \in Range(freeList') <=> status'[o] = "FREE"
    BY <1>1, <1>6, <1>9 DEF Agree, Kept
  <2>3. \A o \in Procs : o \in Range(sleepList') <=> status'[o] = "SLEEP"
    BY <1>1, <1>4, <1>7, <1>9 DEF Agree, Kept
  <2> QED
    BY <1>1, <1>4, <1>6, <1>8, <1>13, <2>1, <2>2, <2>3 DEF Agree, Kept
<1>15. NprocCounts' /\ nproc' \in 0 .. NPROC
  <2> DEFINE U == {o \in Procs : status[o] # "FREE"}
             V == {o \in Procs : status'[o] # "FREE"}
  <2>1. IsFiniteSet(Procs) /\ Cardinality(Procs) = NPROC
    BY FS_Interval DEF Procs
  <2>2. U \subseteq Procs /\ V \subseteq Procs /\ p \notin U
    BY <1>7
  <2>3. V = U \cup {p}
    BY <1>6, <1>7, <1>9
  <2>4. IsFiniteSet(U)
    BY <2>1, <2>2, FS_Subset
  <2>5. Cardinality(V) = Cardinality(U) + 1
    BY <2>2, <2>3, <2>4, FS_AddElement
  <2>6. Cardinality(V) <= NPROC /\ Cardinality(V) \in Nat
    BY <2>1, <2>2, FS_Subset, FS_CardinalityType
  <2>7. nproc = Cardinality(U)
    BY <1>1 DEF Sane, NprocCounts
  <2>8. nproc' = Cardinality(V)
    BY <1>4, <2>5, <2>7
  <2> QED
    BY <2>6, <2>8 DEF NprocCounts
<1>16. p # 0 /\ 0 \in Procs
  BY <1>1, <1>7 DEF Sane, Procs
<1>17. Priorities'
  BY <1>1, <1>4, <1>9, <1>16 DEF Sane, Priorities
<1>18. /\ ppid' \in [Procs -> Procs]
       /\ parent' \in [Procs -> Procs \cup {NULL}]
  BY <1>1, <1>4, <1>6 DEF Sane
<1>19. /\ \A o \in Procs : status'[o] = "RUNNING" <=> o = running'
       /\ status'[0] \in {"RUNNING", "READY"}
  BY <1>1, <1>4, <1>7, <1>9, <1>16 DEF Sane
<1>20. Sane'
  BY <1>1, <1>4, <1>15, <1>17, <1>18, <1>19 DEF Sane
<1>21. KInv'
  BY <1>14, <1>20, TwoHalves, PTL
<1> QED
  BY <1>4, <1>21 DEF Halted

(* The first dead child, which kwait lays to rest, is one of the dead.       *)
LEMMA FirstDead ==
  ASSUME Dead(running) # {}
  PROVE  Min(Dead(running)) \in Dead(running)
<1>1. Dead(running) \subseteq Nat
  BY DEF Dead, Children, Procs
<1>2. \E x \in Dead(running) : \A y \in Dead(running) : x <= y
  BY <1>1, LeastNat
<1> QED
  BY <1>2 DEF Min

(* kwait's burial gives the PROC of a dead child back.                       *)
LEMMA LayToRestKeeps ==
  ASSUME KInv, LayToRest, running # 0
  PROVE  KInv' /\ Halted'
<1>1. Sane /\ Agree
  BY TwoHalves
<1>2. PICK c : c = Min(Dead(running))
  OBVIOUS
<1>3. c \in Procs /\ status[c] = "ZOMBIE"
  BY <1>2, FirstDead DEF LayToRest, Dead, Children
<1>4. /\ status' = [status EXCEPT ![c] = "FREE"]
      /\ freeList' = put_proc(freeList, c)
      /\ nproc' = nproc - 1
      /\ pc' = [pc EXCEPT ![running] = "body"]
      /\ UNCHANGED <<running, ppid, parent, priority, event, exitCode,
                     readyQueue, sleepList, rflag>>
  BY <1>2 DEF LayToRest, Release
<1>5. \A o \in Procs : status'[o] = IF o = c THEN "FREE" ELSE status[o]
  BY <1>1, <1>4 DEF Agree, Kept
<1>6. c \notin Range(freeList)
  BY <1>1, <1>3 DEF Agree, Kept
<1>7. /\ freeList' \in Seq(Procs)
      /\ Range(freeList') = Range(freeList) \cup {c}
      /\ IsInjective(freeList')
  BY SMTT(30), <1>1, <1>3, <1>4, <1>6, PutProcProperties DEF Agree, Kept
<1>8. Agree'
  <2>1. status' \in [Procs -> Statuses]
    BY <1>1, <1>3, <1>4 DEF Agree, Kept, Statuses
  <2>2. \A o \in Procs : /\ o \in Range(freeList') <=> status'[o] = "FREE"
                         /\ o \in Range(readyQueue') <=> status'[o] = "READY"
                         /\ o \in Range(sleepList') <=> status'[o] = "SLEEP"
    BY <1>1, <1>3, <1>4, <1>5, <1>7 DEF Agree, Kept
  <2> QED
    BY <1>1, <1>4, <1>7, <2>1, <2>2 DEF Agree, Kept
<1>9. NprocCounts' /\ nproc' \in 0 .. NPROC
  <2> DEFINE U == {o \in Procs : status[o] # "FREE"}
             V == {o \in Procs : status'[o] # "FREE"}
  <2>1. IsFiniteSet(Procs)
    BY FS_Interval DEF Procs
  <2>2. IsFiniteSet(U)
    BY <2>1, FS_Subset
  <2>3. V = U \ {c} /\ c \in U
    BY <1>3, <1>5
  <2>4. Cardinality(V) = Cardinality(U) - 1 /\ IsFiniteSet(V)
    BY <2>2, <2>3, FS_RemoveElement
  <2>5. nproc = Cardinality(U)
    BY <1>1 DEF Sane, NprocCounts
  <2>6. nproc' = Cardinality(V) /\ Cardinality(V) \in Nat
    BY <1>4, <2>4, <2>5, FS_CardinalityType
  <2>7. nproc' \in 0 .. NPROC
    BY <1>1, <1>4, <2>6 DEF Sane
  <2> QED
    BY <2>6, <2>7 DEF NprocCounts
<1>10. 0 \in Procs /\ c # 0
  <2>1. 0 \in Procs
    BY DEF Procs
  <2> QED
    BY <1>1, <1>3, <2>1 DEF Sane
<1>11. Priorities'
  BY <1>1, <1>4, <1>5, <1>10 DEF Sane, Priorities
<1>12. /\ pc' \in [Procs -> Places] /\ pc'[0] \notin {"body", "kwait"}
       /\ \A o \in Procs : status'[o] = "RUNNING" <=> o = running'
       /\ status'[0] \in {"RUNNING", "READY"}
  BY <1>1, <1>3, <1>4, <1>5, <1>10 DEF Sane, Places
<1>13. Sane'
  BY <1>1, <1>4, <1>9, <1>11, <1>12 DEF Sane
<1>14. KInv'
  BY <1>8, <1>13, TwoHalves, PTL
<1> QED
  BY <1>4, <1>14 DEF Halted

(* The lists that ksleep calls tswitch with, the running process on the      *)
(* sleep list.                                                               *)
LEMMA KsleepLists ==
  ASSUME KInv, running # 0,
         NEW st, st = [status EXCEPT ![running] = "SLEEP"],
         NEW sl, sl = enqueue(sleepList, running, priority)
  PROVE  /\ Kept(st, priority, freeList, readyQueue, sl)
         /\ \A p \in Procs : st[p] = IF p = running THEN "SLEEP" ELSE status[p]
         /\ \A p \in Procs : st[p] = "RUNNING" => p = running
         /\ \A p \in Procs : st[p] = "FREE" <=> status[p] = "FREE"
         /\ st[0] \in {"RUNNING", "READY"}
<1>1. Sane /\ Agree
  BY TwoHalves
<1>5. \A p \in Procs : st[p] = IF p = running THEN "SLEEP" ELSE status[p]
  BY <1>1 DEF Agree, Kept
<1>6. status[running] = "RUNNING" /\ running \in Procs
  BY <1>1 DEF Sane
<1>7. Enqueued(Procs, sleepList, running, priority, sl)
  BY <1>1, <1>6, EnqueueProperties DEF Agree, Kept
<1>8. running \notin Range(sleepList)
  BY <1>1, <1>6 DEF Agree, Kept
<1>9. /\ sl \in Seq(Procs) /\ IsInjective(sl)
      /\ Range(sl) = Range(sleepList) \cup {running}
  BY <1>1, <1>7, <1>8 DEF Enqueued, Agree, Kept
<1>10. Kept(st, priority, freeList, readyQueue, sl)
  <2>1. st \in [Procs -> Statuses]
    BY <1>1, <1>6 DEF Agree, Kept, Statuses
  <2>2. \A p \in Procs : /\ p \in Range(freeList) <=> st[p] = "FREE"
                         /\ p \in Range(readyQueue) <=> st[p] = "READY"
                         /\ p \in Range(sl) <=> st[p] = "SLEEP"
    BY <1>1, <1>5, <1>6, <1>9 DEF Agree, Kept
  <2> QED
    BY <1>1, <1>9, <2>1, <2>2 DEF Agree, Kept
<1>11. /\ \A p \in Procs : st[p] = "RUNNING" => p = running
       /\ \A p \in Procs : st[p] = "FREE" <=> status[p] = "FREE"
       /\ st[0] \in {"RUNNING", "READY"}
  <2>1. 0 \in Procs
    BY DEF Procs
  <2> QED
    BY <1>1, <1>5, <1>6, <2>1 DEF Sane
<1> QED
  BY <1>5, <1>10, <1>11

(* ksleep puts the running process on the sleep list before it switches.     *)
LEMMA KsleepKeeps ==
  ASSUME KInv, NEW ev \in Int, ksleep(ev), running # 0,
         UNCHANGED <<ppid, parent, priority, exitCode, freeList, nproc>>,
         pc' \in [Procs -> Places],
         pc'[0] \notin {"body", "kwait"}
  PROVE  KInv' /\ Halted'
<1>1. Sane /\ Agree
  BY TwoHalves
<1>2. PICK st : st = [status EXCEPT ![running] = "SLEEP"]
  OBVIOUS
<1>3. PICK sl : sl = enqueue(sleepList, running, priority)
  OBVIOUS
<1>4. scheduler(st, readyQueue) /\ sleepList' = sl
      /\ event' = [event EXCEPT ![running] = ev]
  BY <1>2, <1>3 DEF ksleep
<1>5. /\ Kept(st, priority, freeList, readyQueue, sl)
      /\ \A p \in Procs : st[p] = "RUNNING" => p = running
      /\ \A p \in Procs : st[p] = "FREE" <=> status[p] = "FREE"
      /\ st[0] \in {"RUNNING", "READY"}
  BY <1>2, <1>3, KsleepLists
<1>6. /\ ppid' \in [Procs -> Procs]
      /\ parent' \in [Procs -> Procs \cup {NULL}]
      /\ event' \in [Procs -> Int]
      /\ exitCode' \in [Procs -> Int]
  BY <1>1, <1>4 DEF Sane
<1> QED
  BY <1>4, <1>5, <1>6, SwitchKeeps

(* The lists that kexit calls tswitch with: the running process is dead and  *)
(* some sleepers are awake.                                                  *)
LEMMA KexitLists ==
  ASSUME KInv, running # 0,
         NEW l, l = WakeParents([Lists EXCEPT !.status[running] = "ZOMBIE"])
  PROVE  /\ Kept(l.status, priority, freeList, l.ready, l.sleep)
         /\ \A p \in Procs : l.status[p] =
                IF p = running THEN "ZOMBIE"
                ELSE IF /\ status[p] = "SLEEP"
                        /\ event[p] \in {Address(parent[running]), Address(1)}
                THEN "READY" ELSE status[p]
         /\ \A p \in Procs : l.status[p] = "RUNNING" => p = running
         /\ \A p \in Procs : l.status[p] = "FREE" <=> status[p] = "FREE"
         /\ l.status[0] \in {"RUNNING", "READY"}
<1>1. Sane /\ Agree
  BY TwoHalves
<1>2. status[running] = "RUNNING" /\ running \in Procs
  BY <1>1 DEF Sane
<1>3. PICK dying : dying = [Lists EXCEPT !.status[running] = "ZOMBIE"]
  OBVIOUS
<1>4. /\ dying.ready = readyQueue /\ dying.sleep = sleepList
      /\ dying.status \in [Procs -> Statuses]
      /\ \A p \in Procs : dying.status[p] = IF p = running THEN "ZOMBIE" ELSE status[p]
  BY <1>1, <1>2, <1>3 DEF Lists, Agree, Kept, Statuses
<1>5. Kept(dying.status, priority, freeList, dying.ready, dying.sleep)
  BY <1>1, <1>2, <1>4 DEF Agree, Kept
<1>6. PICK half : half = kwakeup(dying, Address(parent[running]))
  OBVIOUS
<1>7. Woken(dying, Address(parent[running]), freeList, half)
  BY <1>5, <1>6, WakeupKeeps
<1>8. l = kwakeup(half, Address(1))
  BY <1>3, <1>6 DEF WakeParents
<1>9. Woken(half, Address(1), freeList, l)
  <2>1. Kept(half.status, priority, freeList, half.ready, half.sleep)
    BY <1>7 DEF Woken
  <2> QED
    BY <1>8, <2>1, WakeupKeeps
<1>10. /\ Kept(l.status, priority, freeList, l.ready, l.sleep)
       /\ \A p \in Procs : l.status[p] =
             IF p = running THEN "ZOMBIE"
             ELSE IF /\ status[p] = "SLEEP"
                     /\ event[p] \in {Address(parent[running]), Address(1)}
             THEN "READY" ELSE status[p]
  BY <1>4, <1>7, <1>9 DEF Woken
<1>11. 0 \in Procs
  BY DEF Procs
<1> QED
  BY <1>1, <1>2, <1>10, <1>11 DEF Sane

(* kexit: the dying process leaves its children to P1, wakes whoever waits   *)
(* for it and switches for the last time.                                    *)
LEMMA KexitKeeps ==
  ASSUME KInv, NEW value \in Int, kexit(value), running # 0
  PROVE  KInv' /\ Halted'
<1>1. Sane /\ Agree
  BY TwoHalves
<1>2. PICK l : l = WakeParents([Lists EXCEPT !.status[running] = "ZOMBIE"])
  OBVIOUS
<1>3. /\ SendToP1(Orphans(running))
      /\ exitCode' = [exitCode EXCEPT ![running] = value]
      /\ sleepList' = l.sleep
      /\ scheduler(l.status, l.ready)
      /\ UNCHANGED <<priority, event, freeList, nproc, pc>>
  BY <1>2 DEF kexit
<1>4. /\ ppid' \in [Procs -> Procs]
      /\ parent' \in [Procs -> Procs \cup {NULL}]
      /\ exitCode' \in [Procs -> Int]
  <2>1. 1 \in Procs
    BY DEF Procs
  <2> QED
    BY <1>1, <1>3, <2>1 DEF SendToP1, Sane
<1>5. /\ Kept(l.status, priority, freeList, l.ready, l.sleep)
      /\ \A p \in Procs : l.status[p] = "RUNNING" => p = running
      /\ \A p \in Procs : l.status[p] = "FREE" <=> status[p] = "FREE"
      /\ l.status[0] \in {"RUNNING", "READY"}
  BY <1>2, KexitLists
<1>6. event' \in [Procs -> Int] /\ pc' \in [Procs -> Places] /\ pc'[0] \notin {"body", "kwait"}
  BY <1>1, <1>3 DEF Sane
<1> QED
  BY <1>3, <1>4, <1>5, <1>6, SwitchKeeps

(* kwakeup as a command of its own.                                          *)
LEMMA DoWakeupKeeps ==
  ASSUME KInv, NEW ev, DoWakeup(ev), running # 0
  PROVE  KInv' /\ Halted'
<1>1. Sane /\ Agree
  BY TwoHalves
<1>2. PICK r : r = kwakeup(Lists, ev)
  OBVIOUS
<1>3. /\ status' = r.status /\ readyQueue' = r.ready /\ sleepList' = r.sleep
      /\ UNCHANGED <<running, ppid, parent, priority, event, exitCode, freeList,
                     nproc, rflag, pc>>
  BY <1>2 DEF DoWakeup
<1>4. Lists.status = status /\ Lists.ready = readyQueue /\ Lists.sleep = sleepList
  BY DEF Lists
<1>5. /\ Kept(r.status, priority, freeList, r.ready, r.sleep)
      /\ \A p \in Procs : r.status[p] = status[p]
                           \/ (status[p] = "SLEEP" /\ r.status[p] = "READY")
  <2>1. Woken(Lists, ev, freeList, r)
    BY <1>1, <1>2, <1>4, WakeupKeeps DEF Agree
  <2>2. QED
    BY <1>4, <2>1 DEF Woken
<1>6. Agree'
  BY <1>3, <1>5 DEF Agree
<1>7. 0 \in Procs
  BY DEF Procs
<1>8. /\ \A p \in Procs : status'[p] = "RUNNING" <=> status[p] = "RUNNING"
      /\ \A p \in Procs : status'[p] = "FREE" <=> status[p] = "FREE"
      /\ status'[0] = status[0]
  BY <1>1, <1>3, <1>5, <1>7 DEF Sane
<1> QED
  BY <1>1, <1>3, <1>6, <1>8, StayKeeps DEF Sane

(* A stopped process is made ready again.                                    *)
LEMMA DoContinueKeeps ==
  ASSUME KInv, NEW pid \in Int, DoContinue(pid), running # 0
  PROVE  KInv' /\ Halted'
<1>1. Sane /\ Agree
  BY TwoHalves
<1>2. /\ pid \in Procs /\ pid # 0 /\ status[pid] = "STOPPED"
      /\ status' = [status EXCEPT ![pid] = "READY"]
      /\ readyQueue' = enqueue(readyQueue, pid, priority)
      /\ UNCHANGED <<running, ppid, parent, priority, event, exitCode, freeList,
                     sleepList, nproc, rflag, pc>>
  BY DEF DoContinue, Continuable, Procs
<1>3. \A p \in Procs : status'[p] = IF p = pid THEN "READY" ELSE status[p]
  BY <1>1, <1>2 DEF Agree, Kept
<1>4. Enqueued(Procs, readyQueue, pid, priority, readyQueue')
  BY <1>1, <1>2, EnqueueProperties DEF Agree, Kept
<1>5. /\ readyQueue' \in Seq(Procs) /\ IsInjective(readyQueue')
      /\ Range(readyQueue') = Range(readyQueue) \cup {pid}
      /\ Sorted(readyQueue', priority)
  BY <1>1, <1>2, <1>4 DEF Enqueued, Agree, Kept
<1>6. Agree'
  <2>1. status' \in [Procs -> Statuses]
    BY <1>1, <1>2 DEF Agree, Kept, Statuses
  <2> QED
    BY <1>1, <1>2, <1>3, <1>5, <2>1 DEF Agree, Kept
<1>7. 0 \in Procs
  BY DEF Procs
<1> QED
  BY <1>1, <1>2, <1>3, <1>6, <1>7, StayKeeps DEF Sane

(* A new priority leaves the ready queue in order: the running process and   *)
(* one that is not ready are not on it, and for a ready one it is rebuilt.   *)
LEMMA DoChpriorityKeeps ==
  ASSUME KInv, NEW pid \in Int, NEW pri \in Int, DoChpriority(pid, pri), running # 0
  PROVE  KInv' /\ Halted'
<1>1. Sane /\ Agree
  BY TwoHalves
<1>2. pid \in Procs /\ pid # 0
  BY SMTT(30), <1>1 DEF DoChpriority, Sane, Procs
<1>3. PICK new \in Int : new = Clamp(pri) /\ new >= 1
  BY DEF Clamp
<1>4. /\ priority' = [priority EXCEPT ![pid] = new]
      /\ UNCHANGED <<running, status, ppid, parent, event, exitCode, freeList,
                     sleepList, nproc, pc>>
  BY <1>3 DEF DoChpriority
<1>5. /\ priority' \in [Procs -> Int]
      /\ \A p \in Procs : priority'[p] = IF p = pid THEN new ELSE priority[p]
  BY <1>1, <1>2, <1>4 DEF Agree, Kept
<1>6. pid \notin Range(readyQueue) => Sorted(readyQueue, priority')
  <2> SUFFICES ASSUME pid \notin Range(readyQueue) PROVE Sorted(readyQueue, priority')
    OBVIOUS
  <2>1. \A i \in 1 .. Len(readyQueue) : readyQueue[i] \in Procs \ {pid}
    BY <1>1 DEF Agree, Kept, Range
  <2>2. \A i \in 1 .. Len(readyQueue) : priority'[readyQueue[i]] = priority[readyQueue[i]]
    BY <1>5, <2>1
  <2> QED
    BY <1>1, <2>2 DEF Agree, Kept, Sorted
<1>7. /\ readyQueue' \in Seq(Procs) /\ IsInjective(readyQueue')
      /\ Range(readyQueue') = Range(readyQueue)
      /\ Sorted(readyQueue', priority')
      /\ rflag' \in {0, 1}
  <2>1. CASE pid = running
    <3>1. pid \notin Range(readyQueue)
      BY <1>1, <1>2, <2>1 DEF Sane, Agree, Kept
    <3>2. readyQueue' = readyQueue /\ rflag' \in {0, 1}
      BY <1>1, <2>1 DEF DoChpriority, ChangeOwn, Sane
    <3> QED
      BY <1>1, <1>6, <3>1, <3>2 DEF Agree, Kept
  <2>2. CASE pid # running /\ status[pid] = "READY"
    <3>1. reschedule
      BY <2>2 DEF DoChpriority
    <3>2. /\ readyQueue' = EnqueueAll(<< >>, readyQueue, Procs, priority')
          /\ rflag' \in {0, 1}
      BY <3>1 DEF reschedule
    <3>3. /\ << >> \in Seq(Procs) /\ IsInjective(<< >>) /\ Range(<< >>) = {}
          /\ Sorted(<< >>, priority')
      BY DEF IsInjective, Range, Sorted
    <3>4. readyQueue \in Seq(Procs) /\ IsInjective(readyQueue)
      BY <1>1 DEF Agree, Kept
    <3>5. AllEnqueued(Procs, << >>, readyQueue, Procs, priority', readyQueue')
      BY <1>5, <3>2, <3>3, <3>4, EnqueueAllProperties
    <3>6. Range(readyQueue) \cap Procs = Range(readyQueue)
      BY <3>4, RangeOfProcs
    <3> QED
      BY <3>2, <3>3, <3>4, <3>5, <3>6 DEF AllEnqueued
  <2>3. CASE pid # running /\ status[pid] # "READY"
    <3>1. pid \notin Range(readyQueue)
      BY <1>1, <1>2, <2>3 DEF Agree, Kept
    <3>2. readyQueue' = readyQueue /\ rflag' \in {0, 1}
      BY <1>1, <2>3 DEF DoChpriority, Sane
    <3> QED
      BY <1>1, <1>6, <3>1, <3>2 DEF Agree, Kept
  <2> QED
    BY <2>1, <2>2, <2>3
<1>8. Agree'
  BY <1>1, <1>4, <1>5, <1>7 DEF Agree, Kept
<1>9. \A p \in Procs : priority'[p] # priority[p] => p # 0 /\ priority'[p] >= 1
  BY <1>2, <1>3, <1>5
<1> QED
  BY <1>1, <1>4, <1>7, <1>8, <1>9, StayKeeps DEF Sane

-----------------------------------------------------------------------------
(* What init leaves, whoever P0's parent is: P0 runs and every other PROC is *)
(* on the free list.                                                         *)
Fresh ==
    /\ running = 0
    /\ status = [p \in Procs |-> IF p = 0 THEN "RUNNING" ELSE "FREE"]
    /\ ppid = [p \in Procs |-> 0]
    /\ parent \in [Procs -> Procs \cup {NULL}]
    /\ priority = [p \in Procs |-> 0]
    /\ event = [p \in Procs |-> 0]
    /\ exitCode = [p \in Procs |-> 0]
    /\ freeList = [i \in 1 .. NPROC - 1 |-> i]
    /\ readyQueue = << >> /\ sleepList = << >>
    /\ nproc = 1 /\ rflag = 0
    /\ pc = [p \in Procs |-> IF p = 0 THEN "kfork" ELSE "body"]

(* From there the invariant holds.                                           *)
LEMMA FreshIsSound == Fresh => KInv
<1> SUFFICES ASSUME Fresh PROVE KInv
  OBVIOUS
<1>1. 0 \in Procs
  BY DEF Procs
<1>2. freeList \in Seq(Procs) /\ DOMAIN freeList = 1 .. NPROC - 1
  BY DEF Fresh, Procs
<1>3. /\ IsInjective(freeList)
      /\ \A p \in Procs : p \in Range(freeList) <=> p # 0
  BY <1>2 DEF Fresh, IsInjective, Range, Procs
<1>4. Agree
  <2>1. /\ << >> \in Seq(Procs) /\ IsInjective(<< >>) /\ Range(<< >>) = {}
        /\ Sorted(<< >>, priority)
    BY DEF IsInjective, Range, Sorted
  <2>2. \A p \in Procs : status[p] = IF p = 0 THEN "RUNNING" ELSE "FREE"
    BY DEF Fresh
  <2> QED
    BY <1>2, <1>3, <2>1, <2>2 DEF Fresh, Agree, Kept, Statuses
<1>5. NprocCounts
  <2>1. {p \in Procs : status[p] # "FREE"} = {0}
    BY <1>1 DEF Fresh
  <2> QED
    BY <2>1, FS_Singleton DEF Fresh, NprocCounts
<1>6. Sane
  BY <1>1, <1>5 DEF Fresh, Sane, Priorities, Places
<1> QED
  BY <1>4, <1>6, TwoHalves

(* Init is such a state, with nobody for P0's parent.                        *)
LEMMA InitKeeps == Init => KInv /\ Halted
<1> SUFFICES ASSUME Init PROVE Fresh /\ Halted
  BY FreshIsSound
<1> QED
  BY DEF Init, Fresh, Halted

(* Every command of body and every step of main and of a waiting process     *)
(* keeps the invariant.                                                      *)
LEMMA StepKeeps == KInv /\ [Next]_vars => KInv' /\ (Halted => Halted')
<1> SUFFICES ASSUME KInv, [Next]_vars PROVE KInv' /\ (Halted => Halted')
  OBVIOUS
<1>1. Sane /\ Agree
  BY TwoHalves
<1>2. 0 \in Procs /\ status \in [Procs -> Statuses]
  BY <1>1 DEF Agree, Kept, Procs
<1>3. /\ Kept(status, priority, freeList, readyQueue, sleepList)
      /\ \A p \in Procs : status[p] = "RUNNING" => p = running
      /\ status[0] \in {"RUNNING", "READY"}
  BY <1>1 DEF Agree, Sane
<1>4. AtPrompt => running # 0
  BY <1>1 DEF AtPrompt, Sane
<1>5. CASE MainFork
  <2>1. pc' \in [Procs -> Places] /\ pc'[0] = "loop"
    BY <1>1, <1>2, <1>5 DEF MainFork, Sane, Places
  <2> QED
    BY <1>5, <2>1, KforkKeeps DEF MainFork
<1>6. CASE MainSwitch
  <2>1. pc' \in [Procs -> Places] /\ pc'[0] = "tswitch"
    BY <1>1, <1>2, <1>6 DEF MainSwitch, Sane, Places
  <2>2. scheduler(status, readyQueue)
    BY <1>6 DEF MainSwitch
  <2>3. UNCHANGED <<ppid, parent, priority, event, exitCode, freeList, sleepList, nproc>>
    BY <1>6 DEF MainSwitch
  <2>4. /\ ppid' \in [Procs -> Procs]
        /\ parent' \in [Procs -> Procs \cup {NULL}]
        /\ event' \in [Procs -> Int]
        /\ exitCode' \in [Procs -> Int]
    BY <1>1, <2>3 DEF Sane
  <2> QED
    BY <1>3, <2>1, <2>2, <2>3, <2>4, SwitchKeeps
<1>7. CASE DoTswitch
  <2>1. scheduler(status, readyQueue)
    BY <1>7 DEF DoTswitch
  <2>2. UNCHANGED <<ppid, parent, priority, event, exitCode, freeList, sleepList, nproc, pc>>
    BY <1>7 DEF DoTswitch
  <2>3. /\ ppid' \in [Procs -> Procs]
        /\ parent' \in [Procs -> Procs \cup {NULL}]
        /\ event' \in [Procs -> Int]
        /\ exitCode' \in [Procs -> Int]
        /\ pc' \in [Procs -> Places]
        /\ pc'[0] \notin {"body", "kwait"}
    BY <1>1, <2>2 DEF Sane
  <2> QED
    BY <1>3, <2>1, <2>2, <2>3, SwitchKeeps
<1>8. CASE DoKfork
  BY <1>1, <1>4, <1>8, KforkKeeps DEF DoKfork, Sane
<1>9. CASE DoStop
  <2>1. PICK st : st = [status EXCEPT ![running] = "STOPPED"]
    OBVIOUS
  <2>2. scheduler(st, readyQueue)
    BY <1>9, <2>1 DEF DoStop
  <2>3. UNCHANGED <<ppid, parent, priority, event, exitCode, freeList, sleepList, nproc, pc>>
    BY <1>9 DEF DoStop
  <2>4. running # 0 /\ running \in Procs /\ status[running] = "RUNNING"
    BY <1>1, <1>4, <1>9 DEF DoStop, Sane
  <2>5. /\ st \in [Procs -> Statuses]
        /\ \A p \in Procs : st[p] = IF p = running THEN "STOPPED" ELSE status[p]
    BY <1>2, <2>1, <2>4 DEF Statuses
  <2>6. /\ Kept(st, priority, freeList, readyQueue, sleepList)
        /\ \A p \in Procs : st[p] = "RUNNING" => p = running
        /\ st[0] \in {"RUNNING", "READY"}
        /\ \A p \in Procs : st[p] = "FREE" <=> status[p] = "FREE"
    BY <1>2, <1>3, <2>4, <2>5 DEF Kept
  <2>7. /\ ppid' \in [Procs -> Procs]
        /\ parent' \in [Procs -> Procs \cup {NULL}]
        /\ event' \in [Procs -> Int]
        /\ exitCode' \in [Procs -> Int]
        /\ pc' \in [Procs -> Places]
        /\ pc'[0] \notin {"body", "kwait"}
    BY <1>1, <2>3 DEF Sane
  <2> QED
    BY <2>2, <2>3, <2>6, <2>7, SwitchKeeps
<1>10. CASE \E pid \in UserPids : DoContinue(pid)
  BY <1>4, <1>10, DoContinueKeeps DEF DoContinue
<1>11. CASE \E ev \in UserEvents : DoSleep(ev)
  <2>1. PICK ev \in UserEvents : DoSleep(ev)
    BY <1>11
  <2>2. /\ ksleep(ev) /\ running # 0
        /\ UNCHANGED <<ppid, parent, priority, exitCode, freeList, nproc, pc>>
    BY <1>4, <2>1 DEF DoSleep
  <2> QED
    BY <1>1, <2>2, KsleepKeeps DEF Sane
<1>12. CASE \E ev \in UserEvents : DoWakeup(ev)
  BY <1>4, <1>12, DoWakeupKeeps DEF DoWakeup
<1>13. CASE \E pid \in UserPids, pri \in UserPris : DoChpriority(pid, pri)
  BY <1>4, <1>13, DoChpriorityKeeps DEF DoChpriority
<1>14. ASSUME SleepOnSelf, running # 0 PROVE KInv' /\ Halted'
  <2>1. /\ ksleep(Address(running))
        /\ pc' = [pc EXCEPT ![running] = "kwait"]
        /\ UNCHANGED <<ppid, parent, priority, exitCode, freeList, nproc>>
    BY <1>14 DEF SleepOnSelf
  <2>2. Address(running) \in Int
    BY <1>1 DEF Address, Sane, Procs
  <2>3. pc' \in [Procs -> Places] /\ pc'[0] \notin {"body", "kwait"}
    BY <1>1, <1>2, <1>14, <2>1 DEF Sane, Places
  <2> QED
    BY <1>14, <2>1, <2>2, <2>3, KsleepKeeps
<1>15. CASE DoWait \/ WaitAgain
  <2>1. running # 0
    BY <1>1, <1>4, <1>15 DEF DoWait, WaitAgain, Sane
  <2> QED
    BY <1>14, <1>15, <2>1, LayToRestKeeps DEF DoWait, WaitAgain
<1>16. CASE \E value \in ExitValues : DoExit(value)
  BY <1>4, <1>16, KexitKeeps DEF DoExit
<1>17. CASE UNCHANGED vars
  <2>1. Agree' /\ Sane'
    BY <1>1, <1>17 DEF vars, Agree, Sane, NprocCounts, Priorities
  <2>2. KInv'
    BY <2>1, TwoHalves, PTL
  <2> QED
    BY <1>17, <2>2 DEF vars, Halted
<1> QED
  BY <1>5, <1>6, <1>7, <1>8, <1>9, <1>10, <1>11, <1>12, <1>13, <1>15, <1>16, <1>17
     DEF Next, body

(* The part of the invariant that interrupts leave alone, by itself.         *)
LEMMA NextKeeps == KInv /\ [Next]_vars => KInv'
BY StepKeeps

(* The invariant holds in every state the kernel reaches.                    *)
THEOREM Invariance == Spec => []IInv
<1>1. Init => IInv
  BY InitKeeps DEF IInv
<1>2. IInv /\ [Next]_vars => IInv'
  BY StepKeeps DEF IInv
<1> QED
  BY <1>1, <1>2, PTL DEF Spec

(* The part of it that has a use of its own.                                 *)
LEMMA KInvariance == Spec => []KInv
<1>1. IInv => KInv
  BY DEF IInv, KInv
<1> QED
  BY <1>1, Invariance, PTL

(* Every variable stays of its type, for any number of PROCs and any typed   *)
(* events, pids, priorities and exit values.                                 *)
THEOREM TypeCorrect == Spec => []TypeOK
<1>1. IInv => TypeOK
  BY DEF IInv, KInv
<1> QED
  BY <1>1, Invariance, PTL

(* scheduler of t.c, which dequeues without looking, never finds the ready   *)
(* queue empty.                                                              *)
THEOREM SomebodyToRun == Spec => []SchedulerFindsAProcess
<1>1. IInv => SchedulerFindsAProcess
  BY DEF IInv, KInv
<1> QED
  BY <1>1, Invariance, PTL

(* Every PROC is on exactly the list its status names, once: tswitch, ksleep,*)
(* kwakeup, kexit, kwait, kfork, do_continue and chpriority together neither *)
(* lose one nor tie two lists together.                                      *)
THEOREM NoProcLost == Spec => []ListsMatchStatus
<1>1. IInv => ListsMatchStatus
  BY DEF IInv, KInv
<1> QED
  BY <1>1, Invariance, PTL

(* The ready queue is in order of priority whatever is slept on, woken and   *)
(* changed, although the sleep list is not.                                  *)
THEOREM HighestPriorityFirst == Spec => []ReadyQueueSorted
<1>1. IInv => ReadyQueueSorted
  BY DEF IInv, KInv
<1> QED
  BY <1>1, Invariance, PTL

(* P0 gets the machine back only when nobody else can run.                   *)
THEOREM IdleIsHalted == Spec => []IdleMeansHalt
<1>1. IInv => IdleMeansHalt
  BY DEF IInv, KInv, IdleMeansHalt, Priorities, Halted
<1> QED
  BY <1>1, Invariance, PTL

(* nproc, on which do_exit decides whether P1 may go, counts the PROCs that  *)
(* are in use.                                                               *)
THEOREM NprocIsRight == Spec => []NprocCounts
<1>1. IInv => NprocCounts
  BY DEF IInv, KInv
<1> QED
  BY <1>1, Invariance, PTL

-----------------------------------------------------------------------------
(* What a list r owes to those who were on s before: they are still in the   *)
(* same order, and who has come with the same priority is behind them.       *)
TakesTurns(s, r, pri) ==
    /\ \A p, q \in Range(r) : Before(s, p, q) => Before(r, p, q)
    /\ \A p \in Range(s) \cap Range(r), q \in Range(r) :
          q \notin Range(s) /\ pri[q] = pri[p] => Before(r, p, q)

(* A list owes that to itself,                                               *)
LEMMA TurnsStay ==
  ASSUME NEW s, NEW pri
  PROVE  TakesTurns(s, s, pri)
BY DEF TakesTurns

(* and it is owed through steps in which nobody leaves and comes back.       *)
LEMMA TurnsGoOn ==
  ASSUME NEW s, NEW t, NEW r, NEW pri,
         TakesTurns(s, t, pri), TakesTurns(t, r, pri),
         Range(s) \cap Range(r) \subseteq Range(t)
  PROVE  TakesTurns(s, r, pri)
<1>1. ASSUME NEW p \in Range(r), NEW q \in Range(r), Before(s, p, q)
      PROVE  Before(r, p, q)
  <2>1. p \in Range(s) /\ q \in Range(s)
    BY <1>1 DEF Before, Range
  <2>2. p \in Range(t) /\ q \in Range(t)
    BY <2>1
  <2>3. Before(t, p, q)
    BY <1>1, <2>2 DEF TakesTurns
  <2> QED
    BY <2>3 DEF TakesTurns
<1>2. ASSUME NEW p \in Range(s) \cap Range(r), NEW q \in Range(r),
             q \notin Range(s), pri[q] = pri[p]
      PROVE  Before(r, p, q)
  <2>1. p \in Range(t)
    OBVIOUS
  <2>2. CASE q \in Range(t)
    <3>1. Before(t, p, q)
      BY <1>2, <2>1, <2>2 DEF TakesTurns
    <3> QED
      BY <3>1 DEF TakesTurns
  <2>3. CASE q \notin Range(t)
    BY <1>2, <2>1, <2>3 DEF TakesTurns
  <2> QED
    BY <2>2, <2>3
<1> QED
  BY <1>1, <1>2 DEF TakesTurns

(* enqueue puts who comes behind everybody of the same priority.             *)
LEMMA EnqueueTurns ==
  ASSUME NEW P, NEW s \in Seq(P), NEW x \in P, NEW pri \in [P -> Int],
         NEW r, r = enqueue(s, x, pri),
         x \notin Range(s), Sorted(s, pri)
  PROVE  TakesTurns(s, r, pri)
<1>1. PICK k \in 1 .. Len(s) + 1 : Placed(P, s, x, pri, r, k)
  BY EnqueuePlaces
<1>2. /\ k <= Len(s) => pri[s[k]] < pri[x]
      /\ r \in Seq(P) /\ Len(r) = Len(s) + 1
      /\ \A i \in 1 .. Len(s) + 1 :
             r[i] = IF i < k THEN s[i] ELSE IF i = k THEN x ELSE s[i - 1]
  BY <1>1 DEF Placed
<1>3. /\ Len(s) \in Nat /\ DOMAIN s = 1 .. Len(s) /\ DOMAIN r = 1 .. Len(s) + 1
      /\ \A i \in 1 .. Len(s) : s[i] \in P /\ pri[s[i]] \in Int
      /\ pri[x] \in Int
  BY <1>2
<1> DEFINE New(i) == IF i < k THEN i ELSE i + 1
<1>4. \A i \in 1 .. Len(s) : New(i) \in 1 .. Len(s) + 1 /\ r[New(i)] = s[i]
  <2> TAKE i \in 1 .. Len(s)
  <2>1. CASE i < k
    BY <1>2, <1>3, <2>1
  <2>2. CASE i >= k
    <3>1. i + 1 \in 1 .. Len(s) + 1 /\ i + 1 > k /\ (i + 1) - 1 = i
      BY <1>3, <2>2
    <3>2. PICK n \in 1 .. Len(s) + 1 : n = i + 1 /\ n > k /\ n - 1 = i
      BY <3>1
    <3>3. r[n] = s[n - 1]
      BY SMTT(30), <1>2, <3>2
    <3> QED
      BY <2>2, <3>1, <3>2, <3>3
  <2> QED
    BY <1>3, <2>1, <2>2
<1>5. \A i, j \in 1 .. Len(s) : i < j => New(i) < New(j)
  BY <1>3
<1> HIDE DEF New
<1>6. ASSUME NEW p \in Range(r), NEW q \in Range(r), Before(s, p, q)
      PROVE  Before(r, p, q)
  <2>1. PICK i, j \in 1 .. Len(s) : i < j /\ s[i] = p /\ s[j] = q
    BY <1>3, <1>6 DEF Before
  <2>2. /\ New(i) \in DOMAIN r /\ New(j) \in DOMAIN r /\ New(i) < New(j)
        /\ r[New(i)] = p /\ r[New(j)] = q
    BY <1>3, <1>4, <1>5, <2>1
  <2> QED
    BY <2>2 DEF Before
<1>7. ASSUME NEW p \in Range(s) \cap Range(r), NEW q \in Range(r),
             q \notin Range(s), pri[q] = pri[p]
      PROVE  Before(r, p, q)
  <2>1. PICK i \in 1 .. Len(s) : s[i] = p
    BY <1>3, <1>7 DEF Range
  <2>2. r[k] = x /\ k \in DOMAIN r
    BY <1>2, <1>3
  <2>3. q = x
    <3>1. Enqueued(P, s, x, pri, r)
      BY EnqueueProperties
    <3> QED
      BY <1>7, <3>1 DEF Enqueued
  <2>4. i < k
    <3>1. ASSUME i >= k PROVE FALSE
      <4>1. k \in 1 .. Len(s) /\ pri[s[k]] < pri[x] /\ pri[s[i]] = pri[x]
        BY <1>2, <1>3, <1>7, <2>1, <2>3, <3>1
      <4>2. pri[s[i]] <= pri[s[k]]
        <5>1. CASE i = k
          BY <1>3, <5>1
        <5>2. CASE i # k
          BY <1>3, <3>1, <4>1, <5>2 DEF Sorted
        <5> QED
          BY <5>1, <5>2
      <4> QED
        BY <1>3, <4>1, <4>2
    <3> QED
      BY <1>3, <3>1
  <2>5. New(i) = i
    BY <2>4 DEF New
  <2>6. r[i] = p /\ i \in DOMAIN r
    BY <1>3, <1>4, <2>1, <2>5
  <2> QED
    BY <1>3, <2>2, <2>3, <2>4, <2>6 DEF Before
<1> QED
  BY <1>6, <1>7 DEF TakesTurns

(* dequeue takes one off and leaves the others as they were.                 *)
LEMMA DequeueTurns ==
  ASSUME NEW P, NEW s \in Seq(P), s # << >>, IsInjective(s), NEW pri,
         NEW t, t = Tail(s)
  PROVE  TakesTurns(s, t, pri)
<1>1. /\ t \in Seq(P) /\ Len(t) = Len(s) - 1
      /\ \A i \in 1 .. Len(t) : t[i] = s[i + 1]
  BY HeadTailProperties
<1>2. /\ Len(s) \in Nat /\ Len(s) > 0
      /\ DOMAIN s = 1 .. Len(s) /\ DOMAIN t = 1 .. Len(s) - 1
  BY <1>1, EmptySeq
<1>3. \A i \in 1 .. Len(s) : i # 1 => i - 1 \in DOMAIN t /\ t[i - 1] = s[i]
  BY <1>1, <1>2
<1>4. Dequeued(P, s, pri, Head(s), t)
  BY DequeueProperties
<1>5. /\ s[1] = Head(s) /\ Head(s) \notin Range(t)
      /\ Range(s) = Range(t) \cup {Head(s)}
  BY <1>2, <1>4 DEF Dequeued
<1>6. ASSUME NEW p \in Range(t), NEW q \in Range(t), Before(s, p, q)
      PROVE  Before(t, p, q)
  <2>1. PICK i, j \in 1 .. Len(s) : i < j /\ s[i] = p /\ s[j] = q
    BY <1>2, <1>6 DEF Before
  <2>2. i # 1 /\ j # 1
    BY <1>5, <2>1
  <2>3. /\ i - 1 \in DOMAIN t /\ j - 1 \in DOMAIN t /\ i - 1 < j - 1
        /\ t[i - 1] = p /\ t[j - 1] = q
    BY <1>3, <2>1, <2>2
  <2> QED
    BY <2>3 DEF Before
<1>7. Range(t) \subseteq Range(s)
  BY <1>5
<1> QED
  BY <1>6, <1>7 DEF TakesTurns

(* A loop that moves processes of s over to q puts each behind those of q,   *)
(* and them in the order in which they stood on s.                           *)
AllInTurn(q, s, S, pri, r) ==
    /\ TakesTurns(q, r, pri)
    /\ \A a, b \in 1 .. Len(s) :
          a < b /\ s[a] \in S /\ s[b] \in S /\ pri[s[a]] = pri[s[b]]
          => Before(r, s[a], s[b])

(* That is what EnqueueAll does, whatever the order of the list it empties.  *)
LEMMA EnqueueAllTurns ==
  ASSUME NEW P, NEW q \in Seq(P), NEW s \in Seq(P), NEW S, NEW pri \in [P -> Int],
         NEW r, r = EnqueueAll(q, s, S, pri),
         Sorted(q, pri), IsInjective(s), Range(q) \cap (Range(s) \cap S) = {}
  PROVE  AllInTurn(q, s, S, pri, r)
<1>1. PICK f : /\ IsRun(f, Len(s), q, s, S, pri)
               /\ r = f[Len(s)]
  BY EnqueueAllIsARun
<1>2. /\ Len(s) \in Nat
      /\ DOMAIN s = 1 .. Len(s)
      /\ \A i \in 1 .. Len(s) : s[i] \in P
  OBVIOUS
<1> DEFINE Moved(i) == {x \in S : \E j \in 1 .. i : s[j] = x}
           InOrder(i) == \A a, b \in 1 .. i :
                            a < b /\ s[a] \in S /\ s[b] \in S /\ pri[s[a]] = pri[s[b]]
                            => Before(f[i], s[a], s[b])
           Good(i) == /\ f[i] \in Seq(P) /\ Sorted(f[i], pri)
                      /\ Range(f[i]) = Range(q) \cup Moved(i)
                      /\ TakesTurns(q, f[i], pri)
                      /\ InOrder(i)
           Bad == {i \in 0 .. Len(s) : ~Good(i)}
<1>3. Good(0)
  <2>1. f[0] = q /\ Moved(0) = {}
    BY <1>1 DEF IsRun
  <2>2. TakesTurns(q, f[0], pri)
    BY <2>1, TurnsStay
  <2>3. InOrder(0)
    OBVIOUS
  <2> HIDE DEF Moved, InOrder
  <2> QED
    BY <2>1, <2>2, <2>3
<1>4. ASSUME NEW i \in 1 .. Len(s), Good(i - 1)
      PROVE  Good(i)
  <2>1. /\ f[i - 1] \in Seq(P) /\ Sorted(f[i - 1], pri)
        /\ Range(f[i - 1]) = Range(q) \cup Moved(i - 1)
        /\ TakesTurns(q, f[i - 1], pri)
        /\ InOrder(i - 1)
    BY <1>4
  <2>2. PICK x \in Seq(P), p \in P : x = f[i - 1] /\ p = s[i]
    BY <1>2, <2>1
  <2>3. f[i] = IF p \in S THEN enqueue(x, p, pri) ELSE x
    BY <1>1, <2>2 DEF IsRun
  <2>4. \A a \in 1 .. i : a # i => a \in 1 .. i - 1
    BY <1>2
  <2>5. Moved(i) = Moved(i - 1) \cup ({p} \cap S)
    BY <2>2, <2>4
  <2>6. CASE p \notin S
    <3>1. f[i] = f[i - 1]
      BY <2>2, <2>3, <2>6
    <3>2. Moved(i) = Moved(i - 1)
      <4> HIDE DEF Moved
      <4> QED
        BY <2>5, <2>6
    <3>3. InOrder(i)
      BY <2>1, <2>2, <2>4, <2>6, <3>1
    <3> HIDE DEF Moved, InOrder
    <3> QED
      BY <2>1, <3>1, <3>2, <3>3
  <2>7. CASE p \in S
    <3>1. f[i] = enqueue(x, p, pri)
      BY <2>3, <2>7
    <3>2. p \notin Range(x)
      <4>1. p \in Range(s) \cap S
        BY <1>2, <2>2, <2>7 DEF Range
      <4>2. p \notin Moved(i - 1)
        <5> SUFFICES ASSUME NEW j \in 1 .. i - 1, s[j] = s[i] PROVE FALSE
          BY <2>2
        <5>1. j \in 1 .. Len(s) /\ j # i
          BY <1>2
        <5> QED
          BY <1>2, <5>1 DEF IsInjective
      <4> HIDE DEF Moved
      <4> QED
        BY <2>1, <2>2, <4>1, <4>2
    <3>3. PICK y : y = f[i]
      OBVIOUS
    <3>4. Enqueued(P, x, p, pri, y)
      BY <3>1, <3>3, EnqueueProperties
    <3>5. TakesTurns(x, y, pri)
      BY <2>1, <2>2, <3>1, <3>2, <3>3, EnqueueTurns
    <3>6. /\ y \in Seq(P) /\ Sorted(y, pri) /\ Range(y) = Range(x) \cup {p}
      BY <2>1, <2>2, <3>4 DEF Enqueued
    <3>7. Range(y) = Range(q) \cup Moved(i)
      <4> HIDE DEF Moved
      <4> QED
        BY <2>1, <2>2, <2>5, <2>7, <3>6
    <3>8. TakesTurns(q, y, pri)
      <4>1. Range(q) \subseteq Range(x)
        <5> HIDE DEF Moved
        <5> QED
          BY <2>1, <2>2
      <4> QED
        BY <2>1, <2>2, <3>5, <4>1, TurnsGoOn
    <3>9. ASSUME NEW a \in 1 .. i, NEW b \in 1 .. i, a < b,
                 s[a] \in S, s[b] \in S, pri[s[a]] = pri[s[b]]
          PROVE  Before(y, s[a], s[b])
      <4>1. a \in 1 .. i - 1
        BY <1>2, <3>9
      <4>2. s[a] \in Moved(i - 1)
        BY <3>9, <4>1
      <4>3. s[a] \in Range(x) /\ s[a] \in Range(y)
        <5> HIDE DEF Moved
        <5> QED
          BY <2>1, <2>2, <3>6, <4>2
      <4>4. CASE b = i
        BY <2>2, <3>2, <3>5, <3>6, <3>9, <4>3, <4>4 DEF TakesTurns
      <4>5. CASE b # i
        <5>1. b \in 1 .. i - 1
          BY <2>4, <4>5
        <5>2. Before(x, s[a], s[b])
          BY <2>1, <2>2, <3>9, <4>1, <5>1
        <5>3. s[b] \in Range(x)
          BY <5>2 DEF Before, Range
        <5> QED
          BY <3>5, <3>6, <4>3, <5>2, <5>3 DEF TakesTurns
      <4> QED
        BY <4>4, <4>5
    <3>10. InOrder(i)
      BY <3>3, <3>9
    <3> HIDE DEF Moved, InOrder
    <3> QED
      BY <3>3, <3>6, <3>7, <3>8, <3>10
  <2> QED
    BY <2>6, <2>7
<1>5. Bad = {}
  <2> SUFFICES ASSUME Bad # {} PROVE FALSE
    OBVIOUS
  <2> HIDE DEF Good
  <2>1. PICK i \in Bad : \A j \in Bad : i <= j
    <3>1. Bad \subseteq Nat
      OBVIOUS
    <3> HIDE DEF Bad
    <3> QED
      BY <3>1, LeastNat
  <2>2. i \in 1 .. Len(s)
    BY <1>2, <1>3
  <2>3. i - 1 \in 0 .. Len(s) /\ ~(i <= i - 1)
    BY <2>2
  <2>4. Good(i - 1)
    BY <2>1, <2>3
  <2> QED
    BY <1>4, <2>2, <2>4
<1>6. Good(Len(s))
  <2> HIDE DEF Good
  <2> QED
    BY SMTT(30), <1>2, <1>5
<1> HIDE DEF Moved
<1> QED
  BY <1>1, <1>6 DEF AllInTurn

-----------------------------------------------------------------------------
(* tswitch puts the running process behind those that wait already.          *)
LEMMA SchedulerTurns ==
  ASSUME NEW st, NEW rq, MaySwitch(st, rq), scheduler(st, rq),
         running \in Procs, priority \in [Procs -> Int]
  PROVE  TakesTurns(rq, readyQueue', priority)
<1>1. PICK ready : ready = IF CanGoOn(st) THEN enqueue(rq, running, priority) ELSE rq
  OBVIOUS
<1>2. /\ ready \in Seq(Procs) /\ IsInjective(ready)
      /\ TakesTurns(rq, ready, priority)
      /\ Range(rq) \subseteq Range(ready)
  <2>1. CASE CanGoOn(st)
    <3>1. ready = enqueue(rq, running, priority)
      BY <1>1, <2>1
    <3>2. running \notin Range(rq)
      BY <2>1 DEF CanGoOn, MaySwitch
    <3>3. Enqueued(Procs, rq, running, priority, ready)
      BY <3>1, EnqueueProperties DEF MaySwitch
    <3>4. TakesTurns(rq, ready, priority)
      BY <3>1, <3>2, EnqueueTurns DEF MaySwitch
    <3> QED
      BY <3>2, <3>3, <3>4 DEF Enqueued, MaySwitch
  <2>2. CASE ~CanGoOn(st)
    BY <1>1, <2>2, TurnsStay DEF MaySwitch
  <2> QED
    BY <2>1, <2>2
<1>3. CASE ready = << >>
  <2>1. readyQueue' = ready
    BY <1>1, <1>3 DEF scheduler
  <2> QED
    BY <1>2, <2>1
<1>4. CASE ready # << >>
  <2>1. readyQueue' = Tail(ready)
    BY <1>1, <1>4 DEF scheduler, dequeue
  <2>2. TakesTurns(ready, readyQueue', priority)
    BY <1>2, <1>4, <2>1, DequeueTurns
  <2> QED
    BY <1>2, <2>2, TurnsGoOn
<1> QED
  BY <1>3, <1>4

(* kwakeup puts those it wakes behind those that wait already.               *)
LEMMA KwakeupTurns ==
  ASSUME NEW l, NEW ev, NEW fl, NEW r, r = kwakeup(l, ev),
         Kept(l.status, priority, fl, l.ready, l.sleep)
  PROVE  /\ TakesTurns(l.ready, r.ready, priority)
         /\ Range(l.ready) \subseteq Range(r.ready)
<1>1. PICK woken : woken = {p \in Range(l.sleep) : event[p] = ev}
  OBVIOUS
<1>2. r.ready = EnqueueAll(l.ready, l.sleep, woken, priority)
  BY <1>1 DEF kwakeup
<1>3. Range(l.ready) \cap (Range(l.sleep) \cap woken) = {}
  BY RangeOfProcs DEF Kept
<1>4. AllInTurn(l.ready, l.sleep, woken, priority, r.ready)
  BY <1>2, <1>3, EnqueueAllTurns DEF Kept
<1>5. AllEnqueued(Procs, l.ready, l.sleep, woken, priority, r.ready)
  BY <1>2, EnqueueAllProperties DEF Kept
<1> QED
  BY <1>4, <1>5 DEF AllInTurn, AllEnqueued

(* A list that takes turns is what RoundRobin asks for.                      *)
LEMMA TurnsAreTaken ==
  ASSUME TakesTurns(readyQueue, readyQueue', priority')
  PROVE  InTurn
BY DEF TakesTurns, InTurn

(* A step that ends in tswitch, called with a ready queue on which everybody *)
(* has kept his turn.                                                        *)
LEMMA SwitchInTurn ==
  ASSUME KInv, NEW st, NEW rq, NEW sl,
         Kept(st, priority, freeList, rq, sl),
         \A p \in Procs : st[p] = "RUNNING" => p = running,
         st[0] \in {"RUNNING", "READY"},
         scheduler(st, rq), UNCHANGED priority,
         TakesTurns(readyQueue, rq, priority),
         Range(readyQueue) \subseteq Range(rq)
  PROVE  InTurn
<1>1. Sane /\ Agree
  BY TwoHalves
<1>2. MaySwitch(st, rq)
  BY DEF Kept, MaySwitch
<1>3. TakesTurns(rq, readyQueue', priority)
  BY <1>1, <1>2, SchedulerTurns DEF Sane, Agree, Kept
<1>4. TakesTurns(readyQueue, readyQueue', priority)
  BY <1>3, TurnsGoOn
<1> QED
  BY <1>4, TurnsAreTaken

(* So does a tswitch from the ready queue as it is.                          *)
LEMMA PlainSwitchInTurn ==
  ASSUME KInv, NEW st, NEW sl,
         Kept(st, priority, freeList, readyQueue, sl),
         \A p \in Procs : st[p] = "RUNNING" => p = running,
         st[0] \in {"RUNNING", "READY"},
         scheduler(st, readyQueue), UNCHANGED priority
  PROVE  InTurn
BY SwitchInTurn, TurnsStay

(* A process that is put on the ready queue waits behind its equals.         *)
LEMMA EnqueueInTurn ==
  ASSUME KInv, NEW x \in Procs, x \notin Range(readyQueue),
         priority' \in [Procs -> Int],
         \A p \in Procs : p # x => priority'[p] = priority[p],
         readyQueue' = enqueue(readyQueue, x, priority')
  PROVE  InTurn
<1>1. Agree
  BY TwoHalves
<1>2. PICK new \in [Procs -> Int] : new = priority'
  OBVIOUS
<1>3. Sorted(readyQueue, new)
  <2>1. \A i \in 1 .. Len(readyQueue) : readyQueue[i] \in Procs \ {x}
    BY <1>1 DEF Agree, Kept, Range
  <2>2. \A i \in 1 .. Len(readyQueue) : new[readyQueue[i]] = priority[readyQueue[i]]
    BY <1>2, <2>1
  <2> QED
    BY <1>1, <2>2 DEF Agree, Kept, Sorted
<1>4. readyQueue' = enqueue(readyQueue, x, new)
  BY <1>2
<1>5. TakesTurns(readyQueue, readyQueue', new)
  BY <1>1, <1>3, <1>4, EnqueueTurns DEF Agree, Kept
<1> QED
  BY <1>2, <1>5, TurnsAreTaken

(* kfork's new process comes last among those of priority 1.                 *)
LEMMA KforkInTurn ==
  ASSUME KInv, kfork
  PROVE  InTurn
<1>1. Agree
  BY TwoHalves
<1>2. PICK p : p = Head(freeList)
  OBVIOUS
<1>3. /\ freeList # << >> /\ freeList' = Tail(freeList)
      /\ priority' = [priority EXCEPT ![p] = 1]
      /\ readyQueue' = enqueue(readyQueue, p, priority')
  BY <1>2 DEF kfork, dequeue
<1>4. Dequeued(Procs, freeList, priority, p, freeList')
  BY <1>1, <1>2, <1>3, DequeueProperties DEF Agree, Kept
<1>5. p \in Procs /\ p \in Range(freeList)
  BY <1>4 DEF Dequeued
<1>6. p \notin Range(readyQueue)
  BY <1>1, <1>5 DEF Agree, Kept
<1>7. /\ priority' \in [Procs -> Int]
      /\ \A o \in Procs : o # p => priority'[o] = priority[o]
  BY <1>1, <1>3, <1>5 DEF Agree, Kept
<1> QED
  BY <1>3, <1>5, <1>6, <1>7, EnqueueInTurn

(* A ready queue that a step leaves alone keeps everybody's turn.            *)
LEMMA NothingInTurn ==
  ASSUME UNCHANGED readyQueue
  PROVE  InTurn
BY DEF InTurn

(* chpriority keeps the turns of those whose priority it leaves alone, and   *)
(* the one that it changes waits behind its new equals or in its old order.  *)
LEMMA DoChpriorityInTurn ==
  ASSUME KInv, NEW pid \in Int, NEW pri \in Int, DoChpriority(pid, pri)
  PROVE  InTurn
<1>1. Sane /\ Agree
  BY TwoHalves
<1>2. pid \in Procs
  BY SMTT(30), <1>1 DEF DoChpriority, Sane, Procs
<1>3. PICK new \in [Procs -> Int] : new = priority'
  <2>1. Clamp(pri) \in Int
    BY DEF Clamp
  <2> QED
    BY <1>1, <1>2, <2>1 DEF DoChpriority, Agree, Kept
<1>4. CASE pid # running /\ status[pid] = "READY"
  <2>1. readyQueue' = EnqueueAll(<< >>, readyQueue, Procs, new)
    BY <1>3, <1>4 DEF DoChpriority, reschedule
  <2>2. /\ << >> \in Seq(Procs) /\ Range(<< >>) = {} /\ Sorted(<< >>, new)
    BY DEF Range, Sorted
  <2>3. readyQueue \in Seq(Procs) /\ IsInjective(readyQueue)
    BY <1>1 DEF Agree, Kept
  <2>4. AllInTurn(<< >>, readyQueue, Procs, new, readyQueue')
    BY <2>1, <2>2, <2>3, EnqueueAllTurns
  <2>5. AllEnqueued(Procs, << >>, readyQueue, Procs, new, readyQueue')
    BY <2>1, <2>2, <2>3, EnqueueAllProperties
  <2>6. Range(readyQueue') \subseteq Range(readyQueue)
    BY <2>2, <2>5 DEF AllEnqueued
  <2> SUFFICES ASSUME NEW p \in Range(readyQueue), NEW q \in Range(readyQueue),
                      new[q] = new[p], Before(readyQueue, p, q)
               PROVE  Before(readyQueue', p, q)
    BY <1>3, <2>6 DEF InTurn
  <2>7. PICK a, b \in 1 .. Len(readyQueue) :
               a < b /\ readyQueue[a] = p /\ readyQueue[b] = q
    BY <2>3 DEF Before
  <2>8. readyQueue[a] \in Procs /\ readyQueue[b] \in Procs
    BY <2>3
  <2> QED
    BY <2>4, <2>7, <2>8 DEF AllInTurn
<1>5. CASE ~(pid # running /\ status[pid] = "READY")
  <2>1. UNCHANGED readyQueue
    BY <1>5 DEF DoChpriority, ChangeOwn
  <2> QED
    BY <2>1, NothingInTurn
<1> QED
  BY <1>4, <1>5

(* ksleep switches from the ready queue as it is.                            *)
LEMMA KsleepInTurn ==
  ASSUME KInv, NEW ev, ksleep(ev), running # 0, UNCHANGED priority
  PROVE  InTurn
<1>1. PICK st : st = [status EXCEPT ![running] = "SLEEP"]
  OBVIOUS
<1>2. PICK sl : sl = enqueue(sleepList, running, priority)
  OBVIOUS
<1>3. scheduler(st, readyQueue)
  BY <1>1 DEF ksleep
<1>4. /\ Kept(st, priority, freeList, readyQueue, sl)
      /\ \A p \in Procs : st[p] = "RUNNING" => p = running
      /\ st[0] \in {"RUNNING", "READY"}
  BY <1>1, <1>2, KsleepLists
<1> QED
  BY <1>3, <1>4, PlainSwitchInTurn

(* kexit wakes its parent and P1 to the end of the queue, then switches.     *)
LEMMA KexitInTurn ==
  ASSUME KInv, NEW value, kexit(value), running # 0
  PROVE  InTurn
<1>1. Sane /\ Agree
  BY TwoHalves
<1>2. PICK dying : dying = [Lists EXCEPT !.status[running] = "ZOMBIE"]
  OBVIOUS
<1>3. PICK l : l = WakeParents(dying)
  OBVIOUS
<1>4. scheduler(l.status, l.ready) /\ UNCHANGED priority
  BY <1>2, <1>3 DEF kexit
<1>5. /\ Kept(l.status, priority, freeList, l.ready, l.sleep)
      /\ \A p \in Procs : l.status[p] = "RUNNING" => p = running
      /\ l.status[0] \in {"RUNNING", "READY"}
  BY <1>2, <1>3, KexitLists
<1>6. status[running] = "RUNNING" /\ running \in Procs
  BY <1>1 DEF Sane
<1>7. /\ dying.ready = readyQueue /\ dying.sleep = sleepList
      /\ dying.status \in [Procs -> Statuses]
      /\ \A p \in Procs : dying.status[p] = IF p = running THEN "ZOMBIE" ELSE status[p]
  BY <1>1, <1>2, <1>6 DEF Lists, Agree, Kept, Statuses
<1>8. Kept(dying.status, priority, freeList, dying.ready, dying.sleep)
  BY <1>1, <1>6, <1>7 DEF Agree, Kept
<1>9. PICK half : half = kwakeup(dying, Address(parent[running]))
  OBVIOUS
<1>10. Woken(dying, Address(parent[running]), freeList, half)
  BY <1>8, <1>9, WakeupKeeps
<1>11. Kept(half.status, priority, freeList, half.ready, half.sleep)
  BY <1>10 DEF Woken
<1>12. l = kwakeup(half, Address(1))
  BY <1>3, <1>9 DEF WakeParents
<1>13. /\ TakesTurns(readyQueue, half.ready, priority)
       /\ Range(readyQueue) \subseteq Range(half.ready)
  BY <1>7, <1>8, <1>9, KwakeupTurns
<1>14. /\ TakesTurns(half.ready, l.ready, priority)
       /\ Range(half.ready) \subseteq Range(l.ready)
  BY <1>11, <1>12, KwakeupTurns
<1>15. TakesTurns(readyQueue, l.ready, priority)
  BY <1>13, <1>14, TurnsGoOn
<1> QED
  BY <1>4, <1>5, <1>13, <1>14, <1>15, SwitchInTurn

(* Every step of the kernel.                                                 *)
LEMMA StepInTurn ==
  ASSUME KInv, Next
  PROVE  InTurn
<1>1. Sane /\ Agree
  BY TwoHalves
<1>2. /\ Kept(status, priority, freeList, readyQueue, sleepList)
      /\ \A p \in Procs : status[p] = "RUNNING" => p = running
      /\ status[0] \in {"RUNNING", "READY"}
      /\ 0 \in Procs
  BY <1>1 DEF Agree, Sane, Procs
<1>3. AtPrompt => running # 0
  BY <1>1 DEF AtPrompt, Sane
<1>4. CASE MainFork \/ DoKfork
  BY <1>4, KforkInTurn DEF MainFork, DoKfork
<1>5. CASE MainSwitch \/ DoTswitch
  <2>1. scheduler(status, readyQueue) /\ UNCHANGED priority
    BY <1>5 DEF MainSwitch, DoTswitch
  <2> QED
    BY <1>2, <2>1, PlainSwitchInTurn
<1>6. CASE DoStop
  <2>1. PICK st : st = [status EXCEPT ![running] = "STOPPED"]
    OBVIOUS
  <2>2. scheduler(st, readyQueue) /\ UNCHANGED priority
    BY <1>6, <2>1 DEF DoStop
  <2>3. running # 0 /\ running \in Procs /\ status[running] = "RUNNING"
    BY <1>1, <1>3, <1>6 DEF DoStop, Sane
  <2>4. /\ st \in [Procs -> Statuses]
        /\ \A p \in Procs : st[p] = IF p = running THEN "STOPPED" ELSE status[p]
    BY <1>2, <2>1, <2>3 DEF Statuses, Kept
  <2>5. /\ Kept(st, priority, freeList, readyQueue, sleepList)
        /\ \A p \in Procs : st[p] = "RUNNING" => p = running
        /\ st[0] \in {"RUNNING", "READY"}
    BY <1>2, <2>3, <2>4 DEF Kept
  <2> QED
    BY <2>2, <2>5, PlainSwitchInTurn
<1>7. CASE \E pid \in UserPids : DoContinue(pid)
  <2>1. PICK pid \in UserPids : DoContinue(pid)
    BY <1>7
  <2>2. /\ pid \in Procs /\ status[pid] = "STOPPED"
        /\ readyQueue' = enqueue(readyQueue, pid, priority')
        /\ UNCHANGED priority
    BY <2>1 DEF DoContinue, Continuable, Procs
  <2>3. pid \notin Range(readyQueue)
    BY <1>2, <2>2 DEF Kept
  <2>4. priority' \in [Procs -> Int]
    BY <1>2, <2>2 DEF Kept
  <2> QED
    BY <2>2, <2>3, <2>4, EnqueueInTurn
<1>8. CASE \E ev \in UserEvents : DoSleep(ev)
  BY <1>3, <1>8, KsleepInTurn DEF DoSleep
<1>9. CASE \E ev \in UserEvents : DoWakeup(ev)
  <2>1. PICK ev \in UserEvents : DoWakeup(ev)
    BY <1>9
  <2>2. PICK r : r = kwakeup(Lists, ev)
    OBVIOUS
  <2>3. readyQueue' = r.ready /\ UNCHANGED priority
    BY <2>1, <2>2 DEF DoWakeup
  <2>4. Lists.status = status /\ Lists.ready = readyQueue /\ Lists.sleep = sleepList
    BY DEF Lists
  <2>5. Kept(Lists.status, priority, freeList, Lists.ready, Lists.sleep)
    BY <1>2, <2>4
  <2>6. TakesTurns(Lists.ready, r.ready, priority)
    BY <2>2, <2>5, KwakeupTurns
  <2> QED
    BY <2>3, <2>4, <2>6, TurnsAreTaken
<1>10. CASE \E pid \in UserPids, pri \in UserPris : DoChpriority(pid, pri)
  BY <1>10, DoChpriorityInTurn
<1>11. ASSUME SleepOnSelf, running # 0 PROVE InTurn
  BY <1>11, KsleepInTurn DEF SleepOnSelf
<1>12. CASE DoWait \/ WaitAgain
  <2>1. running # 0
    BY <1>1, <1>3, <1>12 DEF DoWait, WaitAgain, Sane
  <2>2. ASSUME LayToRest PROVE InTurn
    BY <2>2, NothingInTurn DEF LayToRest
  <2> QED
    BY <1>11, <1>12, <2>1, <2>2 DEF DoWait, WaitAgain
<1>13. CASE \E value \in ExitValues : DoExit(value)
  BY <1>3, <1>13, KexitInTurn DEF DoExit
<1> QED
  BY <1>4, <1>5, <1>6, <1>7, <1>8, <1>9, <1>10, <1>12, <1>13 DEF Next, body

(* Processes of equal priority take turns, for any number of them and any    *)
(* sequence of commands: nobody who has come later is ever put in front.     *)
THEOREM TurnsAreKept == Spec => RoundRobin
<1>1. KInv /\ [Next]_vars => [InTurn]_vars
  BY StepInTurn
<1> QED
  BY <1>1, KInvariance, PTL DEF Spec, RoundRobin

-----------------------------------------------------------------------------
(* Families: every process has a living parent, parents lead to P1, P1 dies  *)
(* last and nobody waits for a child in vain.  Whatever a command does, it   *)
(* does one of four things to families: it forks, it dies, it buries, or it  *)
(* leaves them alone.  All else is proved about these four.                  *)

(* P0 and P1 exist.                                                          *)
LEMMA ZeroAndOne == 0 \in Procs /\ 1 \in Procs
BY DEF Procs

(* A PROC is made a process by the running one, which is P0 only in main.    *)
Forks(c) ==
    /\ c \in Procs /\ status[c] = "FREE"
    /\ \/ running = 0 /\ pc[0] = "kfork" /\ c = Head(freeList) /\ pc' = [pc EXCEPT ![0] = "loop"]
       \/ running # 0 /\ UNCHANGED pc
    /\ status' = [status EXCEPT ![c] = "READY"]
    /\ ppid' = [ppid EXCEPT ![c] = running]
    /\ parent' = [parent EXCEPT ![c] = running]
    /\ UNCHANGED <<running, event, exitCode>>

(* The running process dies, and who sleeps on its parent or on P1 wakes up. *)
Dies(value) ==
    /\ running # 0 /\ pc[running] = "body" /\ MayExit
    /\ SendToP1(Orphans(running))
    /\ exitCode' = [exitCode EXCEPT ![running] = value]
    /\ \A p \in Procs : status'[p] = "FREE" <=> status[p] = "FREE"
    /\ \A p \in Procs : status'[p] = "ZOMBIE" <=> p = running \/ status[p] = "ZOMBIE"
    /\ \A p \in Procs : status'[p] = "SLEEP" =>
           /\ status[p] = "SLEEP"
           /\ event[p] \notin {Address(parent[running]), Address(1)}
    /\ \A p \in Procs \ {running} :
           status'[p] = status[p] \/ status'[p] \in {"READY", "RUNNING"}
    /\ UNCHANGED <<event, pc>>

(* The running process lays a dead child to rest.                            *)
Buries(c) ==
    /\ running # 0 /\ c \in Dead(running)
    /\ status' = [status EXCEPT ![c] = "FREE"]
    /\ pc' = [pc EXCEPT ![running] = "body"]
    /\ UNCHANGED <<running, ppid, parent, event, exitCode>>

(* Families stay as they are; the running process may begin to wait, or wait *)
(* on.                                                                       *)
Stays ==
    /\ \A p \in Procs : status'[p] = "FREE" <=> status[p] = "FREE"
    /\ \A p \in Procs : status'[p] = "ZOMBIE" <=> status[p] = "ZOMBIE"
    /\ UNCHANGED <<ppid, parent, exitCode>>
    /\ pc'[0] = "kfork" =>
           pc[0] = "kfork" /\ (running # 0 \/ UNCHANGED <<running, freeList, status>>)
    /\ \A p \in Procs : pc'[p] = "kwait" =>
           pc[p] = "kwait" \/ (p = running /\ Children(p) # {})
    /\ \A p \in Procs : pc'[p] = "kwait" =>
           status'[p] = status[p] \/ status'[p] \in {"SLEEP", "READY", "RUNNING"}
    /\ \A p \in Procs : pc'[p] = "kwait" /\ status'[p] = "SLEEP" =>
           \/ pc[p] = "kwait" /\ status[p] = "SLEEP" /\ event'[p] = event[p]
           \/ p = running /\ Dead(p) = {} /\ event'[p] = Address(p)
-----------------------------------------------------------------------------
(* A command that switches and has changed no status but the running one's,  *)
(* which sleeps or stops, or none at all.                                    *)
LEMMA SwitchStays ==
  ASSUME KInv, NEW st, NEW rq, NEW sl,
         Kept(st, priority, freeList, rq, sl),
         \A p \in Procs : p # running => st[p] = status[p],
         st[running] \in {"RUNNING", "SLEEP", "STOPPED"},
         st[running] = "RUNNING" \/ running # 0,
         scheduler(st, rq)
  PROVE  /\ \A p \in Procs : status'[p] = "FREE" <=> status[p] = "FREE"
         /\ \A p \in Procs : status'[p] = "ZOMBIE" <=> status[p] = "ZOMBIE"
         /\ \A p \in Procs : status'[p] = "SLEEP" <=> st[p] = "SLEEP"
         /\ \A p \in Procs \ {running} :
                status'[p] = status[p] \/ status'[p] \in {"READY", "RUNNING"}
         /\ st[running] # "STOPPED" => status'[running] \in {"SLEEP", "READY", "RUNNING"}
<1>1. Sane /\ Agree
  BY TwoHalves
<1>2. running \in Procs /\ 0 \in Procs /\ status[running] = "RUNNING"
  BY <1>1, ZeroAndOne DEF Sane
<1>3. \A p \in Procs : st[p] = "RUNNING" => p = running
  BY <1>1 DEF Sane
<1>4. st[0] \in {"RUNNING", "READY"}
  BY <1>1, <1>2 DEF Sane
<1>5. \A p \in Procs : IF st[p] \in {"RUNNING", "READY"}
                       THEN status'[p] \in {"RUNNING", "READY"}
                       ELSE status'[p] = st[p]
  BY <1>3, <1>4, SwitchedFrom
<1> QED
  BY <1>2, <1>5

(* The commands that do not switch, and those that do.                       *)
LEMMA TswitchStays ==
  ASSUME KInv, scheduler(status, readyQueue),
         UNCHANGED <<ppid, parent, event, exitCode>>,
         \A p \in Procs : pc'[p] = "kwait" => pc[p] = "kwait",
         pc'[0] = "kfork" => pc[0] = "kfork" /\ running # 0
  PROVE  Stays
<1>1. Sane /\ Agree
  BY TwoHalves
<1>2. Kept(status, priority, freeList, readyQueue, sleepList) /\ status[running] = "RUNNING"
  BY <1>1 DEF Agree, Sane
<1>3. /\ \A p \in Procs : status'[p] = "FREE" <=> status[p] = "FREE"
      /\ \A p \in Procs : status'[p] = "ZOMBIE" <=> status[p] = "ZOMBIE"
      /\ \A p \in Procs : status'[p] = "SLEEP" <=> status[p] = "SLEEP"
      /\ \A p \in Procs \ {running} :
             status'[p] = status[p] \/ status'[p] \in {"READY", "RUNNING"}
      /\ status'[running] \in {"SLEEP", "READY", "RUNNING"}
  BY <1>2, SwitchStays
<1> QED
  BY <1>3 DEF Stays

(* A command that ends in ksleep leaves families alone, and makes no waiter  *)
(* of a process with a dead child or with no child at all.                   *)
LEMMA KsleepStays ==
  ASSUME KInv, NEW ev \in Int, ksleep(ev), running # 0,
         UNCHANGED <<ppid, parent, priority, exitCode, freeList, nproc>>,
         pc'[0] = pc[0],
         \A p \in Procs : p # running => pc'[p] = pc[p],
         pc'[running] = "kwait" =>
             /\ ev = Address(running) /\ Dead(running) = {}
             /\ pc[running] = "kwait" \/ Children(running) # {}
  PROVE  Stays
<1>1. Sane /\ Agree
  BY TwoHalves
<1>2. PICK st : st = [status EXCEPT ![running] = "SLEEP"]
  OBVIOUS
<1>3. PICK sl : sl = enqueue(sleepList, running, priority)
  OBVIOUS
<1>4. scheduler(st, readyQueue) /\ event' = [event EXCEPT ![running] = ev]
  BY <1>2, <1>3 DEF ksleep
<1>5. /\ Kept(st, priority, freeList, readyQueue, sl)
      /\ \A p \in Procs : st[p] = IF p = running THEN "SLEEP" ELSE status[p]
  BY <1>2, <1>3, KsleepLists
<1>6. running \in Procs /\ status[running] = "RUNNING"
  BY <1>1 DEF Sane
<1>7. /\ \A p \in Procs : status'[p] = "FREE" <=> status[p] = "FREE"
      /\ \A p \in Procs : status'[p] = "ZOMBIE" <=> status[p] = "ZOMBIE"
      /\ \A p \in Procs : status'[p] = "SLEEP" <=> st[p] = "SLEEP"
      /\ \A p \in Procs \ {running} :
             status'[p] = status[p] \/ status'[p] \in {"READY", "RUNNING"}
      /\ status'[running] \in {"SLEEP", "READY", "RUNNING"}
  BY <1>4, <1>5, <1>6, SwitchStays
<1>8. \A p \in Procs : event'[p] = IF p = running THEN ev ELSE event[p]
  BY <1>1, <1>4, <1>6 DEF Sane
<1> QED
  BY <1>5, <1>6, <1>7, <1>8 DEF Stays

(* A kwait that finds a dead child buries it.                                *)
LEMMA LayToRestBuries ==
  ASSUME LayToRest, running # 0
  PROVE  Buries(Min(Dead(running)))
BY FirstDead DEF LayToRest, Release, Buries

(* kexit, up to the wakeups that it makes.                                   *)
LEMMA KexitDies ==
  ASSUME KInv, NEW value \in Int, kexit(value), MayExit, running # 0, pc[running] = "body"
  PROVE  Dies(value)
<1>1. Sane /\ Agree
  BY TwoHalves
<1>2. status[running] = "RUNNING" /\ running \in Procs
  BY <1>1 DEF Sane
<1>3. PICK l : l = WakeParents([Lists EXCEPT !.status[running] = "ZOMBIE"])
  OBVIOUS
<1>4. /\ SendToP1(Orphans(running))
      /\ exitCode' = [exitCode EXCEPT ![running] = value]
      /\ scheduler(l.status, l.ready)
      /\ UNCHANGED <<priority, event, freeList, nproc, pc>>
  BY <1>3 DEF kexit
<1>5. /\ Kept(l.status, priority, freeList, l.ready, l.sleep)
      /\ \A p \in Procs : l.status[p] =
            IF p = running THEN "ZOMBIE"
            ELSE IF /\ status[p] = "SLEEP"
                    /\ event[p] \in {Address(parent[running]), Address(1)}
            THEN "READY" ELSE status[p]
      /\ \A p \in Procs : l.status[p] = "RUNNING" => p = running
      /\ l.status[0] \in {"RUNNING", "READY"}
  BY <1>3, KexitLists
<1>6. \A p \in Procs : IF l.status[p] \in {"RUNNING", "READY"}
                       THEN status'[p] \in {"RUNNING", "READY"}
                       ELSE status'[p] = l.status[p]
  BY <1>4, <1>5, SwitchedFrom
<1>7. \A p \in Procs : /\ status'[p] = "FREE" <=> status[p] = "FREE"
                       /\ status'[p] = "ZOMBIE" <=> p = running \/ status[p] = "ZOMBIE"
                       /\ status'[p] = "SLEEP" =>
                              /\ status[p] = "SLEEP"
                              /\ event[p] \notin {Address(parent[running]), Address(1)}
  BY <1>2, <1>5, <1>6
<1>8. \A p \in Procs \ {running} :
          status'[p] = status[p] \/ status'[p] \in {"READY", "RUNNING"}
  BY <1>5, <1>6
<1> QED
  BY <1>4, <1>7, <1>8 DEF Dies
-----------------------------------------------------------------------------
(* Every step is one of the four.                                            *)
Kinds ==
    \/ \E c \in Procs : Forks(c)
    \/ \E value \in ExitValues : Dies(value)
    \/ \E c \in Procs : Buries(c)
    \/ Stays

(* Every step of the kernel is of one of the four kinds.                     *)
LEMMA NextKinds == (KInv /\ [Next]_vars) => Kinds
<1> SUFFICES ASSUME KInv, [Next]_vars PROVE Kinds
  OBVIOUS
<1>1. Sane /\ Agree
  BY TwoHalves
<1>2. running \in Procs /\ status[running] = "RUNNING" /\ 0 \in Procs
  BY <1>1, ZeroAndOne DEF Sane
<1>3. AtPrompt => running # 0 /\ pc[running] = "body"
  BY <1>1 DEF AtPrompt, Sane
<1>4. pc \in [Procs -> Places]
  BY <1>1 DEF Sane
<1>5. ASSUME kfork,
             \/ running = 0 /\ pc[0] = "kfork" /\ pc' = [pc EXCEPT ![0] = "loop"]
             \/ running # 0 /\ UNCHANGED pc
      PROVE  Kinds
  <2>1. freeList # << >> /\ freeList \in Seq(Procs) /\ IsInjective(freeList)
    BY <1>1, <1>5 DEF kfork, Agree, Kept
  <2>2. PICK c : c = Head(freeList)
    OBVIOUS
  <2>3. Dequeued(Procs, freeList, priority, c, Tail(freeList))
    BY <2>1, <2>2, DequeueProperties
  <2>4. c \in Procs /\ c \in Range(freeList)
    BY <2>1, <2>3 DEF Dequeued
  <2>5. status[c] = "FREE"
    BY <1>1, <2>4 DEF Agree, Kept
  <2>6. Forks(c)
    BY <1>5, <2>2, <2>4, <2>5 DEF kfork, dequeue, Forks
  <2> QED
    BY <2>4, <2>6 DEF Kinds
<1>6. CASE MainFork
  BY <1>5, <1>6 DEF MainFork
<1>7. CASE MainSwitch
  <2>1. /\ scheduler(status, readyQueue)
        /\ UNCHANGED <<ppid, parent, event, exitCode>>
        /\ pc' = [pc EXCEPT ![0] = "tswitch"]
    BY <1>7 DEF MainSwitch
  <2>2. pc'[0] # "kfork" /\ \A p \in Procs : pc'[p] = "kwait" => pc[p] = "kwait"
    BY <1>2, <1>4, <2>1
  <2> QED
    BY <2>1, <2>2, TswitchStays DEF Kinds
<1>8. CASE DoTswitch
  <2>1. /\ scheduler(status, readyQueue)
        /\ UNCHANGED <<ppid, parent, event, exitCode, pc>>
    BY <1>8 DEF DoTswitch
  <2>2. running # 0
    BY <1>3, <1>8 DEF DoTswitch
  <2> QED
    BY <2>1, <2>2, TswitchStays DEF Kinds
<1>9. CASE DoKfork
  BY <1>3, <1>5, <1>9 DEF DoKfork
<1>10. CASE DoStop
  <2>1. PICK st : st = [status EXCEPT ![running] = "STOPPED"]
    OBVIOUS
  <2>2. /\ scheduler(st, readyQueue) /\ running # 0
        /\ UNCHANGED <<ppid, parent, event, exitCode, pc>>
    BY <1>3, <1>10, <2>1 DEF DoStop
  <2>3. \A p \in Procs : st[p] = IF p = running THEN "STOPPED" ELSE status[p]
    BY <1>1, <2>1 DEF Agree, Kept
  <2>4. st \in [Procs -> Statuses]
    BY <1>1, <2>1 DEF Agree, Kept, Statuses
  <2>5. Kept(st, priority, freeList, readyQueue, sleepList)
    BY <1>1, <1>2, <2>3, <2>4 DEF Agree, Kept
  <2>6. /\ \A p \in Procs : status'[p] = "FREE" <=> status[p] = "FREE"
        /\ \A p \in Procs : status'[p] = "ZOMBIE" <=> status[p] = "ZOMBIE"
        /\ \A p \in Procs : status'[p] = "SLEEP" <=> st[p] = "SLEEP"
        /\ \A p \in Procs \ {running} :
               status'[p] = status[p] \/ status'[p] \in {"READY", "RUNNING"}
    BY <1>2, <2>2, <2>3, <2>5, SwitchStays
  <2>7. pc[running] = "body"
    BY <1>3, <1>10 DEF DoStop
  <2>8. Stays
    BY <1>2, <2>2, <2>3, <2>6, <2>7 DEF Stays
  <2> QED
    BY <2>8 DEF Kinds
<1>11. CASE \E pid \in UserPids : DoContinue(pid)
  <2>1. PICK pid \in UserPids : DoContinue(pid)
    BY <1>11
  <2>2. /\ running # 0 /\ status[pid] = "STOPPED"
        /\ status' = [status EXCEPT ![pid] = "READY"]
        /\ UNCHANGED <<ppid, parent, event, exitCode, pc>>
    BY <1>3, <2>1 DEF DoContinue, Continuable
  <2>3. \A p \in Procs : status'[p] = IF p = pid THEN "READY" ELSE status[p]
    BY <1>1, <2>2 DEF Agree, Kept
  <2>4. Stays
    BY <2>2, <2>3 DEF Stays
  <2> QED
    BY <2>4 DEF Kinds
<1>12. CASE \E ev \in UserEvents : DoSleep(ev)
  <2>1. PICK ev \in UserEvents : DoSleep(ev)
    BY <1>12
  <2>2. /\ ksleep(ev) /\ running # 0 /\ pc[running] = "body"
        /\ UNCHANGED <<ppid, parent, priority, exitCode, freeList, nproc, pc>>
    BY <1>3, <2>1 DEF DoSleep
  <2>3. Stays
    BY <2>2, KsleepStays
  <2> QED
    BY <2>3 DEF Kinds
<1>13. CASE \E ev \in UserEvents : DoWakeup(ev)
  <2>1. PICK ev \in UserEvents : DoWakeup(ev)
    BY <1>13
  <2>2. PICK r : r = kwakeup(Lists, ev)
    OBVIOUS
  <2>3. /\ status' = r.status /\ running # 0
        /\ UNCHANGED <<ppid, parent, event, exitCode, pc>>
    BY <1>3, <2>1, <2>2 DEF DoWakeup
  <2>4. Lists.status = status /\ Lists.ready = readyQueue /\ Lists.sleep = sleepList
    BY DEF Lists
  <2>5. Woken(Lists, ev, freeList, r)
    BY <1>1, <2>2, <2>4, WakeupKeeps DEF Agree
  <2>6. \A p \in Procs : status'[p] = status[p]
                        \/ (status[p] = "SLEEP" /\ status'[p] = "READY")
    BY <2>3, <2>4, <2>5 DEF Woken
  <2>7. Stays
    BY <2>3, <2>6 DEF Stays
  <2> QED
    BY <2>7 DEF Kinds
<1>14. CASE \E pid \in UserPids, pri \in UserPris : DoChpriority(pid, pri)
  <2>1. /\ running # 0
        /\ UNCHANGED <<status, ppid, parent, event, exitCode, pc>>
    BY <1>3, <1>14 DEF DoChpriority
  <2>2. Stays
    BY <2>1 DEF Stays
  <2> QED
    BY <2>2 DEF Kinds
<1>15. ASSUME SleepOnSelf, running # 0,
              pc[running] = "kwait" \/ Children(running) # {}
       PROVE  Stays
  <2>1. /\ ksleep(Address(running)) /\ Dead(running) = {}
        /\ pc' = [pc EXCEPT ![running] = "kwait"]
        /\ UNCHANGED <<ppid, parent, priority, exitCode, freeList, nproc>>
    BY <1>15 DEF SleepOnSelf
  <2>2. Address(running) \in Int
    BY <1>2 DEF Address, Procs
  <2>3. pc'[0] = pc[0] /\ \A p \in Procs : p # running => pc'[p] = pc[p]
    BY <1>2, <1>4, <1>15, <2>1
  <2> QED
    BY <1>15, <2>1, <2>2, <2>3, KsleepStays
<1>16. CASE (DoWait \/ WaitAgain) /\ LayToRest
  <2>1. running # 0
    BY <1>1, <1>3, <1>16 DEF DoWait, WaitAgain, Sane
  <2>2. Min(Dead(running)) \in Procs
    BY <1>16, FirstDead DEF LayToRest, Dead, Children
  <2> QED
    BY <1>16, <2>1, <2>2, LayToRestBuries DEF Kinds
<1>17. CASE DoWait /\ SleepOnSelf
  <2>1. running # 0 /\ Children(running) # {}
    BY <1>3, <1>17 DEF DoWait
  <2> QED
    BY <1>15, <1>17, <2>1 DEF Kinds
<1>18. CASE WaitAgain /\ SleepOnSelf
  <2>1. running # 0 /\ pc[running] = "kwait"
    BY <1>1, <1>18 DEF WaitAgain, Sane
  <2> QED
    BY <1>15, <1>18, <2>1 DEF Kinds
<1>19. CASE \E value \in ExitValues : DoExit(value)
  <2>1. PICK value \in ExitValues : DoExit(value)
    BY <1>19
  <2>2. running # 0 /\ pc[running] = "body" /\ MayExit /\ kexit(value)
    BY <1>3, <2>1 DEF DoExit
  <2> QED
    BY <2>2, KexitDies DEF Kinds
<1>20. CASE UNCHANGED vars
  BY <1>20 DEF vars, Stays, Kinds
<1> QED
  BY <1>6, <1>7, <1>8, <1>9, <1>10, <1>11, <1>12, <1>13, <1>14, <1>16, <1>17,
     <1>18, <1>19, <1>20 DEF Next, body, DoWait, WaitAgain
-----------------------------------------------------------------------------
(* What families look like: P1 is the first that main makes; parents are     *)
(* alive; P1 is the last to die; and a process that waits sleeps on its own  *)
(* address, with a child to wait for and none that is dead already.          *)
P1First ==
    pc[0] = "kfork" =>
        /\ running = 0 /\ Head(freeList) = 1
        /\ \A p \in Procs \ {0} : status[p] = "FREE"

WaitsInKwait ==
    \A p \in Procs : pc[p] = "kwait" =>
        /\ status[p] \in {"SLEEP", "READY", "RUNNING"}
        /\ status[p] = "SLEEP" => event[p] = Address(p)

FamilyInv ==
    /\ P1First
    /\ parent[0] = NULL
    /\ WaitsInKwait
    /\ ParentsLive
    /\ P1OutlivesAll
    /\ WaitersAreWoken
    /\ NoParentCycle

(* The state that init leaves satisfies the family invariant.                *)
LEMMA FamilyInit == Init => FamilyInv
<1> SUFFICES ASSUME Init PROVE FamilyInv
  OBVIOUS
<1>1. \A p \in Procs : /\ status[p] = IF p = 0 THEN "RUNNING" ELSE "FREE"
                       /\ pc[p] # "kwait"
  BY DEF Init
<1>2. Head(freeList) = 1 /\ running = 0 /\ parent[0] = NULL
  BY ZeroAndOne DEF Init
<1>3. {p \in Procs \ {0, 1} : status[p] # "FREE"} = {}
  BY <1>1
<1> QED
  BY <1>1, <1>2, <1>3, ZeroAndOne
     DEF FamilyInv, P1First, WaitsInKwait, ParentsLive, P1OutlivesAll, WaitersAreWoken, NoParentCycle

(* With nproc at 2 there are only P0 and P1, so that P1 may exit.            *)
LEMMA OnlyTwo ==
  ASSUME KInv, nproc <= 2, status[1] # "FREE"
  PROVE  \A p \in Procs \ {0, 1} : status[p] = "FREE"
<1>1. Sane /\ Agree
  BY TwoHalves
<1> DEFINE U == {p \in Procs : status[p] # "FREE"}
<1>2. IsFiniteSet(U)
  <2>1. IsFiniteSet(Procs)
    BY FS_Interval DEF Procs
  <2> QED
    BY <2>1, FS_Subset
<1>3. Cardinality(U) <= 2
  BY <1>1 DEF Sane, NprocCounts
<1>4. 0 \in U /\ 1 \in U
  BY <1>1, ZeroAndOne DEF Sane
<1> SUFFICES ASSUME NEW p \in Procs \ {0, 1}, status[p] # "FREE" PROVE FALSE
  OBVIOUS
<1>5. p \in U
  OBVIOUS
<1> HIDE DEF U
<1>6. IsFiniteSet(U \ {0}) /\ Cardinality(U \ {0}) = Cardinality(U) - 1
  BY <1>2, <1>4, FS_RemoveElement
<1>7. IsFiniteSet((U \ {0}) \ {1}) /\ Cardinality((U \ {0}) \ {1}) = Cardinality(U) - 2
  <2>1. Cardinality((U \ {0}) \ {1}) = Cardinality(U \ {0}) - 1 /\ IsFiniteSet((U \ {0}) \ {1})
    BY <1>4, <1>6, FS_RemoveElement
  <2>2. Cardinality(U) \in Nat
    BY <1>2, FS_CardinalityType
  <2> QED
    BY <1>6, <2>1, <2>2
<1>8. Cardinality((U \ {0}) \ {1}) = 0
  BY <1>2, <1>3, <1>7, FS_CardinalityType
<1>9. (U \ {0}) \ {1} = {}
  BY <1>7, <1>8, FS_EmptySet
<1> QED
  BY <1>5, <1>9

(* A new process is a leaf: it is nobody's parent yet.                       *)
LEMMA ForksKeeps ==
  ASSUME KInv, FamilyInv, NEW c, Forks(c)
  PROVE  FamilyInv'
<1>1. Sane /\ Agree
  BY TwoHalves
<1>2. /\ c \in Procs /\ status[c] = "FREE"
      /\ \A p \in Procs : /\ status'[p] = IF p = c THEN "READY" ELSE status[p]
                          /\ ppid'[p] = IF p = c THEN running ELSE ppid[p]
                          /\ parent'[p] = IF p = c THEN running ELSE parent[p]
      /\ running' = running /\ event' = event
  BY <1>1 DEF Forks, Sane, Agree, Kept
<1>3. /\ running \in Procs /\ status[running] = "RUNNING" /\ c # running /\ c # 0
      /\ status[0] \in {"RUNNING", "READY"} /\ pc \in [Procs -> Places]
  BY <1>1, <1>2, ZeroAndOne DEF Sane
<1>4. /\ ParentsLive /\ P1OutlivesAll /\ WaitersAreWoken /\ WaitsInKwait
      /\ NoParentCycle /\ P1First /\ parent[0] = NULL
  BY DEF FamilyInv
<1>5. /\ pc'[0] = "kfork" => pc[0] = "kfork" /\ running # 0
      /\ \A p \in Procs : pc'[p] = "kwait" => pc[p] = "kwait"
  BY <1>2, <1>3, ZeroAndOne DEF Forks
<1>6. IF running = 0 THEN c = 1 /\ \A p \in Procs \ {0} : status[p] = "FREE" ELSE c # 1
  <2>1. running = 0 => c = 1 /\ \A p \in Procs \ {0} : status[p] = "FREE"
    BY <1>4 DEF Forks, P1First
  <2>2. running # 0 => c # 1
    BY <1>2, <1>3, <1>4 DEF P1OutlivesAll
  <2> QED
    BY <2>1, <2>2
<1>7. P1First'
  BY <1>4, <1>5 DEF P1First
<1>8. WaitsInKwait'
  BY <1>2, <1>4, <1>5 DEF WaitsInKwait
<1>9. ParentsLive'
  <2>1. running \in Alive' /\ Alive \subseteq Alive'
    BY <1>2, <1>3 DEF Alive
  <2>2. \A p \in Procs \ {0} : p # c /\ status'[p] # "FREE" =>
            /\ ppid'[p] = parent'[p] /\ parent'[p] \in Alive' \ {p}
            /\ p = 1 => parent'[p] = 0
    BY <1>2, <1>4, <2>1 DEF ParentsLive
  <2>3. ppid'[c] = parent'[c] /\ parent'[c] \in Alive' \ {c} /\ (c = 1 => parent'[c] = 0)
    BY <1>2, <1>3, <1>6, <2>1
  <2> QED
    BY <2>2, <2>3 DEF ParentsLive
<1>10. P1OutlivesAll'
  BY <1>2, <1>3, <1>4, <1>6, ZeroAndOne DEF P1OutlivesAll
<1>11. WaitersAreWoken'
  <2> SUFFICES ASSUME NEW p \in Procs, pc'[p] = "kwait", status'[p] \notin {"FREE", "ZOMBIE"}
               PROVE  /\ Children(p)' # {}
                      /\ status'[p] = "SLEEP" => Dead(p)' = {}
    BY DEF WaitersAreWoken
  <2>1. pc[p] = "kwait" /\ p # c /\ status'[p] = status[p]
    BY <1>2, <1>4, <1>5 DEF WaitsInKwait
  <2>2. Children(p) # {} /\ (status[p] = "SLEEP" => Dead(p) = {})
    BY <1>2, <2>1, <1>4 DEF WaitersAreWoken
  <2>3. Children(p) \subseteq Children(p)'
    BY <1>2 DEF Children
  <2>4. Dead(p)' \subseteq Dead(p)
    BY <1>2 DEF Dead, Children
  <2> QED
    BY <2>1, <2>2, <2>3, <2>4
<1>12. NoParentCycle'
  <2> SUFFICES ASSUME NEW S \in SUBSET {p \in Procs \ {0, 1} : status'[p] # "FREE"}, S # {}
               PROVE  \E p \in S : parent'[p] \notin S
    BY DEF NoParentCycle
  <2>1. CASE S = {c}
    BY <1>2, <1>3, <2>1
  <2>2. CASE S # {c}
    <3>1. S \ {c} # {} /\ S \ {c} \in SUBSET {p \in Procs \ {0, 1} : status[p] # "FREE"}
      BY <1>2, <2>2
    <3>2. PICK p \in S \ {c} : parent[p] \notin S \ {c}
      BY <1>4, <3>1 DEF NoParentCycle
    <3>3. p \in Procs \ {0} /\ status[p] # "FREE"
      BY <3>1
    <3>4. parent[p] # c
      BY <1>2, <1>4, <3>3 DEF ParentsLive, Alive
    <3> QED
      BY <1>2, <3>2, <3>3, <3>4
  <2> QED
    BY <2>1, <2>2
<1>13. parent'[0] = NULL
  BY <1>2, <1>3, <1>4, ZeroAndOne
<1> QED
  BY <1>7, <1>8, <1>9, <1>10, <1>11, <1>12, <1>13 DEF FamilyInv

(* A burial takes away a leaf: whoever is dead has no children.              *)
LEMMA BuriesKeeps ==
  ASSUME KInv, FamilyInv, NEW c, Buries(c)
  PROVE  FamilyInv'
<1>1. Sane /\ Agree
  BY TwoHalves
<1>2. c \in Procs /\ status[c] = "ZOMBIE" /\ ppid[c] = running /\ running # 0
  BY DEF Buries, Dead, Children
<1>3. /\ \A p \in Procs : /\ status'[p] = IF p = c THEN "FREE" ELSE status[p]
                          /\ pc'[p] = IF p = running THEN "body" ELSE pc[p]
      /\ UNCHANGED <<running, ppid, parent, event>>
  BY <1>1 DEF Buries, Sane, Agree, Kept
<1>4. running \in Procs /\ status[running] = "RUNNING" /\ 0 \in Procs
  BY <1>1, ZeroAndOne DEF Sane
<1>5. /\ ParentsLive /\ P1OutlivesAll /\ WaitersAreWoken /\ WaitsInKwait
      /\ NoParentCycle /\ P1First /\ parent[0] = NULL
  BY DEF FamilyInv
<1>6. c # 1 /\ c # 0
  BY <1>1, <1>2, <1>5 DEF Sane, ParentsLive
<1>7. \A p \in Procs \ {0} : status[p] # "FREE" => parent[p] # c /\ ppid[p] = parent[p]
  BY <1>2, <1>5 DEF ParentsLive, Alive
<1>8. P1First'
  BY <1>2, <1>3, <1>4, <1>5 DEF P1First
<1>9. WaitsInKwait'
  BY <1>2, <1>3, <1>5 DEF WaitsInKwait
<1>10. ParentsLive'
  <2>1. Alive \subseteq Alive'
    BY <1>2, <1>3 DEF Alive
  <2> QED
    BY <1>3, <1>5, <2>1 DEF ParentsLive
<1>11. P1OutlivesAll'
  BY <1>3, <1>5, <1>6, ZeroAndOne DEF P1OutlivesAll
<1>12. WaitersAreWoken'
  <2> SUFFICES ASSUME NEW p \in Procs, pc'[p] = "kwait", status'[p] \notin {"FREE", "ZOMBIE"}
               PROVE  /\ Children(p)' # {}
                      /\ status'[p] = "SLEEP" => Dead(p)' = {}
    BY DEF WaitersAreWoken
  <2>1. pc[p] = "kwait" /\ p # running /\ status'[p] = status[p]
    BY <1>3
  <2>2. Children(p) # {} /\ (status[p] = "SLEEP" => Dead(p) = {})
    BY <2>1, <1>5 DEF WaitersAreWoken
  <2>3. Children(p) \subseteq Children(p)'
    BY <1>2, <1>3, <2>1 DEF Children
  <2>4. Dead(p)' \subseteq Dead(p)
    BY <1>3 DEF Dead, Children
  <2> QED
    BY <2>1, <2>2, <2>3, <2>4
<1>13. NoParentCycle'
  <2> SUFFICES ASSUME NEW S \in SUBSET {p \in Procs \ {0, 1} : status'[p] # "FREE"}, S # {}
               PROVE  \E p \in S : parent'[p] \notin S
    BY DEF NoParentCycle
  <2>1. S \in SUBSET {p \in Procs \ {0, 1} : status[p] # "FREE"}
    BY <1>2, <1>3
  <2> QED
    BY <1>3, <1>5, <2>1 DEF NoParentCycle
<1> QED
  BY <1>3, <1>5, <1>8, <1>9, <1>10, <1>11, <1>12, <1>13 DEF FamilyInv

(* Steps that leave families alone.                                          *)
LEMMA StaysKeeps ==
  ASSUME KInv, FamilyInv, Stays
  PROVE  FamilyInv'
<1>1. Sane /\ Agree
  BY TwoHalves
<1>2. /\ \A p \in Procs : status'[p] = "FREE" <=> status[p] = "FREE"
      /\ \A p \in Procs : status'[p] = "ZOMBIE" <=> status[p] = "ZOMBIE"
      /\ UNCHANGED <<ppid, parent, exitCode>>
  BY DEF Stays
<1>3. \A p \in Procs : pc'[p] = "kwait" =>
           pc[p] = "kwait" \/ (p = running /\ Children(p) # {})
  BY DEF Stays
<1>4. /\ ParentsLive /\ P1OutlivesAll /\ WaitersAreWoken /\ WaitsInKwait
      /\ NoParentCycle /\ P1First /\ parent[0] = NULL
  BY DEF FamilyInv
<1>5. running \in Procs /\ status[running] = "RUNNING"
  BY <1>1 DEF Sane
<1>6. P1First'
  BY <1>4 DEF P1First, Stays
<1>7. \A p \in Procs : Children(p)' = Children(p) /\ Dead(p)' = Dead(p)
  BY <1>2 DEF Children, Dead
<1>8. Alive' = Alive
  BY <1>2 DEF Alive
<1>9. WaitsInKwait'
  <2> SUFFICES ASSUME NEW p \in Procs, pc'[p] = "kwait"
               PROVE  /\ status'[p] \in {"SLEEP", "READY", "RUNNING"}
                      /\ status'[p] = "SLEEP" => event'[p] = Address(p)
    BY DEF WaitsInKwait, Address
  <2>1. status[p] \in {"SLEEP", "READY", "RUNNING"}
    BY <1>3, <1>4, <1>5 DEF WaitsInKwait
  <2>2. status'[p] \in {"SLEEP", "READY", "RUNNING"}
    BY <2>1 DEF Stays
  <2>3. status'[p] = "SLEEP" => event'[p] = Address(p)
    BY <1>4 DEF Stays, WaitsInKwait
  <2> QED
    BY <2>2, <2>3
<1>10. WaitersAreWoken'
  <2> SUFFICES ASSUME NEW p \in Procs, pc'[p] = "kwait", status'[p] \notin {"FREE", "ZOMBIE"}
               PROVE  /\ Children(p)' # {}
                      /\ status'[p] = "SLEEP" => Dead(p)' = {}
    BY DEF WaitersAreWoken
  <2>1. status[p] \notin {"FREE", "ZOMBIE"}
    BY <1>2
  <2>2. Children(p) # {}
    BY <1>3, <1>4, <2>1 DEF WaitersAreWoken
  <2>3. status'[p] = "SLEEP" => Dead(p) = {}
    BY <1>4, <2>1 DEF Stays, WaitersAreWoken
  <2> QED
    BY <1>7, <2>2, <2>3
<1>11. ParentsLive' /\ P1OutlivesAll'
  BY <1>2, <1>4, <1>8, ZeroAndOne DEF ParentsLive, P1OutlivesAll
<1>12. NoParentCycle'
  BY <1>2, <1>4 DEF NoParentCycle
<1> QED
  BY <1>2, <1>4, <1>6, <1>9, <1>10, <1>11, <1>12 DEF FamilyInv

(* A death leaves nobody without a living parent: P1 is alive, or else there *)
(* is nobody left to adopt.                                                  *)
LEMMA DiesKeeps ==
  ASSUME KInv, FamilyInv, NEW value, Dies(value)
  PROVE  FamilyInv'
<1>1. Sane /\ Agree
  BY TwoHalves
<1>2. /\ running # 0 /\ pc[running] = "body" /\ MayExit
      /\ \A p \in Procs : status'[p] = "FREE" <=> status[p] = "FREE"
      /\ \A p \in Procs : status'[p] = "ZOMBIE" <=> p = running \/ status[p] = "ZOMBIE"
      /\ \A p \in Procs : status'[p] = "SLEEP" =>
             /\ status[p] = "SLEEP"
             /\ event[p] \notin {Address(parent[running]), Address(1)}
      /\ UNCHANGED <<event, pc>>
  BY DEF Dies
<1>3. /\ running \in Procs /\ status[running] = "RUNNING" /\ 0 \in Procs /\ 1 \in Procs
      /\ status \in [Procs -> Statuses] /\ nproc \in Int
      /\ status[0] \in {"RUNNING", "READY"}
  BY <1>1, ZeroAndOne DEF Sane, Agree, Kept
<1>4. /\ ParentsLive /\ P1OutlivesAll /\ WaitersAreWoken /\ WaitsInKwait
      /\ NoParentCycle /\ P1First /\ parent[0] = NULL
  BY DEF FamilyInv
<1>5. \A p \in Procs : LET adopted == p # 0 /\ status[p] # "FREE" /\ ppid[p] = running
                      IN  /\ ppid'[p] = IF adopted THEN 1 ELSE ppid[p]
                          /\ parent'[p] = IF adopted THEN 1 ELSE parent[p]
  BY DEF Dies, SendToP1, Orphans, Children
<1>6. IF running = 1 THEN \A p \in Procs \ {0, 1} : status[p] = "FREE"
      ELSE status[1] \notin {"FREE", "ZOMBIE"}
  <2>1. ASSUME running = 1 PROVE \A p \in Procs \ {0, 1} : status[p] = "FREE"
    <3>1. nproc <= 2
      BY <1>2, <1>3, <2>1 DEF MayExit
    <3> QED
      BY <1>3, <2>1, <3>1, OnlyTwo
  <2>2. ASSUME running # 1 PROVE status[1] \notin {"FREE", "ZOMBIE"}
    BY <1>2, <1>3, <1>4, <2>2 DEF P1OutlivesAll
  <2> QED
    BY <2>1, <2>2
<1>7. status[1] # "FREE" /\ ppid[1] = 0 /\ parent[1] = 0
  <2>1. status[1] # "FREE"
    BY <1>3, <1>6
  <2> QED
    BY <1>3, <1>4, <2>1 DEF ParentsLive
<1>8. P1First'
  BY <1>2, <1>3, <1>4 DEF P1First
<1>9. WaitsInKwait'
  <2> SUFFICES ASSUME NEW p \in Procs, pc[p] = "kwait"
               PROVE  /\ status'[p] \in {"SLEEP", "READY", "RUNNING"}
                      /\ status'[p] = "SLEEP" => event[p] = Address(p)
    BY <1>2 DEF WaitsInKwait, Address
  <2>1. status[p] \in {"SLEEP", "READY", "RUNNING"} /\ p # running
    BY <1>2, <1>4 DEF WaitsInKwait
  <2>2. status'[p] \in {"SLEEP", "READY", "RUNNING"}
    BY <1>2, <2>1 DEF Dies
  <2> QED
    BY <1>2, <1>4, <2>2 DEF WaitsInKwait
<1>10. ParentsLive'
  <2>1. \A p \in Alive : p # running => p \in Alive'
    BY <1>2 DEF Alive
  <2>2. running # 1 => 1 \in Alive'
    BY <1>2, <1>3, <1>6 DEF Alive
  <2> SUFFICES ASSUME NEW p \in Procs \ {0}, status'[p] # "FREE"
               PROVE  /\ ppid'[p] = parent'[p]
                      /\ parent'[p] \in Alive' \ {p}
                      /\ p = 1 => parent'[p] = 0
    BY DEF ParentsLive
  <2>3. /\ status[p] # "FREE" /\ ppid[p] = parent[p] /\ parent[p] \in Alive \ {p}
        /\ p = 1 => parent[p] = 0
    BY <1>2, <1>4 DEF ParentsLive
  <2>4. CASE ppid[p] = running
    <3>1. p # 1 /\ ppid'[p] = 1 /\ parent'[p] = 1
      BY <1>2, <1>5, <1>7, <2>3, <2>4
    <3>2. running # 1
      BY <1>6, <2>3, <3>1
    <3> QED
      BY <2>2, <3>1, <3>2
  <2>5. CASE ppid[p] # running
    BY <1>5, <2>1, <2>3, <2>5
  <2> QED
    BY <2>4, <2>5
<1>11. P1OutlivesAll'
  BY <1>2, <1>3, <1>6 DEF P1OutlivesAll
<1>12. WaitersAreWoken'
  <2> SUFFICES ASSUME NEW p \in Procs, pc[p] = "kwait", status'[p] \notin {"FREE", "ZOMBIE"}
               PROVE  /\ Children(p)' # {}
                      /\ status'[p] = "SLEEP" => Dead(p)' = {}
    BY <1>2 DEF WaitersAreWoken
  <2>1. p # running /\ status[p] \notin {"FREE", "ZOMBIE"}
    BY <1>2
  <2>2. Children(p) # {} /\ (status[p] = "SLEEP" => Dead(p) = {})
    BY <2>1, <1>4 DEF WaitersAreWoken
  <2>3. Children(p) \subseteq Children(p)'
    BY <1>2, <1>5, <2>1 DEF Children
  <2>4. ASSUME status'[p] = "SLEEP" PROVE Dead(p)' = {}
    <3>1. status[p] = "SLEEP" /\ p # 1 /\ p # parent[running]
      BY <1>2, <1>4, <2>4 DEF WaitsInKwait
    <3>2. ASSUME NEW c \in Dead(p)' PROVE c \in Dead(p)
      <4>1. c \in Procs /\ status'[c] = "ZOMBIE" /\ ppid'[c] = p
        BY <3>2 DEF Dead, Children
      <4>2. ppid[c] = p
        BY <1>5, <3>1, <4>1
      <4>3. c # running
        BY <1>2, <1>3, <1>4, <3>1, <4>2 DEF ParentsLive
      <4> QED
        BY <1>2, <4>1, <4>2, <4>3 DEF Dead, Children
    <3> QED
      BY <2>2, <3>1, <3>2
  <2> QED
    BY <2>2, <2>3, <2>4
<1>13. NoParentCycle'
  <2> SUFFICES ASSUME NEW S \in SUBSET {p \in Procs \ {0, 1} : status'[p] # "FREE"}, S # {}
               PROVE  \E p \in S : parent'[p] \notin S
    BY DEF NoParentCycle
  <2>1. S \in SUBSET {p \in Procs \ {0, 1} : status[p] # "FREE"}
    BY <1>2
  <2>2. PICK p \in S : parent[p] \notin S
    BY <1>4, <2>1 DEF NoParentCycle
  <2>3. parent'[p] \in {1, parent[p]} /\ 1 \notin S
    BY <1>5, <2>1
  <2> QED
    BY <2>2, <2>3
<1>14. parent'[0] = NULL
  BY <1>3, <1>4, <1>5
<1> QED
  BY <1>8, <1>9, <1>10, <1>11, <1>12, <1>13, <1>14 DEF FamilyInv

(* Every step keeps the family invariant.                                    *)
LEMMA FamilyNext == (KInv /\ FamilyInv /\ [Next]_vars) => FamilyInv'
BY NextKinds, ForksKeeps, DiesKeeps, BuriesKeeps, StaysKeeps DEF Kinds

(* Families are in order in every state the kernel reaches.                  *)
THEOREM FamilyInvariance == Spec => []FamilyInv
BY FamilyInit, FamilyNext, KInvariance, PTL DEF Spec

(* Every process has a living parent, known by ppid and parent alike.        *)
THEOREM NobodyIsOrphaned == Spec => []ParentsLive
<1>1. FamilyInv => ParentsLive
  BY DEF FamilyInv
<1> QED
  BY <1>1, FamilyInvariance, PTL

(* Following parents leads to P1.                                            *)
THEOREM ParentsLeadToP1 == Spec => []NoParentCycle
<1>1. FamilyInv => NoParentCycle
  BY DEF FamilyInv
<1> QED
  BY <1>1, FamilyInvariance, PTL

(* do_exit lets P1 go only when there is nobody left whom it could adopt.    *)
THEOREM P1IsLast == Spec => []P1OutlivesAll
<1>1. FamilyInv => P1OutlivesAll
  BY DEF FamilyInv
<1> QED
  BY <1>1, FamilyInvariance, PTL

(* The wakeups of kexit reach everybody asleep in kwait whom they concern,   *)
(* those included whom P1 inherits dead, so that nobody waits in vain.       *)
THEOREM NobodyWaitsInVain == Spec => []WaitersAreWoken
<1>1. FamilyInv => WaitersAreWoken
  BY DEF FamilyInv
<1> QED
  BY <1>1, FamilyInvariance, PTL

-----------------------------------------------------------------------------
(* In terms of ProcLife, each kind of step is one of its actions.            *)
LEMMA ForksIsFork ==
  ASSUME KInv, FamilyInv, NEW c, Forks(c)
  PROVE  Promise!Fork(c)
<1>1. Sane /\ Agree
  BY TwoHalves
<1>2. /\ c \in Procs /\ status[c] = "FREE"
      /\ \A p \in Procs : /\ status'[p] = IF p = c THEN "READY" ELSE status[p]
                          /\ parent'[p] = IF p = c THEN running ELSE parent[p]
      /\ running' = running /\ exitCode' = exitCode
  BY <1>1 DEF Forks, Sane, Agree, Kept
<1>3. LifeOf(c) = "none"
  BY <1>2 DEF LifeOf
<1>4. \A p \in Procs : LifeOf(p)' = IF p = c THEN "alive" ELSE LifeOf(p)
  BY <1>2 DEF LifeOf
<1> QED
  BY <1>2, <1>3, <1>4 DEF Promise!Fork

(* The four kinds of step are the four steps of ProcLife: a burial is a      *)
(* Bury,                                                                     *)
LEMMA BuriesIsBury ==
  ASSUME KInv, FamilyInv, NEW c, Buries(c)
  PROVE  Promise!Bury(c)
<1>1. Sane /\ Agree
  BY TwoHalves
<1>2. c \in Procs /\ status[c] = "ZOMBIE" /\ ppid[c] = running /\ running # 0
  BY DEF Buries, Dead, Children
<1>3. /\ \A p \in Procs : status'[p] = IF p = c THEN "FREE" ELSE status[p]
      /\ UNCHANGED <<running, parent, exitCode>>
  BY <1>1 DEF Buries, Agree, Kept
<1>4. c # 0 /\ parent[c] = running
  BY <1>1, <1>2 DEF Sane, FamilyInv, ParentsLive
<1>5. \A p \in Procs : LifeOf(p)' = IF p = c THEN "none" ELSE LifeOf(p)
  BY <1>3 DEF LifeOf
<1>6. LifeOf(c) = "dead"
  BY <1>2 DEF LifeOf
<1> QED
  BY <1>2, <1>3, <1>4, <1>5, <1>6 DEF Promise!Bury

(* Whoever runs after a step that switches is alive.                         *)
LEMMA RunsAlive ==
  ASSUME KInv'
  PROVE  Promise!Switch
<1>0. Sane'
  BY TwoHalves, PTL
<1>1. running' \in Procs /\ status'[running'] = "RUNNING"
  BY <1>0 DEF Sane
<1> QED
  BY <1>1 DEF Promise!Switch, LifeOf

(* a death is a Die,                                                         *)
LEMMA DiesIsDie ==
  ASSUME KInv, FamilyInv, KInv', NEW value, Dies(value)
  PROVE  Promise!Die(value)
<1>1. Sane /\ Agree
  BY TwoHalves
<1>2. /\ running # 0 /\ MayExit
      /\ \A p \in Procs : status'[p] = "FREE" <=> status[p] = "FREE"
      /\ \A p \in Procs : status'[p] = "ZOMBIE" <=> p = running \/ status[p] = "ZOMBIE"
      /\ exitCode' = [exitCode EXCEPT ![running] = value]
  BY DEF Dies
<1>3. /\ running \in Procs /\ status[running] = "RUNNING" /\ nproc \in Int
      /\ exitCode \in [Procs -> Int]
  BY <1>1 DEF Sane
<1>4. ParentsLive /\ parent[0] = NULL
  BY DEF FamilyInv
<1>5. \A p \in Procs : parent'[p] = IF p # 0 /\ status[p] # "FREE" /\ ppid[p] = running
                                   THEN 1 ELSE parent[p]
  BY DEF Dies, SendToP1, Orphans, Children
<1>6. running = 1 => \A q \in Procs \ {0, 1} : LifeOf(q) = "none"
  <2> SUFFICES ASSUME running = 1 PROVE \A q \in Procs \ {0, 1} : LifeOf(q) = "none"
    OBVIOUS
  <2>1. nproc <= 2
    BY <1>2, <1>3 DEF MayExit
  <2>2. \A q \in Procs \ {0, 1} : status[q] = "FREE"
    BY <1>3, <2>1, OnlyTwo
  <2> QED
    BY <2>2 DEF LifeOf
<1>7. \A p \in Procs : LifeOf(p)' = IF p = running THEN "dead" ELSE LifeOf(p)
  BY <1>2, <1>3 DEF LifeOf
<1> DEFINE mother(p) == IF status[p] = "FREE" THEN NULL ELSE parent[p]
<1>8. \A p \in Procs : (IF status'[p] = "FREE" THEN NULL ELSE parent'[p])
                       = IF mother(p) = running THEN 1 ELSE mother(p)
  <2>1. running # NULL
    BY <1>3 DEF Procs
  <2>2. parent'[0] = NULL
    BY <1>4, <1>5, ZeroAndOne
  <2> SUFFICES ASSUME NEW p \in Procs \ {0}
               PROVE  (IF status'[p] = "FREE" THEN NULL ELSE parent'[p])
                      = IF mother(p) = running THEN 1 ELSE mother(p)
    BY <1>4, <2>1, <2>2
  <2>3. status[p] # "FREE" => ppid[p] = parent[p]
    BY <1>4 DEF ParentsLive
  <2> QED
    BY <1>2, <1>5, <2>1, <2>3
<1>9. \A p \in Procs : (IF status'[p] = "ZOMBIE" THEN exitCode'[p] ELSE 0)
                       = IF p = running THEN value
                         ELSE IF status[p] = "ZOMBIE" THEN exitCode[p] ELSE 0
  BY <1>2, <1>3
<1>10. Promise!Switch
  BY RunsAlive
<1>11. [p \in Procs |-> LifeOf(p)]' = [[p \in Procs |-> LifeOf(p)] EXCEPT ![running] = "dead"]
  BY <1>3, <1>7
<1>12. [p \in Procs |-> IF status[p] = "FREE" THEN NULL ELSE parent[p]]'
        = [c \in Procs |-> IF [p \in Procs |-> mother(p)][c] = running THEN 1
                           ELSE [p \in Procs |-> mother(p)][c]]
  BY <1>8
<1>13. [p \in Procs |-> IF status[p] = "ZOMBIE" THEN exitCode[p] ELSE 0]'
        = [[p \in Procs |-> IF status[p] = "ZOMBIE" THEN exitCode[p] ELSE 0]
              EXCEPT ![running] = value]
  BY <1>3, <1>9
<1>14. running = 1 => \A q \in Procs \ {0, 1} : [p \in Procs |-> LifeOf(p)][q] = "none"
  BY <1>6
<1> QED
  BY <1>2, <1>10, <1>11, <1>12, <1>13, <1>14 DEF Promise!Die

(* a step that leaves families alone is a Yield or a stutter.                *)
LEMMA StaysIsYield ==
  ASSUME KInv', Stays
  PROVE  Promise!Yield
<1>1. \A p \in Procs : LifeOf(p)' = LifeOf(p)
  BY DEF Stays, LifeOf
<1>2. Promise!Switch
  BY RunsAlive
<1> QED
  BY <1>1, <1>2 DEF Stays, Promise!Yield

(* So every step of the kernel is one of ProcLife or a stutter,              *)
LEMMA LifeStep ==
  ASSUME KInv, FamilyInv, KInv', [Next]_vars
  PROVE  Promise!LifeNext
BY NextKinds, ForksIsFork, DiesIsDie, BuriesIsBury, StaysIsYield
   DEF Kinds, Forks, Buries, Dead, Children, Promise!LifeNext

(* and it starts where ProcLife starts.                                      *)
LEMMA LifeStart == Init => Promise!LifeInit
BY ZeroAndOne DEF Init, LifeOf, Promise!LifeInit

(* The kernel keeps the promises of ProcLife, whatever the scheduler, the    *)
(* queues and the sleepers do and whatever is typed: a process is forked by  *)
(* a living one, leaves its children to P1 when it dies and is laid to rest  *)
(* once, by its parent of the time.                                          *)
THEOREM ImplementsProcLife == Spec => KeepsPromise
<1>1. (KInv /\ FamilyInv /\ KInv' /\ [Next]_vars) => [Promise!LifeNext]_(Promise!lifeVars)
  BY LifeStep
<1> QED
  BY <1>1, LifeStart, KInvariance, FamilyInvariance, PTL
     DEF Spec, KeepsPromise, Promise!LifeSpec
=============================================================================
