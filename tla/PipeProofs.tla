----------------------------- MODULE PipeProofs -----------------------------
(***************************************************************************)
(* What holds of the pipes of 7-semaphores-serial for any number of        *)
(* processes, pipes and descriptors, any size of a pipe and any bytes: the *)
(* ring of a pipe in use is sound, the counters of users cover those who   *)
(* use it, a sleeper keeps the pipe that it sleeps on and is woken for     *)
(* what it waits for, and the kernel implements PipeChannel.               *)
(***************************************************************************)
EXTENDS PipeKernel, ProcKernelProofs

USE ProcKernelAssumption, TestsRunning, PipeAssumption, PipeKernelAssumption DEF NULL

-----------------------------------------------------------------------------
(* The places of a ring: of numbers below zero,                              *)
LEMMA ModBelow ==
  ASSUME NEW x \in Int, -PSIZE <= x, x < 0
  PROVE  x % PSIZE = x + PSIZE
OBVIOUS

(* of numbers short of its size,                                             *)
LEMMA ModOnce ==
  ASSUME NEW x \in Int, 0 <= x, x < PSIZE
  PROVE  x % PSIZE = x
OBVIOUS

(* and of numbers short of two turns.                                        *)
LEMMA ModTwice ==
  ASSUME NEW x \in Int, PSIZE <= x, x < 2 * PSIZE
  PROVE  x % PSIZE = x - PSIZE
OBVIOUS

(* The place that is i past t.                                              *)
At(t, i) == (t + i) % PSIZE

(* It is inside the ring.                                                    *)
LEMMA AtInside ==
  ASSUME NEW t \in Slots, NEW i \in 0 .. PSIZE
  PROVE  At(t, i) \in Slots
<1>1. PICK x \in Int : x = t + i /\ 0 <= x /\ x < 2 * PSIZE
  BY DEF Slots
<1>2. PICK r : r = x % PSIZE
  OBVIOUS
<1>3. r \in Slots
  BY <1>1, <1>2, ModOnce, ModTwice DEF Slots
<1> QED
  BY <1>1, <1>2, <1>3 DEF At

(* To go on from a place is to go on from where one started.                 *)
LEMMA AtOnward ==
  ASSUME NEW t \in Slots, NEW i \in 0 .. PSIZE, NEW j \in 0 .. PSIZE,
         i + j <= PSIZE
  PROVE  At(At(t, i), j) = At(t, i + j)
<1>1. PICK x \in Int : x = t + i /\ 0 <= x /\ x + j < 2 * PSIZE
  BY DEF Slots
<1>2. PICK r : r = x % PSIZE
  OBVIOUS
<1>3. (r + j) % PSIZE = (x + j) % PSIZE
  <2>1. CASE x < PSIZE
    BY <1>1, <1>2, <2>1, ModOnce
  <2>2. CASE PSIZE <= x
    <3>1. r = x - PSIZE
      BY <1>1, <1>2, <2>2, ModTwice
    <3>2. r + j = x + j - PSIZE /\ 0 <= r + j /\ r + j < PSIZE
      BY <1>1, <2>2, <3>1
    <3>3. (r + j) % PSIZE = x + j - PSIZE
      BY <3>1, <3>2, ModOnce
    <3>4. (x + j) % PSIZE = x + j - PSIZE
      BY <1>1, <2>2, ModTwice
    <3> QED
      BY <3>3, <3>4
  <2> QED
    BY <1>1, <2>1, <2>2
<1>4. t + (i + j) = x + j
  BY <1>1 DEF Slots
<1> QED
  BY <1>1, <1>2, <1>3, <1>4 DEF At

(* How far the place i lies behind the place h.                              *)
Behind(i, h) == (i - h) % PSIZE

(* It is inside the ring, too.                                              *)
LEMMA BehindInside ==
  ASSUME NEW i \in Slots, NEW h \in Slots
  PROVE  Behind(i, h) \in Slots
<1>1. PICK x \in Int : x = i - h /\ -PSIZE <= x /\ x < PSIZE
  BY DEF Slots
<1>2. PICK r : r = x % PSIZE
  OBVIOUS
<1>3. r \in Slots
  BY <1>1, <1>2, ModOnce, ModBelow DEF Slots
<1> QED
  BY <1>1, <1>2, <1>3 DEF Behind

(* How far a place that is a past t lies behind one that is b past it.       *)
LEMMA AtBehind ==
  ASSUME NEW t \in Slots, NEW a \in 0 .. PSIZE - 1, NEW b \in 0 .. PSIZE
  PROVE  Behind(At(t, a), At(t, b)) = IF a >= b THEN a - b ELSE a - b + PSIZE
<1>1. PICK x, y : x = At(t, a) /\ y = At(t, b)
  OBVIOUS
<1>2. /\ x = IF t + a < PSIZE THEN t + a ELSE t + a - PSIZE
      /\ y = IF t + b < PSIZE THEN t + b ELSE t + b - PSIZE
  BY <1>1, ModOnce, ModTwice DEF Slots, At
<1>3. x \in Int /\ y \in Int /\ -PSIZE < x - y /\ x - y < PSIZE
  BY <1>2 DEF Slots
<1>4. x - y = a - b \/ x - y = a - b + PSIZE \/ x - y = a - b - PSIZE
  BY <1>2 DEF Slots
<1>5. (x - y) % PSIZE = IF x - y < 0 THEN x - y + PSIZE ELSE x - y
  BY <1>3, ModOnce, ModBelow
<1>6. a \in Int /\ b \in Int /\ t \in Int /\ 0 <= a /\ a < PSIZE /\ 0 <= b /\ b <= PSIZE
      /\ 0 <= t /\ t < PSIZE /\ PSIZE \in Int
  BY DEF Slots
<1>7. CASE a >= b
  <2>1. x - y = a - b \/ x - y = a - b - PSIZE
    BY <1>2, <1>6, <1>7
  <2> QED
    BY <1>1, <1>3, <1>5, <1>6, <1>7, <2>1 DEF Behind
<1>8. CASE a < b
  <2>1. x - y = a - b \/ x - y = a - b + PSIZE
    BY <1>2, <1>6, <1>8
  <2> QED
    BY <1>1, <1>3, <1>5, <1>6, <1>8, <2>1 DEF Behind
<1> QED
  BY <1>6, <1>7, <1>8

-----------------------------------------------------------------------------
(* A pipe, sound or not: no byte is lost to a counter out of its bounds.     *)
Cells == Bytes \cup {0}

Rings == [buf : [Slots -> Cells], head : Slots, tail : Slots,
          data : 0 .. PSIZE, room : 0 .. PSIZE,
          nreader : 0 .. MaxCount, nwriter : 0 .. MaxCount]

(* What is read next is what lies from tail on.                              *)
LEMMA OldestBytes ==
  ASSUME NEW p \in Rings, NEW n \in 0 .. PSIZE, NEW s, s = Oldest(p, n)
  PROVE  /\ s \in Seq(Cells)
         /\ Len(s) = n
         /\ \A i \in 1 .. n : s[i] = p.buf[At(p.tail, i - 1)]
<1>1. p.buf \in [Slots -> Cells] /\ p.tail \in Slots
  BY DEF Rings
<1>2. \A i \in 1 .. n : At(p.tail, i - 1) \in Slots
  <2> TAKE i \in 1 .. n
  <2>1. i - 1 \in 0 .. PSIZE
    OBVIOUS
  <2> QED
    BY <1>1, <2>1, AtInside
<1>3. s = [i \in 1 .. n |-> p.buf[At(p.tail, i - 1)]]
  <2>1. \A i \in 1 .. n : (p.tail + i - 1) = p.tail + (i - 1)
    BY <1>1 DEF Slots
  <2> QED
    BY <2>1 DEF Oldest, At
<1>4. /\ s \in [1 .. n -> Cells]
      /\ \A i \in 1 .. n : s[i] = p.buf[At(p.tail, i - 1)]
  BY <1>1, <1>2, <1>3
<1> QED
  BY <1>4

(* What is in a pipe is what is read next, all of it.                       *)
LEMMA ContentsBytes ==
  ASSUME NEW p \in Rings, NEW c, c = Contents(p)
  PROVE  /\ c \in Seq(Cells)
         /\ Len(c) = p.data
         /\ \A i \in 1 .. p.data : c[i] = p.buf[At(p.tail, i - 1)]
<1>1. p.data \in 0 .. PSIZE
  BY DEF Rings
<1>2. c = Oldest(p, p.data)
  BY DEF Contents
<1> QED
  BY ZenonT(40), <1>1, <1>2, OldestBytes

(* A pipe that kpipe opens, or that its last user has closed, is empty.      *)
LEMMA OpenedIsEmpty ==
  ASSUME NEW p \in Rings, NEW q, q = Opened(p)
  PROVE  /\ q \in Rings /\ RingIsSound(q) /\ Contents(q) = << >>
         /\ q.nreader = 1 /\ q.nwriter = 1 /\ q.data = 0 /\ q.room = PSIZE
<1>1. /\ q.head = 0 /\ q.tail = 0 /\ q.data = 0 /\ q.room = PSIZE
      /\ q.nreader = 1 /\ q.nwriter = 1
      /\ q \in Rings
  <2>1. 0 \in Slots /\ 0 \in 0 .. PSIZE /\ PSIZE \in 0 .. PSIZE /\ 1 \in 0 .. MaxCount
    BY DEF Slots
  <2>2. q = [p EXCEPT !.head = 0, !.tail = 0, !.data = 0, !.room = PSIZE,
                      !.nreader = 1, !.nwriter = 1]
    BY DEF Opened
  <2> QED
    BY <2>1, <2>2 DEF Rings
<1>2. (0 + 0) % PSIZE = 0
  BY ModOnce
<1>3. RingIsSound(q)
  BY <1>1, <1>2 DEF RingIsSound, Slots
<1>4. Contents(q) = << >>
  <2>1. Contents(q) \in Seq(Cells) /\ Len(Contents(q)) = 0
    BY <1>1, ContentsBytes
  <2> QED
    BY <2>1, EmptySeq
<1> QED
  BY <1>1, <1>3, <1>4

(* The last user leaves a pipe empty.                                       *)
LEMMA EmptiedIsEmpty ==
  ASSUME NEW p \in Rings, NEW q, q = Emptied(p)
  PROVE  /\ q \in Rings /\ Contents(q) = << >>
         /\ q.nreader = p.nreader /\ q.nwriter = p.nwriter
<1>1. /\ q.data = 0 /\ q.nreader = p.nreader /\ q.nwriter = p.nwriter
      /\ q \in Rings
  <2>1. 0 \in Slots /\ 0 \in 0 .. PSIZE /\ PSIZE \in 0 .. PSIZE
    BY DEF Slots
  <2>2. PICK b : b = [i \in Slots |-> 0]
    OBVIOUS
  <2>3. b \in [Slots -> Cells]
    BY <2>2 DEF Cells
  <2>4. q = [p EXCEPT !.buf = b, !.head = 0, !.tail = 0, !.data = 0, !.room = PSIZE]
    BY <2>2 DEF Emptied
  <2> QED
    BY <2>1, <2>3, <2>4 DEF Rings
<1>2. Contents(q) \in Seq(Cells) /\ Len(Contents(q)) = 0
  BY <1>1, ContentsBytes
<1> QED
  BY <1>1, <1>2, EmptySeq

(* What kwritepipe puts in comes after what is there, round the end of the   *)
(* buffer or not.                                                            *)
LEMMA FilledAtTheEnd ==
  ASSUME NEW p \in Rings, RingIsSound(p),
         NEW s \in Seq(Bytes), Len(s) <= p.room,
         NEW q, q = Filled(p, s)
  PROVE  /\ q \in Rings /\ RingIsSound(q)
         /\ Contents(q) = Contents(p) \o s
         /\ q.room = p.room - Len(s)
         /\ q.nreader = p.nreader /\ q.nwriter = p.nwriter
<1>1. /\ p.buf \in [Slots -> Cells] /\ p.head \in Slots /\ p.tail \in Slots
      /\ p.data \in 0 .. PSIZE /\ p.room = PSIZE - p.data
      /\ p.head = At(p.tail, p.data)
  BY DEF Rings, RingIsSound, At
<1>2. PICK n \in 0 .. PSIZE : n = Len(s) /\ p.data + n <= PSIZE
  BY <1>1
<1>3. PICK b : b = [i \in Slots |-> IF Behind(i, p.head) < n THEN s[Behind(i, p.head) + 1]
                                   ELSE p.buf[i]]
  OBVIOUS
<1>4. /\ q.buf = b /\ q.head = At(p.head, n) /\ q.tail = p.tail
      /\ q.data = p.data + n /\ q.room = p.room - n
      /\ q.nreader = p.nreader /\ q.nwriter = p.nwriter
      /\ q = [p EXCEPT !.buf = b, !.head = At(p.head, n),
                       !.data = p.data + n, !.room = p.room - n]
  BY <1>2, <1>3 DEF Filled, Rings, At, Behind
<1>5. \A i \in Slots : b[i] = IF Behind(i, p.head) < n THEN s[Behind(i, p.head) + 1]
                             ELSE p.buf[i]
  BY <1>3
<1>6. \A i \in Slots : Behind(i, p.head) \in Slots
  BY <1>1, BehindInside
<1>7. b \in [Slots -> Cells]
  <2>1. \A k \in Slots : k < n => s[k + 1] \in Cells
    BY <1>2 DEF Slots, Cells
  <2>2. \A i \in Slots : b[i] \in Cells
    BY <1>1, <1>5, <1>6, <2>1
  <2> QED
    BY <1>3, <2>2
<1>8. q.head \in Slots
  BY <1>1, <1>4, AtInside
<1>9. q \in Rings
  <2>1. p.data + n \in 0 .. PSIZE /\ p.room - n \in 0 .. PSIZE
    BY <1>1, <1>2
  <2>2. At(p.head, n) \in Slots
    BY <1>4, <1>8
  <2> QED
    BY <1>4, <1>7, <2>1, <2>2 DEF Rings
<1>10. q.head = (q.tail + q.data) % PSIZE
  <2>1. At(At(p.tail, p.data), n) = At(p.tail, p.data + n)
    BY <1>1, <1>2, AtOnward
  <2>2. At(q.tail, q.data) = q.head
    BY <1>1, <1>4, <2>1
  <2> QED
    BY <2>2 DEF At
<1>11. RingIsSound(q)
  <2>1. q.data \in 0 .. PSIZE /\ q.room = PSIZE - q.data /\ q.tail \in Slots
    BY SMTT(30), <1>1, <1>2, <1>4
  <2> QED
    BY <1>8, <1>10, <2>1 DEF RingIsSound
<1>12. PICK c, d : c = Contents(p) /\ d = Contents(q)
  OBVIOUS
<1>13. /\ c \in Seq(Cells) /\ Len(c) = p.data
       /\ \A i \in 1 .. p.data : c[i] = p.buf[At(p.tail, i - 1)]
  BY <1>12, ContentsBytes
<1>14. /\ d \in Seq(Cells) /\ Len(d) = p.data + n
       /\ \A i \in 1 .. p.data + n : d[i] = b[At(p.tail, i - 1)]
  <2>1. /\ d \in Seq(Cells) /\ Len(d) = q.data
        /\ \A i \in 1 .. q.data : d[i] = q.buf[At(q.tail, i - 1)]
    BY <1>9, <1>12, ContentsBytes
  <2>2. q.data = p.data + n /\ q.buf = b /\ q.tail = p.tail
    BY <1>4
  <2> QED
    BY <2>1, <2>2
<1>15. s \in Seq(Cells)
  BY SeqMonotonic DEF Cells
<1>16. /\ c \o s \in Seq(Cells) /\ Len(c \o s) = p.data + n
       /\ \A i \in 1 .. p.data + n :
              (c \o s)[i] = IF i <= p.data THEN c[i] ELSE s[i - p.data]
  <2>1. /\ c \o s \in Seq(Cells) /\ Len(c \o s) = Len(c) + Len(s)
        /\ \A i \in 1 .. Len(c) + Len(s) :
               (c \o s)[i] = IF i <= Len(c) THEN c[i] ELSE s[i - Len(c)]
    BY <1>13, <1>15, ConcatProperties
  <2> QED
    BY <1>2, <1>13, <2>1
<1>17. \A i \in 1 .. p.data + n : d[i] = (c \o s)[i]
  <2> TAKE i \in 1 .. p.data + n
  <2>1. i \in Int /\ i - 1 \in 0 .. PSIZE - 1 /\ i - 1 \in 0 .. PSIZE
    BY <1>1, <1>2
  <2>2. PICK j : j = At(p.tail, i - 1)
    OBVIOUS
  <2>3. j \in Slots
    BY <1>1, <2>1, <2>2, AtInside
  <2>4. Behind(j, p.head) = IF i - 1 >= p.data THEN i - 1 - p.data
                            ELSE i - 1 - p.data + PSIZE
    BY SMTT(30), <1>1, <2>1, <2>2, AtBehind
  <2>5. d[i] = b[j]
    BY <1>14, <2>2
  <2>6. CASE i <= p.data
    <3>1. i \in 1 .. p.data /\ ~(Behind(j, p.head) < n)
      BY <1>1, <1>2, <2>1, <2>4, <2>6
    <3>2. b[j] = p.buf[j]
      BY <1>5, <2>3, <3>1
    <3> QED
      BY <1>13, <1>16, <2>2, <2>5, <2>6, <3>1, <3>2
  <2>7. CASE ~(i <= p.data)
    <3>1. Behind(j, p.head) = i - 1 - p.data /\ i - 1 - p.data < n
      BY <1>1, <1>2, <2>1, <2>4, <2>7
    <3>2. b[j] = s[i - 1 - p.data + 1]
      BY <1>5, <2>3, <3>1
    <3>3. i - 1 - p.data + 1 = i - p.data
      BY <1>1, <2>1
    <3>4. (c \o s)[i] = s[i - p.data]
      BY <1>16, <2>7
    <3> QED
      BY <2>5, <3>2, <3>3, <3>4
  <2> QED
    BY <2>6, <2>7
<1>18. d = c \o s
  BY ZenonT(40), <1>14, <1>16, <1>17, SeqEqual
<1> QED
  BY <1>1, <1>2, <1>4, <1>9, <1>11, <1>12, <1>18

(* kreadpipe takes what was put in first, and leaves the rest.               *)
LEMMA DrainedFromTheFront ==
  ASSUME NEW p \in Rings, RingIsSound(p), NEW n \in 0 .. p.data,
         NEW q, q = Drained(p, n)
  PROVE  /\ q \in Rings /\ RingIsSound(q)
         /\ Oldest(p, n) = SubSeq(Contents(p), 1, n)
         /\ Contents(q) = SubSeq(Contents(p), n + 1, p.data)
         /\ q.data = p.data - n
         /\ q.nreader = p.nreader /\ q.nwriter = p.nwriter
<1>1. /\ p.buf \in [Slots -> Cells] /\ p.head \in Slots /\ p.tail \in Slots
      /\ p.data \in 0 .. PSIZE /\ p.room = PSIZE - p.data
      /\ p.head = At(p.tail, p.data)
  BY DEF Rings, RingIsSound, At
<1>2. n \in 0 .. PSIZE /\ n <= p.data
  BY <1>1
<1>3. /\ q.buf = p.buf /\ q.head = p.head /\ q.tail = At(p.tail, n)
      /\ q.data = p.data - n /\ q.room = p.room + n
      /\ q.nreader = p.nreader /\ q.nwriter = p.nwriter
      /\ q = [p EXCEPT !.tail = At(p.tail, n),
                       !.data = p.data - n, !.room = p.room + n]
  BY DEF Drained, Rings, At
<1>4. q.tail \in Slots
  BY <1>1, <1>2, <1>3, AtInside
<1>5. q \in Rings
  <2>1. p.data - n \in 0 .. PSIZE /\ p.room + n \in 0 .. PSIZE
    BY <1>1, <1>2
  <2>2. At(p.tail, n) \in Slots
    BY <1>3, <1>4
  <2> QED
    BY <1>3, <2>1, <2>2 DEF Rings
<1>6. \A j \in 0 .. p.data - n : At(q.tail, j) = At(p.tail, n + j)
  <2> TAKE j \in 0 .. p.data - n
  <2>1. j \in 0 .. PSIZE /\ n + j <= PSIZE
    BY <1>1, <1>2
  <2> QED
    BY <1>1, <1>2, <1>3, <2>1, AtOnward
<1>7. RingIsSound(q)
  <2>1. p.data - n \in 0 .. p.data - n /\ n + (p.data - n) = p.data
    BY <1>1, <1>2
  <2>2. At(q.tail, q.data) = q.head
    BY <1>1, <1>3, <1>6, <2>1
  <2>3. q.data \in 0 .. PSIZE /\ q.room = PSIZE - q.data
    BY <1>1, <1>2, <1>3
  <2> QED
    BY <1>1, <1>3, <1>4, <2>2, <2>3 DEF RingIsSound, At
<1>8. PICK c, d, o : c = Contents(p) /\ d = Contents(q) /\ o = Oldest(p, n)
  OBVIOUS
<1>9. /\ c \in Seq(Cells) /\ Len(c) = p.data
      /\ \A i \in 1 .. p.data : c[i] = p.buf[At(p.tail, i - 1)]
  BY <1>8, ContentsBytes
<1>10. /\ d \in Seq(Cells) /\ Len(d) = p.data - n
       /\ \A i \in 1 .. p.data - n : d[i] = p.buf[At(q.tail, i - 1)]
  <2>1. /\ d \in Seq(Cells) /\ Len(d) = q.data
        /\ \A i \in 1 .. q.data : d[i] = q.buf[At(q.tail, i - 1)]
    BY <1>5, <1>8, ContentsBytes
  <2>2. q.data = p.data - n /\ q.buf = p.buf
    BY <1>3
  <2> QED
    BY <2>1, <2>2
<1>11. /\ o \in Seq(Cells) /\ Len(o) = n
       /\ \A i \in 1 .. n : o[i] = p.buf[At(p.tail, i - 1)]
  BY <1>2, <1>8, OldestBytes
<1>12. /\ SubSeq(c, 1, n) \in Seq(Cells) /\ Len(SubSeq(c, 1, n)) = n
       /\ \A i \in 1 .. n : SubSeq(c, 1, n)[i] = c[i]
  BY <1>1, <1>2, <1>9
<1>13. o = SubSeq(c, 1, n)
  <2>1. \A i \in 1 .. n : i \in 1 .. p.data
    BY <1>1, <1>2
  <2>2. \A i \in 1 .. n : o[i] = SubSeq(c, 1, n)[i]
    BY <1>9, <1>11, <1>12, <2>1
  <2> QED
    BY <1>11, <1>12, <2>2, SeqEqual
<1>14. /\ SubSeq(c, n + 1, p.data) \in Seq(Cells)
       /\ Len(SubSeq(c, n + 1, p.data)) = p.data - n
       /\ \A i \in 1 .. p.data - n : SubSeq(c, n + 1, p.data)[i] = c[n + i]
  BY <1>1, <1>2, <1>9
<1>15. \A i \in 1 .. p.data - n : d[i] = c[n + i]
  <2> TAKE i \in 1 .. p.data - n
  <2>1. /\ i - 1 \in 0 .. p.data - n /\ n + i \in 1 .. p.data
        /\ n + (i - 1) = (n + i) - 1
    BY <1>1, <1>2
  <2>2. At(q.tail, i - 1) = At(p.tail, (n + i) - 1)
    BY <1>6, <2>1
  <2> QED
    BY SMTT(30), <1>9, <1>10, <2>1, <2>2
<1>16. d = SubSeq(c, n + 1, p.data)
  BY <1>10, <1>14, <1>15, SeqEqual
<1> QED
  BY <1>3, <1>5, <1>7, <1>8, <1>13, <1>16

-----------------------------------------------------------------------------
(* The inductive invariant.  Each of its parts is needed for another one: a  *)
(* pipe pointer that is kept over a sleep is good because the OFT it came    *)
(* from is still counted, the counters of a pipe are those of its two OFTs   *)
(* because no two OFTs are the same end, and a pipe that is given back has   *)
(* no sleepers because their pointers are good.                              *)
OFTRecords == [mode : Modes, refCount : 0 .. MaxCount, pipe : Pipes \cup {NULL}]

CallRecords == [op : Modes, pipe : Pipes \cup {NULL}, n : Nat, text : Seq(Bytes)]

Shapes ==
    /\ fd \in [Procs -> [FDs -> OFTs \cup {NULL}]]
    /\ oft \in [OFTs -> OFTRecords]
    /\ pipes \in [Pipes -> Rings]
    /\ call \in [Procs -> CallRecords]
    /\ delivered \in BoundedSeq(Bytes, PSIZE)

(* A pipe in use is sound and holds only what was written.                   *)
HeldSound ==
    \A k \in Pipes : Held(k) => /\ RingIsSound(pipes[k])
                                /\ Contents(pipes[k]) \in Seq(Bytes)

(* No two OFTs in use are the same end of the same pipe.                     *)
EndsAreOne ==
    \A o \in OFTs : oft[o].refCount > 0 =>
        /\ oft[o].mode \in {"read", "write"}
        /\ \A u \in OFTs : /\ oft[u].refCount > 0
                           /\ oft[u].pipe = oft[o].pipe
                           /\ oft[u].mode = oft[o].mode
                           => u = o

Tables == UsersCounted /\ EndsCounted /\ EndsAreThere /\ EndsAreOne

(* What a process in the middle of a pipe call sleeps on.                    *)
EventOf(c) == IF c.op = "read" THEN DataOf(c.pipe) ELSE RoomOf(c.pipe)

Awaiting == {"READY", "RUNNING", "SLEEP"}

WaitsWell(p) ==
    call[p].op # "none" =>
        /\ pc[p] = "body"
        /\ status[p] \in Awaiting
        /\ status[p] = "SLEEP" => event[p] = EventOf(call[p])
        /\ call[p].op = "read" => call[p].n >= 1

CallersWait == \A p \in Procs : WaitsWell(p)

(* NoMissedWakeup, process by process.                                       *)
MissesNothing(p) ==
    status[p] = "SLEEP" =>
        /\ call[p].op = "read" => pipes[call[p].pipe].data = 0
        /\ call[p].op = "write" => pipes[call[p].pipe].room = 0

NobodyMisses == \A p \in Procs : MissesNothing(p)

PipeIInv ==
    /\ KInv
    /\ Shapes
    /\ HeldSound
    /\ Tables
    /\ CallersWait
    /\ PointerStaysGood
    /\ NobodyMisses

-----------------------------------------------------------------------------
(* What a step does to those who do not take it: whoever may be in the       *)
(* middle of a pipe call stays there, and nobody falls asleep.               *)
Undisturbed ==
    \A p \in Procs : p # running /\ status[p] \in Awaiting =>
        /\ status'[p] \in Awaiting
        /\ pc'[p] = pc[p]
        /\ status'[p] = "SLEEP" => status[p] = "SLEEP" /\ event'[p] = event[p]

(* tswitch disturbs nobody if those that it is told of are undisturbed.      *)
LEMMA SwitchUndisturbed ==
  ASSUME KInv, NEW st, NEW rq, NEW sl,
         Kept(st, priority, freeList, rq, sl),
         \A p \in Procs : st[p] = "RUNNING" => p = running,
         st[0] \in {"RUNNING", "READY"},
         \A p \in Procs : p # running /\ status[p] \in Awaiting =>
             st[p] \in Awaiting /\ (st[p] = "SLEEP" => status[p] = "SLEEP"),
         \A p \in Procs : p # running => pc'[p] = pc[p] /\ event'[p] = event[p],
         scheduler(st, rq)
  PROVE  Undisturbed
<1>1. \A p \in Procs : IF st[p] \in {"RUNNING", "READY"}
                       THEN status'[p] \in {"RUNNING", "READY"}
                       ELSE status'[p] = st[p]
  BY SwitchedFrom
<1> QED
  BY <1>1 DEF Undisturbed, Awaiting

(* The tswitch of a process that can go on.                                 *)
LEMMA TswitchUndisturbed ==
  ASSUME KInv, scheduler(status, readyQueue),
         \A p \in Procs : p # running => pc'[p] = pc[p] /\ event'[p] = event[p]
  PROVE  Undisturbed
<1>1. Sane /\ Agree
  BY TwoHalves
<1>2. /\ Kept(status, priority, freeList, readyQueue, sleepList)
      /\ \A p \in Procs : status[p] = "RUNNING" => p = running
      /\ status[0] \in {"RUNNING", "READY"}
  BY <1>1 DEF Agree, Sane
<1> QED
  BY <1>2, SwitchUndisturbed

(* The child of a fork is a PROC that was free.                              *)
LEMMA KforkUndisturbed ==
  ASSUME KInv, kfork, \A p \in Procs : p # running => pc'[p] = pc[p]
  PROVE  /\ Undisturbed
         /\ Head(freeList) \in Procs /\ status[Head(freeList)] = "FREE"
         /\ status[running] = "RUNNING" /\ status'[running] = "RUNNING"
<1>1. Sane /\ Agree
  BY TwoHalves
<1>2. freeList \in Seq(Procs) /\ freeList # << >>
  BY <1>1 DEF Agree, Kept, kfork
<1>3. PICK p : p = Head(freeList)
  OBVIOUS
<1>4. status' = [status EXCEPT ![p] = "READY"] /\ event' = event
  BY <1>3 DEF kfork, dequeue
<1>5. p \in Procs /\ p \in Range(freeList)
  BY <1>2, <1>3 DEF Range
<1>6. status[p] = "FREE"
  BY <1>1, <1>5 DEF Agree, Kept
<1>7. \A o \in Procs : status'[o] = IF o = p THEN "READY" ELSE status[o]
  BY <1>1, <1>4, <1>5 DEF Agree, Kept
<1>8. Undisturbed
  BY <1>4, <1>6, <1>7 DEF Undisturbed, Awaiting
<1>9. running \in Procs /\ status[running] = "RUNNING" /\ running # p
  BY <1>1, <1>6 DEF Sane
<1> QED
  BY <1>3, <1>5, <1>6, <1>7, <1>8, <1>9

(* An exit wakes sleepers and disturbs nobody else.                         *)
LEMMA KexitUndisturbed ==
  ASSUME KInv, NEW value, kexit(value), running # 0
  PROVE  Undisturbed
<1>1. PICK l : l = WakeParents([Lists EXCEPT !.status[running] = "ZOMBIE"])
  OBVIOUS
<1>2. scheduler(l.status, l.ready) /\ UNCHANGED <<pc, event>>
  BY <1>1 DEF kexit
<1>3. /\ Kept(l.status, priority, freeList, l.ready, l.sleep)
      /\ \A p \in Procs : l.status[p] =
             IF p = running THEN "ZOMBIE"
             ELSE IF /\ status[p] = "SLEEP"
                     /\ event[p] \in {Address(parent[running]), Address(1)}
             THEN "READY" ELSE status[p]
      /\ \A p \in Procs : l.status[p] = "RUNNING" => p = running
      /\ l.status[0] \in {"RUNNING", "READY"}
  BY <1>1, KexitLists
<1>4. \A p \in Procs : p # running /\ status[p] \in Awaiting =>
          l.status[p] \in Awaiting /\ (l.status[p] = "SLEEP" => status[p] = "SLEEP")
  BY <1>3 DEF Awaiting
<1> QED
  BY <1>2, <1>3, <1>4, SwitchUndisturbed

(* kwait frees a dead child or puts its caller to sleep.                    *)
LEMMA KwaitUndisturbed ==
  ASSUME KInv, running # 0, LayToRest \/ SleepOnSelf
  PROVE  Undisturbed
<1>1. Sane /\ Agree
  BY TwoHalves
<1>2. /\ running \in Procs /\ status[running] = "RUNNING"
      /\ pc \in [Procs -> Places] /\ event \in [Procs -> Int]
  BY <1>1 DEF Sane
<1>3. CASE LayToRest
  <2>1. PICK c : c = Min(Dead(running))
    OBVIOUS
  <2>2. c \in Procs /\ status[c] = "ZOMBIE"
    BY <1>3, <2>1, FirstDead DEF LayToRest, Dead, Children
  <2>3. /\ status' = [status EXCEPT ![c] = "FREE"]
        /\ pc' = [pc EXCEPT ![running] = "body"]
        /\ event' = event
    BY <1>3, <2>1 DEF LayToRest, Release
  <2>4. \A o \in Procs : status'[o] = IF o = c THEN "FREE" ELSE status[o]
    BY <1>1, <2>2, <2>3 DEF Agree, Kept
  <2>5. \A p \in Procs : p # running => pc'[p] = pc[p]
    BY <1>2, <2>3
  <2> QED
    BY <2>2, <2>3, <2>4, <2>5 DEF Undisturbed, Awaiting
<1>4. CASE SleepOnSelf
  <2>1. PICK st : st = [status EXCEPT ![running] = "SLEEP"]
    OBVIOUS
  <2>2. PICK sl : sl = enqueue(sleepList, running, priority)
    OBVIOUS
  <2>3. /\ scheduler(st, readyQueue) /\ pc' = [pc EXCEPT ![running] = "kwait"]
        /\ event' = [event EXCEPT ![running] = Address(running)]
    BY <1>4, <2>1 DEF SleepOnSelf, ksleep
  <2>4. /\ Kept(st, priority, freeList, readyQueue, sl)
        /\ \A p \in Procs : st[p] = IF p = running THEN "SLEEP" ELSE status[p]
        /\ \A p \in Procs : st[p] = "RUNNING" => p = running
        /\ st[0] \in {"RUNNING", "READY"}
    BY <2>1, <2>2, KsleepLists
  <2>5. \A p \in Procs : p # running => pc'[p] = pc[p] /\ event'[p] = event[p]
    BY <1>2, <2>3
  <2> QED
    BY <2>3, <2>4, <2>5, SwitchUndisturbed
<1> QED
  BY <1>3, <1>4

(* A call that wakes who sleeps on ev and returns.                           *)
LEMMA ReturnKeeps ==
  ASSUME KInv, NEW ev, AtPrompt, Return(kwakeup(Lists, ev)), UNCHANGED familyVars
  PROVE  /\ KInv' /\ Undisturbed
         /\ \A p \in Procs : status'[p] = "SLEEP" => event[p] # ev
         /\ status'[running] = "RUNNING" /\ UNCHANGED <<running, pc>>
<1>1. Sane /\ Agree
  BY TwoHalves
<1>2. running # 0 /\ DoWakeup(ev)
  BY <1>1 DEF AtPrompt, Sane, Return, familyVars, DoWakeup
<1>3. PICK l : l = kwakeup(Lists, ev)
  OBVIOUS
<1>4. status' = l.status /\ UNCHANGED <<event, pc, running>>
  BY <1>3 DEF Return, familyVars
<1>5. Lists.status = status /\ Lists.ready = readyQueue /\ Lists.sleep = sleepList
  BY DEF Lists
<1>6. \A p \in Procs : l.status[p] = IF status[p] = "SLEEP" /\ event[p] = ev
                                     THEN "READY" ELSE status[p]
  <2>1. Woken(Lists, ev, freeList, l)
    BY <1>1, <1>3, <1>5, WakeupKeeps DEF Agree
  <2> QED
    BY <1>5, <2>1 DEF Woken
<1>7. KInv'
  BY <1>2, DoWakeupKeeps
<1>8. Undisturbed
  BY <1>4, <1>6 DEF Undisturbed, Awaiting
<1>9. status'[running] = "RUNNING"
  BY <1>1, <1>4, <1>6 DEF Sane
<1> QED
  BY <1>4, <1>6, <1>7, <1>8, <1>9

(* A call that wakes who sleeps on ev and sleeps itself, on w.               *)
LEMMA SleepOnKeeps ==
  ASSUME KInv, NEW ev, NEW w \in Int, NEW c, AtPrompt,
         SleepOn(kwakeup(Lists, ev), w, c), UNCHANGED familyVars
  PROVE  /\ KInv' /\ Undisturbed
         /\ \A p \in Procs : p # running /\ status'[p] = "SLEEP" => event[p] # ev
         /\ status'[running] = "SLEEP" /\ event'[running] = w /\ UNCHANGED pc
<1>1. Sane /\ Agree
  BY TwoHalves
<1>2. /\ running \in Procs /\ running # 0 /\ status[running] = "RUNNING"
      /\ event \in [Procs -> Int] /\ status \in [Procs -> Statuses]
  BY <1>1 DEF AtPrompt, Sane, Agree, Kept
<1>3. PICK l : l = kwakeup(Lists, ev)
  OBVIOUS
<1>4. Lists.status = status /\ Lists.ready = readyQueue /\ Lists.sleep = sleepList
  BY DEF Lists
<1>5. /\ Kept(l.status, priority, freeList, l.ready, l.sleep)
      /\ \A p \in Procs : l.status[p] = IF status[p] = "SLEEP" /\ event[p] = ev
                                        THEN "READY" ELSE status[p]
  <2>1. Woken(Lists, ev, freeList, l)
    BY <1>1, <1>3, <1>4, WakeupKeeps DEF Agree
  <2> QED
    BY <1>4, <2>1 DEF Woken
<1>6. PICK st : st = [l.status EXCEPT ![running] = "SLEEP"]
  OBVIOUS
<1>7. PICK sl : sl = enqueue(l.sleep, running, priority)
  OBVIOUS
<1>8. /\ scheduler(st, l.ready) /\ sleepList' = sl
      /\ event' = [event EXCEPT ![running] = w]
      /\ UNCHANGED <<ppid, parent, priority, exitCode, freeList, nproc, pc>>
  BY <1>3, <1>6, <1>7 DEF SleepOn, familyVars
<1>9. \A p \in Procs : st[p] = IF p = running THEN "SLEEP" ELSE l.status[p]
  BY <1>5, <1>6 DEF Kept
<1>10. /\ sl \in Seq(Procs) /\ IsInjective(sl)
       /\ Range(sl) = Range(l.sleep) \cup {running}
  <2>1. running \notin Range(l.sleep)
    BY <1>2, <1>5 DEF Kept
  <2>2. Enqueued(Procs, l.sleep, running, priority, sl)
    BY <1>2, <1>5, <1>7, EnqueueProperties DEF Kept
  <2> QED
    BY <1>5, <2>1, <2>2 DEF Enqueued, Kept
<1>11. Kept(st, priority, freeList, l.ready, sl)
  <2>1. st \in [Procs -> Statuses]
    BY <1>2, <1>5, <1>6 DEF Kept, Statuses
  <2>2. \A p \in Procs : /\ p \in Range(freeList) <=> st[p] = "FREE"
                         /\ p \in Range(l.ready) <=> st[p] = "READY"
                         /\ p \in Range(sl) <=> st[p] = "SLEEP"
    BY <1>2, <1>5, <1>9, <1>10 DEF Kept
  <2> QED
    BY <1>5, <1>10, <2>1, <2>2 DEF Kept
<1>12. /\ \A p \in Procs : st[p] = "RUNNING" => p = running
       /\ \A p \in Procs : st[p] = "FREE" <=> status[p] = "FREE"
       /\ st[0] \in {"RUNNING", "READY"}
       /\ \A p \in Procs : p # running /\ status[p] \in Awaiting =>
              st[p] \in Awaiting /\ (st[p] = "SLEEP" => status[p] = "SLEEP")
  <2>1. 0 \in Procs
    BY DEF Procs
  <2> QED
    BY <1>1, <1>2, <1>5, <1>9, <2>1 DEF Sane, Awaiting
<1>13. /\ ppid' \in [Procs -> Procs]
       /\ parent' \in [Procs -> Procs \cup {NULL}]
       /\ event' \in [Procs -> Int]
       /\ exitCode' \in [Procs -> Int]
       /\ pc' \in [Procs -> Places]
       /\ pc'[0] \notin {"body", "kwait"}
  BY <1>1, <1>8 DEF Sane
<1>14. KInv'
  BY <1>8, <1>11, <1>12, <1>13, SwitchKeeps
<1>15. \A p \in Procs : IF st[p] \in {"RUNNING", "READY"}
                        THEN status'[p] \in {"RUNNING", "READY"}
                        ELSE status'[p] = st[p]
  BY <1>8, <1>11, <1>12, SwitchedFrom
<1>16. \A p \in Procs : p # running => pc'[p] = pc[p] /\ event'[p] = event[p]
  BY <1>2, <1>8
<1>17. Undisturbed
  BY <1>8, <1>11, <1>12, <1>16, SwitchUndisturbed
<1>18. \A p \in Procs : p # running /\ status'[p] = "SLEEP" => event[p] # ev
  BY <1>5, <1>9, <1>15
<1>19. status'[running] = "SLEEP" /\ event'[running] = w
  BY <1>2, <1>8, <1>9, <1>15
<1> QED
  BY <1>8, <1>14, <1>17, <1>18, <1>19

-----------------------------------------------------------------------------
(* The least of a set of numbers is one of them,                             *)
LEMMA LeastIsIn ==
  ASSUME NEW S, S \subseteq Nat, S # {}
  PROVE  Min(S) \in S
<1>1. \E x \in S : \A y \in S : x <= y
  BY LeastNat
<1> QED
  BY <1>1 DEF Min

(* and where there are two there is another one.                             *)
LEMMA TwoAreThere ==
  ASSUME NEW n \in Int, NEW X, X \subseteq 0 .. n, Cardinality(X) >= 2
  PROVE  /\ Min(X) \in X
         /\ Min(X \ {Min(X)}) \in X \ {Min(X)}
<1>1. IsFiniteSet(X) /\ X \subseteq Nat
  <2>1. IsFiniteSet(0 .. n)
    BY FS_Interval
  <2>2. X \in SUBSET (0 .. n)
    OBVIOUS
  <2>3. IsFiniteSet(X)
    BY <2>1, <2>2, FS_Subset
  <2>4. X \subseteq Nat
    OBVIOUS
  <2> QED
    BY <2>3, <2>4
<1>2. X # {}
  <2>1. Cardinality(X) # 0
    OBVIOUS
  <2> QED
    BY <1>1, <2>1, FS_EmptySet
<1>3. Min(X) \in X
  BY <1>1, <1>2, LeastIsIn
<1>4. X \ {Min(X)} # {}
  <2>1. IsFiniteSet(X \ {Min(X)}) /\ Cardinality(X \ {Min(X)}) = Cardinality(X) - 1
    BY <1>1, <1>3, FS_RemoveElement
  <2>2. Cardinality(X) \in Nat
    BY <1>1, FS_CardinalityType
  <2>3. Cardinality(X \ {Min(X)}) # 0
    BY <2>1, <2>2
  <2> QED
    BY <2>3, FS_EmptySet
<1>5. PICK Y : Y = X \ {Min(X)}
  OBVIOUS
<1>6. Y \subseteq Nat /\ Y # {}
  BY <1>1, <1>4, <1>5
<1>7. Min(Y) \in Y
  BY <1>6, LeastIsIn
<1> QED
  BY <1>3, <1>5, <1>7

(* There are finitely many descriptors.                                      *)
LEMMA DescriptorsAreFinite ==
  ASSUME NEW o
  PROVE  IsFiniteSet(DescriptorsTo(o)) /\ Cardinality(DescriptorsTo(o)) \in Nat
<1>1. IsFiniteSet(Procs) /\ IsFiniteSet(FDs)
  BY FS_Interval DEF Procs, FDs
<1>2. IsFiniteSet(Procs \X FDs)
  BY <1>1, FS_Product
<1>3. DescriptorsTo(o) \in SUBSET (Procs \X FDs)
  BY DEF DescriptorsTo
<1>4. IsFiniteSet(DescriptorsTo(o))
  BY <1>2, <1>3, FS_Subset
<1> QED
  BY <1>4, FS_CardinalityType

(* An OFT that somebody has a descriptor of is in use, and by two where two  *)
(* descriptors name it.                                                      *)
LEMMA NamedIsCounted ==
  ASSUME Shapes, UsersCounted,
         NEW p \in Procs, NEW i \in FDs, fd[p][i] # NULL
  PROVE  /\ fd[p][i] \in OFTs
         /\ oft[fd[p][i]].refCount >= 1
         /\ \A q \in Procs, j \in FDs :
                fd[q][j] = fd[p][i] /\ (q # p \/ j # i) => oft[fd[p][i]].refCount >= 2
<1>1. PICK o : o = fd[p][i]
  OBVIOUS
<1>2. o \in OFTs
  BY <1>1 DEF Shapes
<1>3. PICK n \in Nat : n = oft[o].refCount
  BY <1>2 DEF Shapes, OFTRecords
<1>4. PICK D : D = DescriptorsTo(o)
  OBVIOUS
<1>5. IsFiniteSet(D) /\ Cardinality(D) \in Nat /\ n >= Cardinality(D)
  BY <1>2, <1>3, <1>4, DescriptorsAreFinite DEF UsersCounted
<1>6. <<p, i>> \in D
  BY <1>1, <1>4 DEF DescriptorsTo
<1>7. /\ IsFiniteSet(D \ {<<p, i>>})
      /\ Cardinality(D \ {<<p, i>>}) = Cardinality(D) - 1
      /\ Cardinality(D \ {<<p, i>>}) \in Nat
  BY <1>5, <1>6, FS_RemoveElement, FS_CardinalityType
<1>8. n >= 1
  BY <1>5, <1>7
<1>9. ASSUME NEW q \in Procs, NEW j \in FDs, fd[q][j] = o, q # p \/ j # i
      PROVE  n >= 2
  <2>1. <<q, j>> \in D \ {<<p, i>>}
    BY <1>4, <1>9 DEF DescriptorsTo
  <2>2. Cardinality(D \ {<<p, i>>}) # 0
    BY <1>7, <2>1, FS_EmptySet
  <2> QED
    BY <1>5, <1>7, <2>2
<1> QED
  BY <1>1, <1>2, <1>3, <1>8, <1>9

(* A descriptor is of a pipe that is held.                                   *)
LEMMA NamedIsHeld ==
  ASSUME Shapes, Tables,
         NEW o \in OFTs, oft[o].refCount > 0
  PROVE  /\ oft[o].pipe \in Pipes
         /\ oft[o].mode \in {"read", "write"}
         /\ UsersOf(pipes[oft[o].pipe], oft[o].mode) = oft[o].refCount
         /\ Held(oft[o].pipe)
<1>1. /\ oft[o].pipe \in Pipes
      /\ oft[o].mode \in {"read", "write"}
      /\ UsersOf(pipes[oft[o].pipe], oft[o].mode) = oft[o].refCount
  BY DEF Shapes, OFTRecords, Tables, EndsCounted, EndsAreOne
<1>2. PICK k \in Pipes : k = oft[o].pipe
  BY <1>1
<1>3. PICK a \in Nat, b \in Nat : a = pipes[k].nreader /\ b = pipes[k].nwriter
  BY <1>2 DEF Shapes, Rings
<1>4. a > 0 \/ b > 0
  BY <1>1, <1>2, <1>3 DEF UsersOf
<1>5. Held(k)
  BY <1>3, <1>4 DEF Held
<1> QED
  BY <1>1, <1>2, <1>5

(* kpipe opens a pipe k and two OFTs that nobody uses, and names them once   *)
(* each.                                                                     *)
Opens(k, r, w, i, j) ==
    /\ pipes[k].nreader = 0 /\ pipes[k].nwriter = 0
    /\ oft[r].refCount = 0 /\ oft[w].refCount = 0
    /\ r # w /\ i # j
    /\ pipes' = [pipes EXCEPT ![k] = Opened(pipes[k])]
    /\ oft' = [oft EXCEPT ![r] = [mode |-> "read", refCount |-> 1, pipe |-> k],
                          ![w] = [mode |-> "write", refCount |-> 1, pipe |-> k]]
    /\ fd' \in [Procs -> [FDs -> OFTs \cup {NULL}]]
    /\ \A p \in Procs, x \in FDs :
           fd'[p][x] = IF p = running /\ x = i THEN r
                       ELSE IF p = running /\ x = j THEN w ELSE fd[p][x]

(* What kpipe finds first is free, and there are two of each.               *)
LEMMA KpipeOpens ==
  ASSUME Shapes, Tables, KInv, kpipe
  PROVE  \E k \in Pipes, r \in OFTs, w \in OFTs, i \in FDs, j \in FDs :
             Opens(k, r, w, i, j)
<1>1. PICK k : k = Min(FreePipes)
  OBVIOUS
<1>2. PICK r : r = Min(FreeOFTs)
  OBVIOUS
<1>3. PICK w : w = Min(FreeOFTs \ {r})
  OBVIOUS
<1>4. PICK table : table = [oft EXCEPT
                         ![r] = [mode |-> "read", refCount |-> 1, pipe |-> k],
                         ![w] = [mode |-> "write", refCount |-> 1, pipe |-> k]]
  OBVIOUS
<1>5. PICK i : i = Min(FreeFDs(table))
  OBVIOUS
<1>6. PICK j : j = Min(FreeFDs(table) \ {i})
  OBVIOUS
<1>7. /\ FreePipes # {} /\ Cardinality(FreeOFTs) >= 2
      /\ Cardinality(FreeFDs(table)) >= 2
      /\ pipes' = [pipes EXCEPT ![k] = Opened(@)]
      /\ oft' = table
      /\ fd' = [fd EXCEPT ![running][i] = r, ![running][j] = w]
  BY <1>1, <1>2, <1>3, <1>4, <1>5, <1>6 DEF kpipe
<1>8. k \in Pipes /\ pipes[k].nreader = 0 /\ pipes[k].nwriter = 0
  <2>1. FreePipes \subseteq Nat
    BY DEF FreePipes, Pipes
  <2>2. k \in FreePipes
    BY <1>1, <1>7, <2>1, LeastIsIn
  <2> QED
    BY <2>2 DEF FreePipes
<1>9. /\ r \in OFTs /\ w \in OFTs /\ r # w
      /\ oft[r].refCount = 0 /\ oft[w].refCount = 0
  <2>1. FreeOFTs \subseteq 0 .. NOFT - 1
    BY DEF FreeOFTs, OFTs
  <2>2. r \in FreeOFTs /\ w \in FreeOFTs \ {r}
    BY <1>2, <1>3, <1>7, <2>1, TwoAreThere
  <2> QED
    BY <2>2 DEF FreeOFTs
<1>10. i \in FDs /\ j \in FDs /\ i # j
  <2>1. FreeFDs(table) \subseteq 0 .. NFD - 1
    BY DEF FreeFDs, FDs
  <2>2. i \in FreeFDs(table) /\ j \in FreeFDs(table) \ {i}
    BY <1>5, <1>6, <1>7, <2>1, TwoAreThere
  <2> QED
    BY <2>2 DEF FreeFDs
<1>11. running \in Procs
  BY TwoHalves DEF Sane
<1>12. fd \in [Procs -> [FDs -> OFTs \cup {NULL}]]
  BY DEF Shapes
<1>13. /\ fd' \in [Procs -> [FDs -> OFTs \cup {NULL}]]
       /\ \A p \in Procs, x \in FDs :
              fd'[p][x] = IF p = running /\ x = i THEN r
                          ELSE IF p = running /\ x = j THEN w ELSE fd[p][x]
  <2>1. PICK g : g = [fd[running] EXCEPT ![i] = r, ![j] = w]
    OBVIOUS
  <2>2. g \in [FDs -> OFTs \cup {NULL}]
    BY <1>9, <1>10, <1>11, <1>12, <2>1
  <2>3. \A x \in FDs : g[x] = IF x = i THEN r ELSE IF x = j THEN w ELSE fd[running][x]
    BY <1>10, <1>11, <1>12, <2>1
  <2>4. fd' = [fd EXCEPT ![running] = g]
    BY <1>7, <1>10, <1>11, <1>12, <2>1
  <2> QED
    BY <1>11, <1>12, <2>2, <2>3, <2>4
<1>14. pipes' = [pipes EXCEPT ![k] = Opened(pipes[k])]
  BY <1>7
<1>15. oft' = [oft EXCEPT
                  ![r] = [mode |-> "read", refCount |-> 1, pipe |-> k],
                  ![w] = [mode |-> "write", refCount |-> 1, pipe |-> k]]
  BY <1>4, <1>7
<1>16. Opens(k, r, w, i, j)
  BY <1>8, <1>9, <1>10, <1>13, <1>14, <1>15 DEF Opens
<1> QED
  BY <1>8, <1>9, <1>10, <1>16

(* An OFT with as many users as descriptors, at the least.                   *)
LEMMA FewerDescriptors ==
  ASSUME NEW o, NEW E, NEW n \in Nat,
         E \subseteq DescriptorsTo(o), Cardinality(DescriptorsTo(o)) <= n
  PROVE  Cardinality(E) <= n
<1>1. PICK D : D = DescriptorsTo(o)
  OBVIOUS
<1>2. IsFiniteSet(D) /\ Cardinality(D) \in Nat /\ E \in SUBSET D
  BY <1>1, DescriptorsAreFinite
<1>3. IsFiniteSet(E) /\ Cardinality(E) <= Cardinality(D)
  BY <1>2, FS_Subset
<1>4. Cardinality(E) \in Nat
  BY <1>3, FS_CardinalityType
<1> QED
  BY <1>1, <1>2, <1>3, <1>4

(* The tables after kpipe.                                                   *)
LEMMA OpensKeeps ==
  ASSUME Shapes, Tables, HeldSound, running \in Procs,
         NEW k \in Pipes, NEW r \in OFTs, NEW w \in OFTs,
         NEW i \in FDs, NEW j \in FDs, Opens(k, r, w, i, j)
  PROVE  /\ oft' \in [OFTs -> OFTRecords]
         /\ pipes' \in [Pipes -> Rings]
         /\ Tables' /\ HeldSound'
         /\ \A p \in Procs, x \in FDs : p # running => fd'[p][x] = fd[p][x]
         /\ \A o \in OFTs : oft[o].refCount > 0 => oft'[o] = oft[o]
         /\ \A n \in Pipes : Held(n) => pipes'[n] = pipes[n]
<1>1. /\ fd \in [Procs -> [FDs -> OFTs \cup {NULL}]]
      /\ oft \in [OFTs -> OFTRecords]
      /\ pipes \in [Pipes -> Rings]
      /\ UsersCounted
  BY DEF Shapes, Tables
<1>2. /\ oft[r].refCount = 0 /\ oft[w].refCount = 0 /\ r # w /\ i # j
      /\ pipes[k].nreader = 0 /\ pipes[k].nwriter = 0
  BY DEF Opens
<1>3. /\ oft' \in [OFTs -> OFTRecords]
      /\ oft'[r] = [mode |-> "read", refCount |-> 1, pipe |-> k]
      /\ oft'[w] = [mode |-> "write", refCount |-> 1, pipe |-> k]
      /\ \A o \in OFTs : o # r /\ o # w => oft'[o] = oft[o]
  <2>1. PICK a : a = [mode |-> "read", refCount |-> 1, pipe |-> k]
    OBVIOUS
  <2>2. PICK b : b = [mode |-> "write", refCount |-> 1, pipe |-> k]
    OBVIOUS
  <2>3. a \in OFTRecords /\ b \in OFTRecords
    BY <2>1, <2>2 DEF OFTRecords, Modes
  <2>4. oft' = [oft EXCEPT ![r] = a, ![w] = b]
    BY <2>1, <2>2 DEF Opens
  <2> QED
    BY <1>1, <1>2, <2>1, <2>2, <2>3, <2>4
<1>4. PICK q : q = Opened(pipes[k])
  OBVIOUS
<1>5. /\ q \in Rings /\ RingIsSound(q) /\ Contents(q) = << >>
      /\ q.nreader = 1 /\ q.nwriter = 1
  BY <1>1, <1>4, OpenedIsEmpty
<1>6. /\ pipes' \in [Pipes -> Rings] /\ pipes'[k] = q
      /\ \A n \in Pipes : n # k => pipes'[n] = pipes[n]
  BY <1>1, <1>4, <1>5 DEF Opens
<1>7. \A p \in Procs, x \in FDs :
          fd'[p][x] = IF p = running /\ x = i THEN r
                      ELSE IF p = running /\ x = j THEN w ELSE fd[p][x]
  BY DEF Opens
<1>8. \A p \in Procs, x \in FDs : fd[p][x] # r /\ fd[p][x] # w
  <2> SUFFICES ASSUME NEW p \in Procs, NEW x \in FDs, fd[p][x] \in {r, w}
               PROVE FALSE
    OBVIOUS
  <2>1. fd[p][x] # NULL
    BY DEF OFTs
  <2>2. oft[fd[p][x]].refCount >= 1
    BY <1>1, <2>1, NamedIsCounted
  <2> QED
    BY <1>2, <2>2
<1>9. \A n \in Pipes : n # k => (Held(n) <=> Held(n)')
  BY <1>6 DEF Held
<1>10. ~Held(k)
  BY <1>2 DEF Held
<1>11. \A o \in OFTs : oft[o].refCount > 0 => o # r /\ o # w /\ oft[o].pipe # k
  BY <1>2, <1>10, NamedIsHeld
<1>12. UsersCounted'
  <2> SUFFICES ASSUME NEW o \in OFTs
               PROVE oft'[o].refCount >= Cardinality({x \in Procs \X FDs : fd'[x[1]][x[2]] = o})
    BY DEF UsersCounted, DescriptorsTo
  <2>1. PICK E : E = {x \in Procs \X FDs : fd'[x[1]][x[2]] = o}
    OBVIOUS
  <2>2. CASE o # r /\ o # w
    <3>1. E \subseteq DescriptorsTo(o)
      <4> SUFFICES ASSUME NEW x \in E PROVE x \in DescriptorsTo(o)
        OBVIOUS
      <4>1. x \in Procs \X FDs /\ fd'[x[1]][x[2]] = o
        BY <2>1
      <4>2. x[1] \in Procs /\ x[2] \in FDs
        BY <4>1
      <4>3. fd[x[1]][x[2]] = o
        BY <1>7, <2>2, <4>1, <4>2
      <4> QED
        BY <4>1, <4>3 DEF DescriptorsTo
    <3>2. oft[o].refCount \in Nat /\ oft'[o] = oft[o]
      BY <1>1, <1>3, <2>2 DEF OFTRecords
    <3>3. Cardinality(DescriptorsTo(o)) <= oft[o].refCount
      BY <1>1, <3>2, DescriptorsAreFinite DEF UsersCounted
    <3>4. Cardinality(E) <= oft[o].refCount
      BY <3>1, <3>2, <3>3, FewerDescriptors
    <3>5. Cardinality(E) \in Nat
      <4>1. IsFiniteSet(DescriptorsTo(o)) /\ E \in SUBSET DescriptorsTo(o)
        BY <3>1, DescriptorsAreFinite
      <4> QED
        BY <4>1, FS_Subset, FS_CardinalityType
    <3> QED
      BY <2>1, <3>2, <3>4, <3>5
  <2>3. CASE o = r \/ o = w
    <3>1. PICK e : e = IF o = r THEN <<running, i>> ELSE <<running, j>>
      OBVIOUS
    <3>2. E \subseteq {e}
      <4> SUFFICES ASSUME NEW x \in E PROVE x = e
        OBVIOUS
      <4>1. x \in Procs \X FDs /\ fd'[x[1]][x[2]] = o
        BY <2>1
      <4>2. PICK p \in Procs, y \in FDs : x = <<p, y>>
        BY <4>1
      <4>3. fd'[p][y] = o
        BY <4>1, <4>2
      <4>4. p = running /\ y = IF o = r THEN i ELSE j
        BY <1>2, <1>7, <1>8, <2>3, <4>3
      <4> QED
        BY <3>1, <4>2, <4>4
    <3>3. IsFiniteSet({e}) /\ Cardinality({e}) = 1
      BY FS_Singleton
    <3>4. IsFiniteSet(E) /\ Cardinality(E) <= 1
      <4>1. E \in SUBSET {e}
        BY <3>2
      <4> QED
        BY <3>3, <4>1, FS_Subset
    <3>5. Cardinality(E) \in Nat
      BY <3>4, FS_CardinalityType
    <3>6. oft'[o].refCount = 1
      BY <1>3, <2>3
    <3> QED
      BY <2>1, <3>4, <3>5, <3>6
  <2> QED
    BY <2>2, <2>3
<1>13. EndsCounted'
  <2> SUFFICES ASSUME NEW o \in OFTs, oft'[o].refCount > 0
               PROVE /\ oft'[o].pipe # NULL
                     /\ UsersOf(pipes'[oft'[o].pipe], oft'[o].mode) = oft'[o].refCount
    BY DEF EndsCounted
  <2>1. CASE o # r /\ o # w
    <3>1. oft'[o] = oft[o] /\ oft[o].refCount > 0
      BY <1>3, <2>1
    <3>2. /\ oft[o].pipe \in Pipes /\ oft[o].pipe # k
          /\ UsersOf(pipes[oft[o].pipe], oft[o].mode) = oft[o].refCount
      BY <1>11, <3>1, NamedIsHeld
    <3> QED
      BY <1>6, <3>1, <3>2 DEF Pipes
  <2>2. CASE o = r
    BY <1>3, <1>5, <1>6, <2>2 DEF UsersOf, Pipes
  <2>3. CASE o = w
    BY <1>3, <1>5, <1>6, <2>3 DEF UsersOf, Pipes
  <2> QED
    BY <2>1, <2>2, <2>3
<1>14. EndsAreThere'
  <2> SUFFICES ASSUME NEW n \in Pipes, NEW mode \in {"read", "write"},
                      UsersOf(pipes'[n], mode) > 0
               PROVE \E o \in OFTs : /\ oft'[o].refCount > 0
                                     /\ oft'[o].pipe = n /\ oft'[o].mode = mode
    BY DEF EndsAreThere
  <2>1. CASE n = k
    BY <1>3, <2>1
  <2>2. CASE n # k
    <3>1. UsersOf(pipes[n], mode) > 0
      BY <1>6, <2>2
    <3>2. PICK o \in OFTs : oft[o].refCount > 0 /\ oft[o].pipe = n /\ oft[o].mode = mode
      BY <3>1 DEF Tables, EndsAreThere
    <3> QED
      BY <1>3, <1>11, <3>2
  <2> QED
    BY <2>1, <2>2
<1>15. EndsAreOne'
  <2> SUFFICES ASSUME NEW o \in OFTs, oft'[o].refCount > 0
               PROVE /\ oft'[o].mode \in {"read", "write"}
                     /\ \A u \in OFTs : /\ oft'[u].refCount > 0
                                        /\ oft'[u].pipe = oft'[o].pipe
                                        /\ oft'[u].mode = oft'[o].mode
                                        => u = o
    BY DEF EndsAreOne
  <2>1. \A u \in OFTs : u # r /\ u # w /\ oft'[u].refCount > 0 =>
            oft'[u] = oft[u] /\ oft[u].refCount > 0 /\ oft[u].pipe # k
    BY <1>3, <1>11
  <2>2. /\ oft'[r].mode = "read" /\ oft'[w].mode = "write"
        /\ oft'[r].pipe = k /\ oft'[w].pipe = k
    BY <1>3
  <2> QED
    BY <2>1, <2>2 DEF Tables, EndsAreOne
<1>16. HeldSound'
  <2> SUFFICES ASSUME NEW n \in Pipes, Held(n)'
               PROVE RingIsSound(pipes'[n]) /\ Contents(pipes'[n]) \in Seq(Bytes)
    BY DEF HeldSound
  <2>1. CASE n = k
    BY <1>5, <1>6, <2>1
  <2>2. CASE n # k
    BY <1>6, <1>9, <2>2 DEF HeldSound
  <2> QED
    BY <2>1, <2>2
<1>17. Tables'
  BY <1>12, <1>13, <1>14, <1>15 DEF Tables
<1> QED
  BY <1>2, <1>3, <1>6, <1>7, <1>10, <1>16, <1>17

-----------------------------------------------------------------------------
(* A transfer changes what is in a pipe, and nobody's hold of it.            *)
LEMMA TransferKeeps ==
  ASSUME Shapes, Tables, HeldSound, NEW k \in Pipes, NEW q \in Rings,
         q.nreader = pipes[k].nreader, q.nwriter = pipes[k].nwriter,
         RingIsSound(q), Contents(q) \in Seq(Bytes),
         pipes' = [pipes EXCEPT ![k] = q], UNCHANGED <<fd, oft>>
  PROVE  /\ pipes' \in [Pipes -> Rings]
         /\ pipes'[k] = q
         /\ \A n \in Pipes : n # k => pipes'[n] = pipes[n]
         /\ \A n \in Pipes : Held(n)' <=> Held(n)
         /\ Tables' /\ HeldSound'
<1>1. /\ pipes' \in [Pipes -> Rings] /\ pipes'[k] = q
      /\ \A n \in Pipes : n # k => pipes'[n] = pipes[n]
  BY DEF Shapes
<1>2. \A n \in Pipes : /\ pipes'[n].nreader = pipes[n].nreader
                       /\ pipes'[n].nwriter = pipes[n].nwriter
  BY <1>1
<1>3. \A n \in Pipes : Held(n)' <=> Held(n)
  BY <1>2 DEF Held
<1>4. \A n \in Pipes, m \in {"read", "write"} : UsersOf(pipes'[n], m) = UsersOf(pipes[n], m)
  BY <1>2 DEF UsersOf
<1>5. HeldSound'
  <2> SUFFICES ASSUME NEW n \in Pipes, Held(n)'
               PROVE RingIsSound(pipes'[n]) /\ Contents(pipes'[n]) \in Seq(Bytes)
    BY DEF HeldSound
  <2> QED
    BY <1>1, <1>3 DEF HeldSound
<1>6. UsersCounted' /\ EndsAreOne'
  BY DEF Tables, UsersCounted, EndsAreOne, DescriptorsTo
<1>7. EndsCounted'
  <2> SUFFICES ASSUME NEW o \in OFTs, oft[o].refCount > 0
               PROVE /\ oft[o].pipe # NULL
                     /\ UsersOf(pipes'[oft[o].pipe], oft[o].mode) = oft[o].refCount
    BY DEF EndsCounted
  <2>1. /\ oft[o].pipe \in Pipes /\ oft[o].mode \in {"read", "write"}
        /\ UsersOf(pipes[oft[o].pipe], oft[o].mode) = oft[o].refCount
    BY NamedIsHeld
  <2> QED
    BY <1>4, <2>1 DEF Pipes
<1>8. EndsAreThere'
  <2> SUFFICES ASSUME NEW n \in Pipes, NEW m \in {"read", "write"},
                      UsersOf(pipes'[n], m) > 0
               PROVE \E o \in OFTs : oft[o].refCount > 0 /\ oft[o].pipe = n /\ oft[o].mode = m
    BY DEF EndsAreThere
  <2>1. UsersOf(pipes[n], m) > 0
    BY <1>4
  <2> QED
    BY <2>1 DEF Tables, EndsAreThere
<1>9. Tables'
  BY <1>6, <1>7, <1>8 DEF Tables
<1> QED
  BY <1>1, <1>3, <1>5, <1>9

-----------------------------------------------------------------------------
(* The ring when one user leaves: as it was, or empty if that was the last.  *)
LEMMA LeftBehind ==
  ASSUME NEW p \in Rings, NEW mode \in {"read", "write"}, UsersOf(p, mode) >= 1,
         NEW q, q = LeftWithout(p, mode)
  PROVE  /\ q \in Rings
         /\ UsersOf(q, mode) = UsersOf(p, mode) - 1
         /\ \A m \in {"read", "write"} : m # mode => UsersOf(q, m) = UsersOf(p, m)
         /\ \/ q.nreader + q.nwriter = 0 /\ Contents(q) = << >>
            \/ /\ q.nreader + q.nwriter > 0
               /\ q.data = p.data /\ q.room = p.room
               /\ Contents(q) = Contents(p)
               /\ RingIsSound(p) => RingIsSound(q)
<1>1. PICK a : a = IF mode = "read" THEN [p EXCEPT !.nreader = @ - 1]
                   ELSE [p EXCEPT !.nwriter = @ - 1]
  OBVIOUS
<1>2. q = IF a.nreader = 0 /\ a.nwriter = 0 THEN Emptied(a) ELSE a
  BY <1>1 DEF LeftWithout
<1>3. PICK x \in Nat, y \in Nat : x = p.nreader /\ y = p.nwriter /\ x <= MaxCount /\ y <= MaxCount
  BY DEF Rings
<1>4. /\ a.nreader = IF mode = "read" THEN x - 1 ELSE x
      /\ a.nwriter = IF mode = "read" THEN y ELSE y - 1
      /\ mode = "read" => x >= 1
      /\ mode = "write" => y >= 1
      /\ a.buf = p.buf /\ a.head = p.head /\ a.tail = p.tail
      /\ a.data = p.data /\ a.room = p.room
  BY <1>1, <1>3 DEF Rings, UsersOf
<1>5. a \in Rings
  <2>1. CASE mode = "read"
    <3>1. x - 1 \in 0 .. MaxCount /\ a = [p EXCEPT !.nreader = x - 1]
      BY <1>1, <1>3, <1>4, <2>1
    <3> QED
      BY <3>1 DEF Rings
  <2>2. CASE mode = "write"
    <3>1. y - 1 \in 0 .. MaxCount /\ a = [p EXCEPT !.nwriter = y - 1]
      BY <1>1, <1>3, <1>4, <2>2
    <3> QED
      BY <3>1 DEF Rings
  <2> QED
    BY <2>1, <2>2
<1>6. /\ UsersOf(a, mode) = UsersOf(p, mode) - 1
      /\ \A m \in {"read", "write"} : m # mode => UsersOf(a, m) = UsersOf(p, m)
  BY <1>3, <1>4 DEF UsersOf
<1>7. a.nreader \in Nat /\ a.nwriter \in Nat
  BY <1>3, <1>4
<1>8. CASE a.nreader = 0 /\ a.nwriter = 0
  <2>1. q = Emptied(a)
    BY <1>2, <1>8
  <2>2. /\ q \in Rings /\ Contents(q) = << >>
        /\ q.nreader = a.nreader /\ q.nwriter = a.nwriter
    BY <1>5, <2>1, EmptiedIsEmpty
  <2>3. \A m \in {"read", "write"} : UsersOf(q, m) = UsersOf(a, m)
    BY <2>2 DEF UsersOf
  <2> QED
    BY <1>6, <1>8, <2>2, <2>3
<1>9. CASE ~(a.nreader = 0 /\ a.nwriter = 0)
  <2>1. q = a
    BY <1>2, <1>9
  <2>2. Contents(q) = Contents(p)
    BY <1>4, <2>1 DEF Contents, Oldest
  <2>3. RingIsSound(p) => RingIsSound(q)
    BY <1>4, <2>1 DEF RingIsSound
  <2>4. q.nreader + q.nwriter > 0
    BY <1>7, <1>9, <2>1
  <2> QED
    BY <1>4, <1>5, <1>6, <2>1, <2>2, <2>3, <2>4
<1> QED
  BY <1>8, <1>9

(* kclosepipe takes one descriptor and one user off an OFT and off its pipe. *)
Closes(i, o, k, q) ==
    /\ o = fd[running][i] /\ o # NULL
    /\ k = oft[o].pipe
    /\ q = LeftWithout(pipes[k], oft[o].mode)
    /\ fd' = [fd EXCEPT ![running][i] = NULL]
    /\ pipes' = [pipes EXCEPT ![k] = q]
    /\ oft' = [oft EXCEPT ![o] =
                  IF UsersOf(q, oft[o].mode) = 0
                  THEN [mode |-> "read", refCount |-> 0, pipe |-> NULL]
                  ELSE [oft[o] EXCEPT !.refCount = @ - 1]]

(* The tables after kclosepipe: the end is given back only by the last who  *)
(* has a descriptor of it.                                                  *)
LEMMA ClosesKeeps ==
  ASSUME Shapes, Tables, HeldSound, running \in Procs,
         NEW i \in FDs, NEW o, NEW k, NEW q, Closes(i, o, k, q)
  PROVE  /\ fd' \in [Procs -> [FDs -> OFTs \cup {NULL}]]
         /\ oft' \in [OFTs -> OFTRecords]
         /\ pipes' \in [Pipes -> Rings]
         /\ Tables' /\ HeldSound'
         /\ k \in Pipes /\ Held(k) /\ pipes'[k] = q
         /\ \A n \in Pipes : n # k => pipes'[n] = pipes[n]
         /\ \/ ~Held(k)' /\ Contents(q) = << >>
            \/ /\ Held(k)' /\ Contents(q) = Contents(pipes[k])
               /\ q.data = pipes[k].data /\ q.room = pipes[k].room
         /\ \A p \in Procs, x \in FDs : p # running => fd'[p][x] = fd[p][x]
         /\ \A p \in Procs, x \in FDs : p # running /\ fd[p][x] # NULL =>
                /\ oft'[fd[p][x]].refCount > 0
                /\ oft'[fd[p][x]].mode = oft[fd[p][x]].mode
                /\ oft'[fd[p][x]].pipe = oft[fd[p][x]].pipe
<1>1. /\ fd \in [Procs -> [FDs -> OFTs \cup {NULL}]]
      /\ oft \in [OFTs -> OFTRecords]
      /\ pipes \in [Pipes -> Rings]
      /\ UsersCounted
  BY DEF Shapes, Tables
<1>2. PICK mode : mode = oft[o].mode
  OBVIOUS
<1>3. o = fd[running][i] /\ o \in OFTs /\ k = oft[o].pipe
  BY <1>1 DEF Closes
<1>3a. /\ q = LeftWithout(pipes[k], mode)
       /\ fd' = [fd EXCEPT ![running][i] = NULL]
       /\ pipes' = [pipes EXCEPT ![k] = q]
  BY <1>2 DEF Closes
<1>4. PICK n \in Nat : n = oft[o].refCount /\ n <= MaxCount
  BY <1>1, <1>3 DEF OFTRecords
<1>5. n >= 1 /\ \A p \in Procs, x \in FDs :
                   fd[p][x] = o /\ (p # running \/ x # i) => n >= 2
  <2>1. fd[running][i] # NULL
    BY <1>3 DEF OFTs
  <2> QED
    BY <1>1, <1>3, <1>4, <2>1, NamedIsCounted
<1>6. /\ k \in Pipes /\ mode \in {"read", "write"} /\ Held(k)
      /\ UsersOf(pipes[k], mode) = n
  <2>1. oft[o].refCount > 0
    BY <1>4, <1>5
  <2>2. /\ oft[o].pipe \in Pipes /\ oft[o].mode \in {"read", "write"}
        /\ UsersOf(pipes[oft[o].pipe], oft[o].mode) = oft[o].refCount
        /\ Held(oft[o].pipe)
    BY <1>3, <2>1, NamedIsHeld
  <2> QED
    BY <1>2, <1>3, <1>4, <2>2
<1>7. /\ q \in Rings
      /\ UsersOf(q, mode) = n - 1
      /\ \A m \in {"read", "write"} : m # mode => UsersOf(q, m) = UsersOf(pipes[k], m)
      /\ \/ q.nreader + q.nwriter = 0 /\ Contents(q) = << >>
         \/ /\ q.nreader + q.nwriter > 0
            /\ q.data = pipes[k].data /\ q.room = pipes[k].room
            /\ Contents(q) = Contents(pipes[k])
            /\ RingIsSound(pipes[k]) => RingIsSound(q)
  <2>1. pipes[k] \in Rings
    BY <1>1, <1>6
  <2> QED
    BY SMTT(30), <1>3a, <1>5, <1>6, <2>1, LeftBehind
<1>8. PICK a : a = IF n = 1 THEN [mode |-> "read", refCount |-> 0, pipe |-> NULL]
                   ELSE [oft[o] EXCEPT !.refCount = n - 1]
  OBVIOUS
<1>9. /\ a \in OFTRecords
      /\ a.refCount = n - 1
      /\ n # 1 => a.mode = mode /\ a.pipe = k
  <2>1. CASE n = 1
    BY <1>8, <2>1 DEF OFTRecords, Modes
  <2>2. CASE n # 1
    <3>1. n - 1 \in 0 .. MaxCount
      BY <1>4, <1>5
    <3> QED
      BY <1>1, <1>2, <1>3, <1>8, <2>2, <3>1 DEF OFTRecords
  <2> QED
    BY <2>1, <2>2
<1>10. /\ oft' \in [OFTs -> OFTRecords] /\ oft'[o] = a
       /\ \A u \in OFTs : u # o => oft'[u] = oft[u]
  <2>1. PICK b : b = IF UsersOf(q, mode) = 0
                     THEN [mode |-> "read", refCount |-> 0, pipe |-> NULL]
                     ELSE [oft[o] EXCEPT !.refCount = @ - 1]
    OBVIOUS
  <2>2. oft' = [oft EXCEPT ![o] = b]
    BY <1>2, <2>1 DEF Closes
  <2>3. UsersOf(q, mode) = 0 <=> n = 1
    BY <1>5, <1>7
  <2>4. oft[o] \in OFTRecords
    BY <1>1, <1>3
  <2>5. [oft[o] EXCEPT !.refCount = @ - 1] = [oft[o] EXCEPT !.refCount = n - 1]
    BY <1>4, <2>4 DEF OFTRecords
  <2>6. b = a
    BY <1>8, <2>1, <2>3, <2>5
  <2> QED
    BY <1>1, <1>3, <1>9, <2>2, <2>6
<1>11. /\ pipes' \in [Pipes -> Rings] /\ pipes'[k] = q
       /\ \A m \in Pipes : m # k => pipes'[m] = pipes[m]
  BY <1>1, <1>3a, <1>6, <1>7
<1>12. /\ fd' \in [Procs -> [FDs -> OFTs \cup {NULL}]]
       /\ \A p \in Procs, x \in FDs :
              fd'[p][x] = IF p = running /\ x = i THEN NULL ELSE fd[p][x]
  BY <1>1, <1>3a
<1>13. \A m \in Pipes : m # k => (Held(m)' <=> Held(m))
  BY <1>11 DEF Held
<1>14. Held(k)' <=> q.nreader + q.nwriter > 0
  BY <1>11 DEF Held
<1>15. UsersCounted'
  <2> SUFFICES ASSUME NEW u \in OFTs
               PROVE oft'[u].refCount >= Cardinality({x \in Procs \X FDs : fd'[x[1]][x[2]] = u})
    BY DEF UsersCounted, DescriptorsTo
  <2>1. PICK E : E = {x \in Procs \X FDs : fd'[x[1]][x[2]] = u}
    OBVIOUS
  <2>2. PICK D : D = DescriptorsTo(u)
    OBVIOUS
  <2>3. IsFiniteSet(D) /\ Cardinality(D) \in Nat
    BY <2>2, DescriptorsAreFinite
  <2>4. E \subseteq D /\ (u = o => E \subseteq D \ {<<running, i>>})
    <3> SUFFICES ASSUME NEW x \in E PROVE x \in D /\ (u = o => x # <<running, i>>)
      OBVIOUS
    <3>1. x \in Procs \X FDs /\ fd'[x[1]][x[2]] = u
      BY <2>1
    <3>2. PICK p \in Procs, y \in FDs : x = <<p, y>>
      BY <3>1
    <3>3. fd'[p][y] = u /\ u # NULL
      BY <3>1, <3>2 DEF OFTs
    <3>4. fd[p][y] = u /\ ~(p = running /\ y = i)
      BY <1>12, <3>3
    <3> QED
      BY <2>2, <3>2, <3>4 DEF DescriptorsTo
  <2>5. CASE u = o
    <3>1. <<running, i>> \in D
      BY <1>3, <2>2, <2>5 DEF DescriptorsTo
    <3>2. /\ IsFiniteSet(D \ {<<running, i>>})
          /\ Cardinality(D \ {<<running, i>>}) = Cardinality(D) - 1
      BY <2>3, <3>1, FS_RemoveElement
    <3>3. E \in SUBSET (D \ {<<running, i>>})
      BY <2>4, <2>5
    <3>4. /\ Cardinality(E) <= Cardinality(D \ {<<running, i>>})
          /\ IsFiniteSet(E) /\ Cardinality(E) \in Nat
      BY <3>2, <3>3, FS_Subset, FS_CardinalityType
    <3>5. Cardinality(D) <= n
      BY <1>1, <1>3, <1>4, <2>2, <2>3, <2>5 DEF UsersCounted
    <3>6. oft'[u].refCount = n - 1
      BY <1>9, <1>10, <2>5
    <3>7. Cardinality(E) <= n - 1
      BY <2>3, <3>2, <3>4, <3>5
    <3> QED
      BY <2>1, <3>4, <3>6, <3>7
  <2>6. CASE u # o
    <3>1. E \in SUBSET D
      BY <2>4
    <3>2. Cardinality(E) <= Cardinality(D) /\ IsFiniteSet(E) /\ Cardinality(E) \in Nat
      BY <2>3, <3>1, FS_Subset, FS_CardinalityType
    <3>3. oft[u].refCount \in Nat /\ oft[u].refCount >= Cardinality(D)
      BY <1>1, <2>2 DEF UsersCounted, OFTRecords
    <3>4. oft'[u] = oft[u]
      BY <1>10, <2>6
    <3> QED
      BY <2>1, <2>3, <3>2, <3>3, <3>4
  <2> QED
    BY <2>5, <2>6
<1>16. \A u \in OFTs : u # o /\ oft[u].refCount > 0 =>
           ~(oft[u].pipe = k /\ oft[u].mode = mode)
  BY <1>2, <1>3, <1>4, <1>5 DEF Tables, EndsAreOne
<1>17. EndsCounted'
  <2> SUFFICES ASSUME NEW u \in OFTs, oft'[u].refCount > 0
               PROVE /\ oft'[u].pipe # NULL
                     /\ UsersOf(pipes'[oft'[u].pipe], oft'[u].mode) = oft'[u].refCount
    BY DEF EndsCounted
  <2>1. CASE u = o
    <3>1. n # 1 /\ oft'[u].pipe = k /\ oft'[u].mode = mode /\ oft'[u].refCount = n - 1
      BY <1>9, <1>10, <2>1
    <3> QED
      BY <1>6, <1>7, <1>11, <3>1 DEF Pipes
  <2>2. CASE u # o
    <3>1. oft'[u] = oft[u] /\ oft[u].refCount > 0
      BY <1>10, <2>2
    <3>2. /\ oft[u].pipe \in Pipes /\ oft[u].mode \in {"read", "write"}
          /\ UsersOf(pipes[oft[u].pipe], oft[u].mode) = oft[u].refCount
      BY <3>1, NamedIsHeld
    <3>3. oft[u].pipe = k => oft[u].mode # mode
      BY <1>16, <2>2, <3>1
    <3>4. UsersOf(pipes'[oft[u].pipe], oft[u].mode) = UsersOf(pipes[oft[u].pipe], oft[u].mode)
      BY <1>7, <1>11, <3>2, <3>3
    <3> QED
      BY <3>1, <3>2, <3>4 DEF Pipes
  <2> QED
    BY <2>1, <2>2
<1>18. EndsAreThere'
  <2> SUFFICES ASSUME NEW m \in Pipes, NEW e \in {"read", "write"},
                      UsersOf(pipes'[m], e) > 0
               PROVE \E u \in OFTs : /\ oft'[u].refCount > 0
                                     /\ oft'[u].pipe = m /\ oft'[u].mode = e
    BY DEF EndsAreThere
  <2>1. CASE m = k /\ e = mode
    <3>1. n # 1 /\ n - 1 > 0
      BY <1>5, <1>7, <1>11, <2>1
    <3> QED
      BY <1>3, <1>9, <1>10, <2>1, <3>1
  <2>2. CASE ~(m = k /\ e = mode)
    <3>1. UsersOf(pipes[m], e) > 0
      BY <1>7, <1>11, <2>2
    <3>2. PICK u \in OFTs : oft[u].refCount > 0 /\ oft[u].pipe = m /\ oft[u].mode = e
      BY <3>1 DEF Tables, EndsAreThere
    <3>3. u # o
      BY <1>2, <1>3, <2>2, <3>2
    <3> QED
      BY <1>10, <3>2, <3>3
  <2> QED
    BY <2>1, <2>2
<1>19. EndsAreOne'
  <2> SUFFICES ASSUME NEW u \in OFTs, oft'[u].refCount > 0
               PROVE /\ oft'[u].mode \in {"read", "write"}
                     /\ \A v \in OFTs : /\ oft'[v].refCount > 0
                                        /\ oft'[v].pipe = oft'[u].pipe
                                        /\ oft'[v].mode = oft'[u].mode
                                        => v = u
    BY DEF EndsAreOne
  <2>1. \A v \in OFTs : oft'[v].refCount > 0 =>
            /\ oft[v].refCount > 0
            /\ oft'[v].pipe = oft[v].pipe
            /\ oft'[v].mode = oft[v].mode
    <3> SUFFICES ASSUME NEW v \in OFTs, oft'[v].refCount > 0
                 PROVE /\ oft[v].refCount > 0
                       /\ oft'[v].pipe = oft[v].pipe
                       /\ oft'[v].mode = oft[v].mode
      OBVIOUS
    <3>1. CASE v = o
      <4>1. oft'[v].refCount = n - 1 /\ oft[v].refCount = n
        BY <1>4, <1>9, <1>10, <3>1
      <4>2. n # 1
        BY <4>1
      <4>3. oft'[v].mode = mode /\ oft'[v].pipe = k
        BY <1>9, <1>10, <3>1, <4>2
      <4>4. oft[v].mode = mode /\ oft[v].pipe = k
        BY <1>2, <1>3, <3>1
      <4> QED
        BY <1>5, <4>1, <4>3, <4>4
    <3>2. CASE v # o
      BY <1>10, <3>2
    <3> QED
      BY <3>1, <3>2
  <2> QED
    BY <2>1 DEF Tables, EndsAreOne
<1>20. HeldSound'
  <2> SUFFICES ASSUME NEW m \in Pipes, Held(m)'
               PROVE RingIsSound(pipes'[m]) /\ Contents(pipes'[m]) \in Seq(Bytes)
    BY DEF HeldSound
  <2>1. CASE m = k
    BY <1>6, <1>7, <1>11, <1>14, <2>1 DEF HeldSound
  <2>2. CASE m # k
    BY <1>11, <1>13, <2>2 DEF HeldSound
  <2> QED
    BY <2>1, <2>2
<1>21. ASSUME NEW p \in Procs, NEW x \in FDs, p # running, fd[p][x] # NULL
       PROVE /\ oft'[fd[p][x]].refCount > 0
             /\ oft'[fd[p][x]].mode = oft[fd[p][x]].mode
             /\ oft'[fd[p][x]].pipe = oft[fd[p][x]].pipe
  <2>1. PICK u \in OFTs : u = fd[p][x]
    BY <1>1, <1>21
  <2>2. CASE u = o
    <3>1. n >= 2
      BY <1>5, <1>21, <2>1, <2>2
    <3> QED
      <4>1. oft'[u].refCount = n - 1 /\ oft'[u].mode = mode /\ oft'[u].pipe = k
        BY <1>9, <1>10, <2>2, <3>1
      <4>2. oft[u].mode = mode /\ oft[u].pipe = k
        BY <1>2, <1>3, <2>2
      <4>3. n - 1 > 0
        BY <3>1
      <4> QED
        BY <2>1, <4>1, <4>2, <4>3
  <2>3. CASE u # o
    <3>1. oft[u].refCount >= 1 /\ oft[u].refCount \in Nat
      BY <1>1, <1>21, <2>1, NamedIsCounted DEF OFTRecords
    <3> QED
      BY <1>10, <2>1, <2>3, <3>1
  <2> QED
    BY <2>2, <2>3
<1>22. \/ ~Held(k)' /\ Contents(q) = << >>
       \/ /\ Held(k)' /\ Contents(q) = Contents(pipes[k])
          /\ q.data = pipes[k].data /\ q.room = pipes[k].room
  <2>1. CASE q.nreader + q.nwriter = 0 /\ Contents(q) = << >>
    BY <1>14, <2>1
  <2>2. CASE ~(q.nreader + q.nwriter = 0 /\ Contents(q) = << >>)
    BY <1>7, <1>14, <2>2
  <2> QED
    BY <2>1, <2>2
<1>23. Tables'
  BY <1>15, <1>17, <1>18, <1>19 DEF Tables
<1>24. \A p \in Procs, x \in FDs : p # running => fd'[p][x] = fd[p][x]
  BY <1>12
<1> QED
  BY <1>6, <1>10, <1>11, <1>12, <1>20, <1>21, <1>22, <1>23, <1>24

-----------------------------------------------------------------------------
(* What fork adds to the counter of one end of a pipe.                       *)
AddedTo(k, mode) ==
    Cardinality({i \in FDs : fd[running][i] # NULL
                             /\ oft[fd[running][i]].pipe = k
                             /\ oft[fd[running][i]].mode = mode})

(* The descriptors of the running process are finitely many.                 *)
LEMMA CopiesAreFinite ==
  ASSUME NEW K, K \subseteq FDs
  PROVE  IsFiniteSet(K) /\ Cardinality(K) \in Nat
<1>1. IsFiniteSet(FDs)
  BY FS_Interval DEF FDs
<1>2. K \in SUBSET FDs
  OBVIOUS
<1>3. IsFiniteSet(K)
  BY <1>1, <1>2, FS_Subset
<1> QED
  BY <1>3, FS_CardinalityType

(* What fork adds to an end of a pipe is what it adds to the OFT of that     *)
(* end: there is only one.                                                   *)
LEMMA AddedAreCopies ==
  ASSUME Shapes, Tables, running \in Procs,
         NEW k \in Pipes, NEW mode \in {"read", "write"}
  PROVE  /\ AddedTo(k, mode) \in Nat
         /\ \A o \in OFTs : Copies(o) \in Nat
         /\ \A o \in OFTs : oft[o].refCount = 0 => Copies(o) = 0
         /\ \A o \in OFTs :
                oft[o].refCount > 0 /\ oft[o].pipe = k /\ oft[o].mode = mode
                => AddedTo(k, mode) = Copies(o)
         /\ UsersOf(pipes[k], mode) = 0 => AddedTo(k, mode) = 0
<1>1. \A i \in FDs : fd[running][i] # NULL =>
          fd[running][i] \in OFTs /\ oft[fd[running][i]].refCount >= 1
  BY NamedIsCounted DEF Tables
<1>2. PICK A : A = {i \in FDs : fd[running][i] # NULL
                                /\ oft[fd[running][i]].pipe = k
                                /\ oft[fd[running][i]].mode = mode}
  OBVIOUS
<1>3. AddedTo(k, mode) = Cardinality(A) /\ Cardinality(A) \in Nat
  <2>1. A \subseteq FDs
    BY <1>2
  <2> QED
    BY <1>2, <2>1, CopiesAreFinite DEF AddedTo
<1>4. ASSUME NEW o \in OFTs
      PROVE  /\ Copies(o) \in Nat
             /\ oft[o].refCount = 0 => Copies(o) = 0
             /\ oft[o].refCount > 0 /\ oft[o].pipe = k /\ oft[o].mode = mode
                => AddedTo(k, mode) = Copies(o)
  <2>1. PICK K : K = {i \in FDs : fd[running][i] = o}
    OBVIOUS
  <2>2. Copies(o) = Cardinality(K) /\ Cardinality(K) \in Nat
    <3>1. K \subseteq FDs
      BY <2>1
    <3> QED
      BY <2>1, <3>1, CopiesAreFinite DEF Copies
  <2>3. o # NULL
    BY DEF OFTs
  <2>4. ASSUME oft[o].refCount = 0 PROVE Copies(o) = 0
    <3>1. K = {}
      BY <1>1, <2>1, <2>3, <2>4
    <3> QED
      BY <2>2, <3>1, FS_EmptySet
  <2>5. ASSUME oft[o].refCount > 0, oft[o].pipe = k, oft[o].mode = mode
        PROVE  A = K
    <3>1. \A i \in FDs : fd[running][i] = o => i \in A
      BY <1>2, <2>3, <2>5
    <3>2. ASSUME NEW i \in A PROVE i \in FDs /\ fd[running][i] = o
      <4>1. /\ i \in FDs /\ fd[running][i] # NULL
            /\ oft[fd[running][i]].pipe = k /\ oft[fd[running][i]].mode = mode
        BY <1>2
      <4>2. PICK u \in OFTs : u = fd[running][i] /\ oft[u].refCount >= 1
        BY <1>1, <4>1
      <4>3. oft[u].refCount > 0
        BY <4>2 DEF Shapes, OFTRecords
      <4>4. u = o
        BY <2>5, <4>1, <4>2, <4>3 DEF Tables, EndsAreOne
      <4> QED
        BY <4>1, <4>2, <4>4
    <3> QED
      BY <2>1, <3>1, <3>2
  <2> QED
    BY <1>3, <2>2, <2>4, <2>5
<1>5. ASSUME UsersOf(pipes[k], mode) = 0 PROVE AddedTo(k, mode) = 0
  <2>1. A = {}
    <3> SUFFICES ASSUME NEW i \in A PROVE FALSE
      OBVIOUS
    <3>1. /\ i \in FDs /\ fd[running][i] # NULL
          /\ oft[fd[running][i]].pipe = k /\ oft[fd[running][i]].mode = mode
      BY <1>2
    <3>2. PICK u \in OFTs : u = fd[running][i] /\ oft[u].refCount >= 1
      BY <1>1, <3>1
    <3>3. oft[u].refCount > 0
      BY <3>2 DEF Shapes, OFTRecords
    <3>4. UsersOf(pipes[oft[u].pipe], oft[u].mode) = oft[u].refCount
      BY <3>3, NamedIsHeld
    <3>5. oft[u].pipe = k /\ oft[u].mode = mode
      BY <3>1, <3>2
    <3>6. oft[u].refCount = 0
      BY <1>5, <3>4, <3>5
    <3> QED
      BY <3>3, <3>6
  <2> QED
    BY <1>3, <2>1, FS_EmptySet
<1> QED
  BY <1>3, <1>4, <1>5

(* The descriptors to o when the child c has copies of those of running.     *)
LEMMA CopiedDescriptors ==
  ASSUME running \in Procs, NEW c \in Procs, NEW o, o # NULL, NEW E,
         E \subseteq Procs \X FDs,
         \A p \in Procs, i \in FDs : <<p, i>> \in E =>
             \/ fd[p][i] = o
             \/ p = c /\ fd[running][i] = o
  PROVE  /\ Cardinality(E) \in Nat
         /\ Copies(o) \in Nat
         /\ Cardinality(E) <= Cardinality(DescriptorsTo(o)) + Copies(o)
<1>1. PICK D : D = DescriptorsTo(o)
  OBVIOUS
<1>2. PICK K : K = {i \in FDs : fd[running][i] = o}
  OBVIOUS
<1>3. PICK C : C = {<<c, i>> : i \in K}
  OBVIOUS
<1>4. IsFiniteSet(D) /\ Cardinality(D) \in Nat
  BY <1>1, DescriptorsAreFinite
<1>5. IsFiniteSet(K) /\ Cardinality(K) \in Nat /\ Copies(o) = Cardinality(K)
  <2>1. K \subseteq FDs
    BY <1>2
  <2> QED
    BY <1>2, <2>1, CopiesAreFinite DEF Copies
<1>6. IsFiniteSet(C) /\ Cardinality(C) <= Cardinality(K)
  <2>1. PICK f : f = [i \in K |-> <<c, i>>]
    OBVIOUS
  <2>2. f \in Surjection(K, C)
    BY <1>3, <2>1 DEF Surjection
  <2> QED
    BY <1>5, <2>2, FS_Surjection
<1>7. Cardinality(C) \in Nat
  BY <1>6, FS_CardinalityType
<1>8. E \in SUBSET (D \cup C)
  <2> SUFFICES ASSUME NEW x \in E PROVE x \in D \cup C
    OBVIOUS
  <2>1. PICK p \in Procs, i \in FDs : x = <<p, i>>
    OBVIOUS
  <2>2. CASE fd[p][i] = o
    BY <1>1, <2>1, <2>2 DEF DescriptorsTo
  <2>3. CASE p = c /\ fd[running][i] = o
    BY <1>2, <1>3, <2>1, <2>3
  <2> QED
    BY <2>1, <2>2, <2>3
<1>9. /\ IsFiniteSet(D \cup C)
      /\ Cardinality(D \cup C) = Cardinality(D) + Cardinality(C) - Cardinality(D \cap C)
  BY <1>4, <1>6, FS_Union
<1>10. Cardinality(D \cap C) \in Nat
  <2>1. D \cap C \in SUBSET D
    OBVIOUS
  <2> QED
    BY <1>4, <2>1, FS_Subset, FS_CardinalityType
<1>11. /\ IsFiniteSet(E) /\ Cardinality(E) \in Nat
       /\ Cardinality(E) <= Cardinality(D \cup C)
  BY <1>8, <1>9, FS_Subset, FS_CardinalityType
<1>12. Cardinality(E) <= Cardinality(D) + Cardinality(K)
  BY <1>4, <1>5, <1>6, <1>7, <1>9, <1>10, <1>11
<1> QED
  BY <1>1, <1>5, <1>11, <1>12

(* The tables after fork.                                                    *)
LEMMA SharesKeeps ==
  ASSUME Shapes, Tables, HeldSound, running \in Procs,
         NEW c \in Procs, c # running,
         \A o \in OFTs : oft[o].refCount + Copies(o) <= MaxCount,
         fd' = [fd EXCEPT ![c] =
                   [i \in FDs |-> IF fd[running][i] # NULL THEN fd[running][i] ELSE @[i]]],
         oft' = [o \in OFTs |-> [oft[o] EXCEPT !.refCount = @ + Copies(o)]],
         Shared
  PROVE  /\ fd' \in [Procs -> [FDs -> OFTs \cup {NULL}]]
         /\ oft' \in [OFTs -> OFTRecords]
         /\ pipes' \in [Pipes -> Rings]
         /\ Tables' /\ HeldSound'
         /\ \A p \in Procs, x \in FDs : p # c => fd'[p][x] = fd[p][x]
         /\ \A o \in OFTs : /\ oft'[o].mode = oft[o].mode
                            /\ oft'[o].pipe = oft[o].pipe
                            /\ oft[o].refCount > 0 <=> oft'[o].refCount > 0
         /\ \A k \in Pipes : /\ pipes'[k].data = pipes[k].data
                             /\ pipes'[k].room = pipes[k].room
                             /\ Contents(pipes'[k]) = Contents(pipes[k])
                             /\ Held(k)' <=> Held(k)
<1>1. /\ fd \in [Procs -> [FDs -> OFTs \cup {NULL}]]
      /\ oft \in [OFTs -> OFTRecords]
      /\ pipes \in [Pipes -> Rings]
      /\ UsersCounted
  BY DEF Shapes, Tables
<1>2. /\ fd' \in [Procs -> [FDs -> OFTs \cup {NULL}]]
      /\ \A p \in Procs, x \in FDs : p # c => fd'[p][x] = fd[p][x]
      /\ \A x \in FDs : fd'[c][x] = IF fd[running][x] # NULL THEN fd[running][x] ELSE fd[c][x]
  <2>1. PICK g : g = [i \in FDs |-> IF fd[running][i] # NULL THEN fd[running][i] ELSE fd[c][i]]
    OBVIOUS
  <2>2. fd' = [fd EXCEPT ![c] = g]
    BY <1>1, <2>1
  <2>3. g \in [FDs -> OFTs \cup {NULL}]
    BY <1>1, <2>1
  <2> QED
    BY <1>1, <2>1, <2>2, <2>3
<1>3. ASSUME NEW o \in OFTs
      PROVE  /\ oft'[o] \in OFTRecords
             /\ oft'[o].mode = oft[o].mode /\ oft'[o].pipe = oft[o].pipe
             /\ oft[o].refCount \in Nat /\ Copies(o) \in Nat
             /\ oft'[o].refCount = oft[o].refCount + Copies(o)
             /\ oft[o].refCount > 0 <=> oft'[o].refCount > 0
  <2>1. oft'[o] = [oft[o] EXCEPT !.refCount = @ + Copies(o)]
    OBVIOUS
  <2>2. oft[o] \in OFTRecords
    BY <1>1
  <2>3. PICK n \in Nat : n = oft[o].refCount
    BY <2>2 DEF OFTRecords
  <2>4. Copies(o) \in Nat /\ (n = 0 => Copies(o) = 0)
    <3>1. PICK K : K = {i \in FDs : fd[running][i] = o}
      OBVIOUS
    <3>2. K \subseteq FDs /\ Copies(o) = Cardinality(K)
      BY <3>1 DEF Copies
    <3>3. n = 0 => K = {}
      <4> SUFFICES ASSUME NEW i \in K, n = 0 PROVE FALSE
        OBVIOUS
      <4>1. i \in FDs /\ fd[running][i] = o /\ fd[running][i] # NULL
        BY SMTT(30), <3>1 DEF OFTs
      <4>2. oft[o].refCount >= 1
        BY <1>1, <4>1, NamedIsCounted
      <4> QED
        BY <2>3, <4>2
    <3> QED
      BY <3>2, <3>3, CopiesAreFinite, FS_EmptySet
  <2>5. n + Copies(o) \in 0 .. MaxCount
    BY <2>3, <2>4
  <2>6. oft'[o] = [oft[o] EXCEPT !.refCount = n + Copies(o)]
    BY <2>1, <2>2, <2>3 DEF OFTRecords
  <2>7. /\ oft'[o] \in OFTRecords
        /\ oft'[o].mode = oft[o].mode /\ oft'[o].pipe = oft[o].pipe
        /\ oft'[o].refCount = n + Copies(o)
    BY <2>2, <2>5, <2>6 DEF OFTRecords
  <2> QED
    BY <2>3, <2>4, <2>7
<1>4. oft' \in [OFTs -> OFTRecords]
  BY <1>3
<1>5. ASSUME NEW k \in Pipes
      PROVE  /\ pipes'[k] \in Rings
             /\ UsersOf(pipes'[k], "read") = UsersOf(pipes[k], "read") + AddedTo(k, "read")
             /\ UsersOf(pipes'[k], "write") = UsersOf(pipes[k], "write") + AddedTo(k, "write")
             /\ pipes'[k].data = pipes[k].data /\ pipes'[k].room = pipes[k].room
             /\ Contents(pipes'[k]) = Contents(pipes[k])
             /\ RingIsSound(pipes[k]) => RingIsSound(pipes'[k])
             /\ Held(k)' <=> Held(k)
  <2>1. PICK a \in Nat, b \in Nat : a = pipes[k].nreader /\ b = pipes[k].nwriter
    BY <1>1 DEF Rings
  <2>2. PICK x, y : x = AddedTo(k, "read") /\ y = AddedTo(k, "write")
    OBVIOUS
  <2>3. /\ x \in Nat /\ y \in Nat
        /\ a = 0 => x = 0
        /\ b = 0 => y = 0
    <3>1. UsersOf(pipes[k], "read") = a /\ UsersOf(pipes[k], "write") = b
      BY <2>1 DEF UsersOf
    <3>2. x \in Nat /\ (UsersOf(pipes[k], "read") = 0 => x = 0)
      BY <2>2, AddedAreCopies
    <3>3. y \in Nat /\ (UsersOf(pipes[k], "write") = 0 => y = 0)
      BY <2>2, AddedAreCopies
    <3> QED
      BY <3>1, <3>2, <3>3
  <2>4. ASSUME NEW mode \in {"read", "write"}
        PROVE  UsersOf(pipes[k], mode) + AddedTo(k, mode) \in 0 .. MaxCount
    <3>1. CASE UsersOf(pipes[k], mode) = 0
      <4>1. AddedTo(k, mode) = 0
        BY <3>1, AddedAreCopies
      <4> QED
        BY <3>1, <4>1
    <3>2. CASE UsersOf(pipes[k], mode) # 0
      <4>1. UsersOf(pipes[k], mode) > 0
        BY <2>1, <3>2 DEF UsersOf
      <4>2. PICK o \in OFTs : oft[o].refCount > 0 /\ oft[o].pipe = k /\ oft[o].mode = mode
        BY <4>1 DEF Tables, EndsAreThere
      <4>3. AddedTo(k, mode) = Copies(o)
        BY <4>2, AddedAreCopies
      <4>4. UsersOf(pipes[oft[o].pipe], oft[o].mode) = oft[o].refCount
        BY <4>2, NamedIsHeld
      <4>5. UsersOf(pipes[k], mode) = oft[o].refCount
        BY <4>2, <4>4
      <4>6. oft[o].refCount \in Nat /\ Copies(o) \in Nat
        BY <1>3
      <4>7. oft[o].refCount + Copies(o) <= MaxCount
        OBVIOUS
      <4> QED
        BY <4>3, <4>5, <4>6, <4>7
    <3> QED
      BY <3>1, <3>2
  <2>5. a + x \in 0 .. MaxCount /\ b + y \in 0 .. MaxCount
    <3>1. UsersOf(pipes[k], "read") = a /\ UsersOf(pipes[k], "write") = b
      BY <2>1 DEF UsersOf
    <3> QED
      BY <2>2, <2>4, <3>1
  <2>6. pipes'[k] = [pipes[k] EXCEPT !.nreader = @ + x, !.nwriter = @ + y]
    BY <2>2 DEF Shared, AddedTo
  <2>7. pipes[k] \in Rings
    BY <1>1
  <2>8. PICK p, q : p = pipes[k] /\ q = pipes'[k]
    OBVIOUS
  <2>9. q = [p EXCEPT !.nreader = a + x, !.nwriter = b + y]
    BY <2>1, <2>6, <2>7, <2>8 DEF Rings
  <2>10. /\ q \in Rings
         /\ q.nreader = a + x /\ q.nwriter = b + y
         /\ q.buf = p.buf /\ q.head = p.head /\ q.tail = p.tail
         /\ q.data = p.data /\ q.room = p.room
    BY <2>5, <2>7, <2>8, <2>9 DEF Rings
  <2>11. Contents(q) = Contents(p)
    BY <2>10 DEF Contents, Oldest
  <2>12. RingIsSound(p) => RingIsSound(q)
    BY <2>10 DEF RingIsSound
  <2>13. /\ UsersOf(q, "read") = UsersOf(p, "read") + x
         /\ UsersOf(q, "write") = UsersOf(p, "write") + y
    BY <2>1, <2>8, <2>10 DEF UsersOf
  <2>14. Held(k)' <=> Held(k)
    <3>1. Held(k)' <=> (a + x) + (b + y) > 0
      BY <2>8, <2>10 DEF Held
    <3>2. Held(k) <=> a + b > 0
      BY <2>1 DEF Held
    <3> QED
      BY SMTT(30), <2>3, <3>1, <3>2
  <2> QED
    BY <2>2, <2>8, <2>10, <2>11, <2>12, <2>13, <2>14
<1>6. pipes' \in [Pipes -> Rings]
  <2>1. \A k \in Pipes : pipes'[k] \in Rings
    BY <1>5
  <2> QED
    BY <2>1 DEF Shared
<1>7. UsersCounted'
  <2> SUFFICES ASSUME NEW o \in OFTs
               PROVE oft'[o].refCount >= Cardinality({x \in Procs \X FDs : fd'[x[1]][x[2]] = o})
    BY DEF UsersCounted, DescriptorsTo
  <2>1. PICK E : E = {x \in Procs \X FDs : fd'[x[1]][x[2]] = o}
    OBVIOUS
  <2>2. o # NULL /\ E \subseteq Procs \X FDs
    BY SMTT(30), <2>1 DEF OFTs
  <2>3. ASSUME NEW p \in Procs, NEW i \in FDs, <<p, i>> \in E
        PROVE  fd[p][i] = o \/ (p = c /\ fd[running][i] = o)
    <3>1. fd'[p][i] = o
      BY <2>1, <2>3
    <3> QED
      BY <1>2, <3>1
  <2>4. /\ Cardinality(E) \in Nat
        /\ Cardinality(E) <= Cardinality(DescriptorsTo(o)) + Copies(o)
    BY <2>2, <2>3, CopiedDescriptors
  <2>5. Cardinality(DescriptorsTo(o)) \in Nat
    BY DescriptorsAreFinite
  <2>6. oft[o].refCount >= Cardinality(DescriptorsTo(o))
    BY <1>1 DEF UsersCounted
  <2>7. /\ oft[o].refCount \in Nat /\ Copies(o) \in Nat
        /\ oft'[o].refCount = oft[o].refCount + Copies(o)
    BY <1>3
  <2> QED
    BY <2>1, <2>4, <2>5, <2>6, <2>7
<1>8. EndsCounted'
  <2> SUFFICES ASSUME NEW o \in OFTs, oft'[o].refCount > 0
               PROVE /\ oft'[o].pipe # NULL
                     /\ UsersOf(pipes'[oft'[o].pipe], oft'[o].mode) = oft'[o].refCount
    BY DEF EndsCounted
  <2>1. /\ oft[o].refCount > 0
        /\ oft'[o].mode = oft[o].mode /\ oft'[o].pipe = oft[o].pipe
        /\ oft'[o].refCount = oft[o].refCount + Copies(o)
    BY <1>3
  <2>2. PICK k \in Pipes, mode \in {"read", "write"} :
            /\ oft[o].pipe = k /\ oft[o].mode = mode
            /\ UsersOf(pipes[k], mode) = oft[o].refCount
    BY <2>1, NamedIsHeld
  <2>3. AddedTo(k, mode) = Copies(o)
    BY <2>1, <2>2, AddedAreCopies
  <2>4. UsersOf(pipes'[k], mode) = UsersOf(pipes[k], mode) + AddedTo(k, mode)
    BY <1>5
  <2> QED
    BY <2>1, <2>2, <2>3, <2>4 DEF Pipes
<1>9. EndsAreThere'
  <2> SUFFICES ASSUME NEW k \in Pipes, NEW mode \in {"read", "write"},
                      UsersOf(pipes'[k], mode) > 0
               PROVE \E o \in OFTs : /\ oft'[o].refCount > 0
                                     /\ oft'[o].pipe = k /\ oft'[o].mode = mode
    BY DEF EndsAreThere
  <2>1. UsersOf(pipes'[k], mode) = UsersOf(pipes[k], mode) + AddedTo(k, mode)
    BY <1>5
  <2>2. UsersOf(pipes[k], mode) # 0
    <3> SUFFICES ASSUME UsersOf(pipes[k], mode) = 0 PROVE FALSE
      OBVIOUS
    <3>1. AddedTo(k, mode) = 0
      BY AddedAreCopies
    <3> QED
      BY <2>1, <3>1
  <2>3. UsersOf(pipes[k], mode) > 0
    BY <1>1, <2>2 DEF UsersOf, Rings
  <2>4. PICK o \in OFTs : oft[o].refCount > 0 /\ oft[o].pipe = k /\ oft[o].mode = mode
    BY <2>3 DEF Tables, EndsAreThere
  <2> QED
    BY <1>3, <2>4
<1>10. EndsAreOne'
  <2> SUFFICES ASSUME NEW o \in OFTs, oft'[o].refCount > 0
               PROVE /\ oft'[o].mode \in {"read", "write"}
                     /\ \A u \in OFTs : /\ oft'[u].refCount > 0
                                        /\ oft'[u].pipe = oft'[o].pipe
                                        /\ oft'[u].mode = oft'[o].mode
                                        => u = o
    BY DEF EndsAreOne
  <2>1. \A u \in OFTs : /\ oft'[u].mode = oft[u].mode /\ oft'[u].pipe = oft[u].pipe
                        /\ oft[u].refCount > 0 <=> oft'[u].refCount > 0
    BY <1>3
  <2> QED
    BY <2>1 DEF Tables, EndsAreOne
<1>11. HeldSound'
  <2> SUFFICES ASSUME NEW k \in Pipes, Held(k)'
               PROVE RingIsSound(pipes'[k]) /\ Contents(pipes'[k]) \in Seq(Bytes)
    BY DEF HeldSound
  <2>1. RingIsSound(pipes[k]) /\ Contents(pipes[k]) \in Seq(Bytes)
    BY <1>5 DEF HeldSound
  <2> QED
    BY <1>5, <2>1
<1>12. Tables'
  BY <1>7, <1>8, <1>9, <1>10 DEF Tables
<1>13. \A o \in OFTs : /\ oft'[o].mode = oft[o].mode
                       /\ oft'[o].pipe = oft[o].pipe
                       /\ oft[o].refCount > 0 <=> oft'[o].refCount > 0
  BY <1>3
<1>14. \A k \in Pipes : /\ pipes'[k].data = pipes[k].data
                        /\ pipes'[k].room = pipes[k].room
                        /\ Contents(pipes'[k]) = Contents(pipes[k])
                        /\ Held(k)' <=> Held(k)
  BY <1>5
<1>15. \A p \in Procs, x \in FDs : p # c => fd'[p][x] = fd[p][x]
  BY <1>2
<1>16. fd' \in [Procs -> [FDs -> OFTs \cup {NULL}]]
  BY <1>2
<1> QED
  BY <1>4, <1>6, <1>11, <1>12, <1>13, <1>14, <1>15, <1>16

-----------------------------------------------------------------------------
(* Who sleeps in a pipe call holds the end of the pipe that he sleeps on.    *)
LEMMA CallerHolds ==
  ASSUME Shapes, Tables, PointerStaysGood, NEW p \in Procs, call[p].op # "none"
  PROVE  /\ call[p].op \in {"read", "write"}
         /\ call[p].pipe \in Pipes
         /\ UsersOf(pipes[call[p].pipe], call[p].op) > 0
         /\ Held(call[p].pipe)
<1>1. PICK i \in FDs : /\ fd[p][i] # NULL
                       /\ oft[fd[p][i]].refCount > 0
                       /\ oft[fd[p][i]].mode = call[p].op
                       /\ oft[fd[p][i]].pipe = call[p].pipe
  BY DEF PointerStaysGood
<1>2. PICK o \in OFTs : o = fd[p][i]
  BY <1>1 DEF Shapes
<1> QED
  BY <1>1, <1>2, NamedIsHeld

(* What a process waits for stays what it was while others run.              *)
LEMMA OthersWaitWell ==
  ASSUME CallersWait, Undisturbed,
         NEW p \in Procs, p # running, call'[p] = call[p]
  PROVE  WaitsWell(p)'
<1>1. call[p].op # "none" =>
          /\ pc[p] = "body" /\ status[p] \in Awaiting
          /\ status[p] = "SLEEP" => event[p] = EventOf(call[p])
          /\ call[p].op = "read" => call[p].n >= 1
  BY DEF CallersWait, WaitsWell
<1>2. status[p] \in Awaiting =>
          /\ status'[p] \in Awaiting
          /\ pc'[p] = pc[p]
          /\ status'[p] = "SLEEP" => status[p] = "SLEEP" /\ event'[p] = event[p]
  BY DEF Undisturbed
<1>3. PICK c : c = call[p]
  OBVIOUS
<1> QED
  BY <1>1, <1>2, <1>3 DEF WaitsWell, EventOf

(* The pipe pointer of one process.                                          *)
PointerGood(p) ==
    call[p].op # "none" =>
        \E i \in FDs : /\ fd[p][i] # NULL
                       /\ oft[fd[p][i]].refCount > 0
                       /\ oft[fd[p][i]].mode = call[p].op
                       /\ oft[fd[p][i]].pipe = call[p].pipe

(* It stays good where the descriptors and their OFTs stay.                  *)
LEMMA PointerKept ==
  ASSUME PointerStaysGood, NEW p \in Procs, call'[p] = call[p],
         \A x \in FDs : fd[p][x] # NULL /\ oft[fd[p][x]].refCount > 0 =>
             /\ fd'[p][x] = fd[p][x]
             /\ oft'[fd[p][x]].refCount > 0
             /\ oft'[fd[p][x]].mode = oft[fd[p][x]].mode
             /\ oft'[fd[p][x]].pipe = oft[fd[p][x]].pipe
  PROVE  PointerGood(p)'
<1> SUFFICES ASSUME call[p].op # "none"
             PROVE \E i \in FDs : /\ fd'[p][i] # NULL
                                  /\ oft'[fd'[p][i]].refCount > 0
                                  /\ oft'[fd'[p][i]].mode = call[p].op
                                  /\ oft'[fd'[p][i]].pipe = call[p].pipe
  BY DEF PointerGood
<1>1. PICK i \in FDs : /\ fd[p][i] # NULL
                       /\ oft[fd[p][i]].refCount > 0
                       /\ oft[fd[p][i]].mode = call[p].op
                       /\ oft[fd[p][i]].pipe = call[p].pipe
  BY DEF PointerStaysGood
<1> WITNESS i \in FDs
<1> QED
  BY <1>1

(* Nobody misses anything by a step that leaves data and room as they are.   *)
LEMMA OthersMissNothing ==
  ASSUME NobodyMisses, Undisturbed, Shapes, Tables, CallersWait, PointerStaysGood,
         NEW p \in Procs, p # running, call'[p] = call[p],
         \A k \in Pipes :
             call[p].op # "none" /\ status'[p] = "SLEEP" /\ Held(k) /\ call[p].pipe = k =>
                 pipes'[k].data = pipes[k].data /\ pipes'[k].room = pipes[k].room
  PROVE  MissesNothing(p)'
<1> SUFFICES ASSUME status'[p] = "SLEEP", call[p].op # "none"
             PROVE /\ call[p].op = "read" => pipes'[call[p].pipe].data = 0
                   /\ call[p].op = "write" => pipes'[call[p].pipe].room = 0
  BY DEF MissesNothing
<1>1. status[p] = "SLEEP"
  BY DEF Undisturbed, CallersWait, WaitsWell
<1>2. /\ call[p].op = "read" => pipes[call[p].pipe].data = 0
      /\ call[p].op = "write" => pipes[call[p].pipe].room = 0
  BY <1>1 DEF NobodyMisses, MissesNothing
<1>3. call[p].pipe \in Pipes /\ Held(call[p].pipe)
  BY CallerHolds
<1> QED
  BY <1>2, <1>3

(* What everybody but the running process does not notice.                   *)
LEMMA OthersKeep ==
  ASSUME PipeIInv, Undisturbed,
         NEW p \in Procs, p # running, call'[p] = call[p],
         \A x \in FDs : fd[p][x] # NULL /\ oft[fd[p][x]].refCount > 0 =>
             /\ fd'[p][x] = fd[p][x]
             /\ oft'[fd[p][x]].refCount > 0
             /\ oft'[fd[p][x]].mode = oft[fd[p][x]].mode
             /\ oft'[fd[p][x]].pipe = oft[fd[p][x]].pipe,
         \A k \in Pipes :
             call[p].op # "none" /\ status'[p] = "SLEEP" /\ Held(k) /\ call[p].pipe = k =>
                 pipes'[k].data = pipes[k].data /\ pipes'[k].room = pipes[k].room
  PROVE  WaitsWell(p)' /\ PointerGood(p)' /\ MissesNothing(p)'
BY OthersWaitWell, PointerKept, OthersMissNothing DEF PipeIInv

(* Of a process that is in no call there is nothing to say.                  *)
LEMMA NothingToKeep ==
  ASSUME NEW p \in Procs, call'[p].op = "none"
  PROVE  WaitsWell(p)' /\ PointerGood(p)' /\ MissesNothing(p)'
BY DEF WaitsWell, PointerGood, MissesNothing

(* The invariant after a step, put together.                                 *)
LEMMA PutTogether ==
  ASSUME KInv', Shapes', HeldSound', Tables',
         \A p \in Procs : WaitsWell(p)' /\ PointerGood(p)' /\ MissesNothing(p)'
  PROVE  PipeIInv'
<1>1. CallersWait' /\ NobodyMisses'
  BY DEF CallersWait, NobodyMisses
<1>2. PointerStaysGood'
  BY DEF PointerStaysGood, PointerGood
<1> QED
  BY <1>1, <1>2 DEF PipeIInv

(* Nobody runs but a process that exists, and P0 calls nothing.              *)
LEMMA RunnerIsThere ==
  ASSUME PipeIInv
  PROVE  /\ running \in Procs /\ status[running] = "RUNNING"
         /\ pc[0] \notin {"body", "kwait"} /\ call[0].op = "none"
         /\ Shapes /\ Tables /\ HeldSound /\ KInv
         /\ pc[running] # "body" => call[running].op = "none"
<1>1. /\ running \in Procs /\ status[running] = "RUNNING"
      /\ pc[0] \notin {"body", "kwait"}
  BY TwoHalves DEF PipeIInv, Sane
<1>2. 0 \in Procs
  BY DEF Procs
<1>3. \A p \in Procs : WaitsWell(p)
  BY DEF PipeIInv, CallersWait
<1>4. call[0].op = "none" /\ (pc[running] # "body" => call[running].op = "none")
  BY <1>1, <1>2, <1>3 DEF WaitsWell
<1> QED
  BY <1>1, <1>4 DEF PipeIInv

-----------------------------------------------------------------------------
(* What a step does to the channel that PipeChannel describes.               *)
Carries == [Channel!ChannelNext]_<<[k \in Pipes |-> Held(k)],
                                   [k \in Pipes |-> Contents(pipes[k])], delivered>>

(* A step of which the channels see nothing.                                *)
LEMMA CarriesNothing ==
  ASSUME \A k \in Pipes : Held(k)' <=> Held(k),
         \A k \in Pipes : Contents(pipes'[k]) = Contents(pipes[k]),
         delivered' = delivered
  PROVE  Carries
<1>1. [k \in Pipes |-> Held(k)]' = [k \in Pipes |-> Held(k)]
  <2>1. \A k \in Pipes : Held(k)' = Held(k)
    BY DEF Held
  <2> QED
    BY <2>1, Zenon
<1>2. [k \in Pipes |-> Contents(pipes[k])]' = [k \in Pipes |-> Contents(pipes[k])]
  OBVIOUS
<1> QED
  BY <1>1, <1>2 DEF Carries

(* The channel of one pipe changes.                                          *)
LEMMA CarriesOne ==
  ASSUME NEW k \in Pipes, \A n \in Pipes : n # k => pipes'[n] = pipes[n]
  PROVE  /\ [n \in Pipes |-> Held(n)]' = [[n \in Pipes |-> Held(n)] EXCEPT ![k] = Held(k)']
         /\ [n \in Pipes |-> Contents(pipes[n])]'
               = [[n \in Pipes |-> Contents(pipes[n])] EXCEPT ![k] = Contents(pipes'[k])]
<1>1. [n \in Pipes |-> Held(n)]' = [[n \in Pipes |-> Held(n)] EXCEPT ![k] = Held(k)']
  BY DEF Held
<1>2. [n \in Pipes |-> Contents(pipes[n])]'
         = [[n \in Pipes |-> Contents(pipes[n])] EXCEPT ![k] = Contents(pipes'[k])]
  OBVIOUS
<1> QED
  BY <1>1, <1>2

(* A pipe is opened.                                                         *)
LEMMA CarriesOpen ==
  ASSUME NEW k \in Pipes, \A n \in Pipes : n # k => pipes'[n] = pipes[n],
         ~Held(k), Held(k)', Contents(pipes'[k]) = << >>, delivered' = delivered
  PROVE  Carries
<1>1. /\ [n \in Pipes |-> Held(n)]' = [[n \in Pipes |-> Held(n)] EXCEPT ![k] = TRUE]
      /\ [n \in Pipes |-> Contents(pipes[n])]'
            = [[n \in Pipes |-> Contents(pipes[n])] EXCEPT ![k] = << >>]
  <2>1. Held(k)' = TRUE
    OBVIOUS
  <2> QED
    BY <2>1, CarriesOne
<1>2. Channel!Open(k)
  BY <1>1 DEF Channel!Open
<1> QED
  BY <1>2 DEF Carries, Channel!ChannelNext

(* The last user closes it.                                                  *)
LEMMA CarriesClose ==
  ASSUME NEW k \in Pipes, \A n \in Pipes : n # k => pipes'[n] = pipes[n],
         Held(k), ~Held(k)', Contents(pipes'[k]) = << >>, delivered' = delivered
  PROVE  Carries
<1>1. /\ [n \in Pipes |-> Held(n)]' = [[n \in Pipes |-> Held(n)] EXCEPT ![k] = FALSE]
      /\ [n \in Pipes |-> Contents(pipes[n])]'
            = [[n \in Pipes |-> Contents(pipes[n])] EXCEPT ![k] = << >>]
  <2>1. Held(k)' = FALSE
    BY DEF Held
  <2> QED
    BY <2>1, CarriesOne
<1>2. Channel!Close(k)
  BY <1>1 DEF Channel!Close
<1> QED
  BY <1>2 DEF Carries, Channel!ChannelNext

(* The bytes s go into the pipe k and no further than it has room.           *)
Sends(k, s) ==
    /\ Held(k) /\ Held(k)'
    /\ Len(s) \in 0 .. PSIZE
    /\ Len(Contents(pipes[k])) + Len(s) <= PSIZE
    /\ Contents(pipes'[k]) = Contents(pipes[k]) \o s
    /\ \A n \in Pipes : n # k => pipes'[n] = pipes[n]
    /\ delivered' = delivered

(* That is a Send of PipeChannel.                                           *)
LEMMA CarriesSend ==
  ASSUME NEW k \in Pipes, NEW s \in Seq(Bytes), Sends(k, s)
  PROVE  Carries
<1> USE DEF Sends
<1>1. /\ [n \in Pipes |-> Held(n)]' = [n \in Pipes |-> Held(n)]
      /\ [n \in Pipes |-> Contents(pipes[n])]'
            = [[n \in Pipes |-> Contents(pipes[n])] EXCEPT ![k] = Contents(pipes[k]) \o s]
  <2>1. Held(k)' = Held(k)
    BY DEF Held
  <2> QED
    BY <2>1, CarriesOne
<1>2. s \in Channel!BoundedSeq(Bytes, PSIZE)
  <2>1. s \in [1 .. Len(s) -> Bytes]
    OBVIOUS
  <2> QED
    BY <2>1 DEF Channel!BoundedSeq, Channel!SeqOf
<1>3. Channel!Send(k, s)
  BY <1>1 DEF Channel!Send
<1>4. Channel!ChannelNext
  BY <1>2, <1>3 DEF Channel!ChannelNext
<1> QED
  BY <1>4 DEF Carries

(* Bytes come out of it.                                                     *)
LEMMA CarriesReceive ==
  ASSUME NEW k \in Pipes, \A n \in Pipes : n # k => pipes'[n] = pipes[n],
         Held(k), Held(k)', NEW m \in Nat, m \in 1 .. Len(Contents(pipes[k])),
         m <= PSIZE,
         Contents(pipes'[k])
            = SubSeq(Contents(pipes[k]), m + 1, Len(Contents(pipes[k]))),
         delivered' = SubSeq(Contents(pipes[k]), 1, m)
  PROVE  Carries
<1>1. PICK c : c = Contents(pipes[k])
  OBVIOUS
<1>2. /\ [n \in Pipes |-> Held(n)]' = [n \in Pipes |-> Held(n)]
      /\ [n \in Pipes |-> Contents(pipes[n])]'
            = [[n \in Pipes |-> Contents(pipes[n])] EXCEPT ![k] = SubSeq(c, m + 1, Len(c))]
  <2>1. Held(k)' = Held(k)
    BY DEF Held
  <2> QED
    BY <1>1, <2>1, CarriesOne
<1>3. Channel!Receive(k, m)
  BY <1>1, <1>2 DEF Channel!Receive
<1>4. m \in 1 .. PSIZE
  OBVIOUS
<1>5. Channel!ChannelNext
  BY <1>3, <1>4 DEF Channel!ChannelNext
<1> QED
  BY <1>5 DEF Carries

-----------------------------------------------------------------------------
(* A step of the process kernel, of a process that is in no pipe call.       *)
LEMMA QuietKeeps ==
  ASSUME PipeIInv, KInv', Undisturbed, UNCHANGED pipeVars, call[running].op = "none"
  PROVE  PipeIInv' /\ Carries
<1>1. UNCHANGED <<fd, oft, pipes, call, delivered>>
  BY DEF pipeVars
<1>2. Shapes' /\ HeldSound' /\ Tables'
  <2>1. Shapes /\ HeldSound /\ Tables
    BY DEF PipeIInv
  <2> QED
    BY <1>1, <2>1 DEF Shapes, HeldSound, Held, Tables, UsersCounted, DescriptorsTo,
                      EndsCounted, EndsAreThere, EndsAreOne
<1>3. ASSUME NEW p \in Procs
      PROVE  WaitsWell(p)' /\ PointerGood(p)' /\ MissesNothing(p)'
  <2>1. CASE p # running
    BY <1>1, <2>1, OthersKeep
  <2>2. CASE p = running
    BY <1>1, <2>2, NothingToKeep
  <2> QED
    BY <2>1, <2>2
<1>4. Carries
  <2>1. \A k \in Pipes : Held(k)' <=> Held(k)
    BY <1>1 DEF Held
  <2> QED
    BY <1>1, <2>1, CarriesNothing
<1> QED
  BY <1>2, <1>3, <1>4, PutTogether

(* P0 makes P1 and gives the machine away, and whoever is at his prompt      *)
(* yields, waits or, not being P1, exits.                                    *)
LEMMA KernelKeeps ==
  ASSUME PipeIInv, UNCHANGED pipeVars,
         \/ MainFork
         \/ MainSwitch
         \/ InUmode /\ DoTswitch
         \/ InUmode /\ DoWait
         \/ WaitAgain
         \/ \E value \in ExitValues : InUmode /\ kexit(value)
  PROVE  PipeIInv' /\ Carries
<1>1. /\ running \in Procs /\ pc[0] \notin {"body", "kwait"} /\ call[0].op = "none"
      /\ KInv /\ (pc[running] # "body" => call[running].op = "none")
      /\ pc \in [Procs -> Places]
  BY RunnerIsThere, TwoHalves DEF Sane
<1>2. InUmode => call[running].op = "none" /\ running # 0
  BY <1>1 DEF InUmode, AtPrompt, NoCall
<1>3. CASE MainFork
  <2>1. kfork /\ running = 0 /\ pc' = [pc EXCEPT ![0] = "loop"]
    BY <1>3 DEF MainFork
  <2>2. \A p \in Procs : p # running => pc'[p] = pc[p]
    BY <1>1, <2>1
  <2>3. Undisturbed
    BY <1>1, <2>1, <2>2, KforkUndisturbed
  <2>4. KInv'
    BY <1>1, <1>3, NextKeeps DEF Next
  <2> QED
    BY <1>1, <2>1, <2>3, <2>4, QuietKeeps
<1>4. CASE MainSwitch
  <2>1. /\ scheduler(status, readyQueue) /\ running = 0
        /\ pc' = [pc EXCEPT ![0] = "tswitch"] /\ event' = event
    BY <1>4 DEF MainSwitch
  <2>2. \A p \in Procs : p # running => pc'[p] = pc[p] /\ event'[p] = event[p]
    BY <1>1, <2>1
  <2>3. Undisturbed
    BY <1>1, <2>1, <2>2, TswitchUndisturbed
  <2>4. KInv'
    BY <1>1, <1>4, NextKeeps DEF Next
  <2> QED
    BY <1>1, <2>1, <2>3, <2>4, QuietKeeps
<1>5. CASE InUmode /\ DoTswitch
  <2>1. scheduler(status, readyQueue) /\ pc' = pc /\ event' = event
    BY <1>5 DEF DoTswitch
  <2>2. Undisturbed
    BY <1>1, <2>1, TswitchUndisturbed
  <2>3. KInv'
    BY <1>1, <1>5, NextKeeps DEF Next, body
  <2> QED
    BY <1>2, <1>5, <2>2, <2>3, QuietKeeps
<1>6. CASE InUmode /\ DoWait
  <2>1. LayToRest \/ SleepOnSelf
    BY <1>6 DEF DoWait
  <2>2. Undisturbed
    BY <1>1, <1>2, <1>6, <2>1, KwaitUndisturbed
  <2>3. KInv'
    BY <1>1, <1>6, NextKeeps DEF Next, body
  <2> QED
    BY <1>2, <1>6, <2>2, <2>3, QuietKeeps
<1>7. CASE WaitAgain
  <2>1. /\ LayToRest \/ SleepOnSelf
        /\ pc[running] = "kwait"
    BY <1>7 DEF WaitAgain
  <2>2. running # 0
    BY <1>1, <2>1
  <2>3. Undisturbed
    BY <1>1, <2>1, <2>2, KwaitUndisturbed
  <2>4. KInv'
    BY <1>1, <1>7, NextKeeps DEF Next
  <2> QED
    BY <1>1, <2>1, <2>3, <2>4, QuietKeeps
<1>8. CASE \E value \in ExitValues : InUmode /\ kexit(value)
  <2>1. PICK value \in ExitValues : kexit(value)
    BY <1>8
  <2>2. value \in Int /\ InUmode
    BY <1>8
  <2>3. Undisturbed
    BY <1>1, <1>2, <2>1, <2>2, KexitUndisturbed
  <2>4. KInv'
    BY <1>1, <1>2, <2>1, <2>2, KexitKeeps DEF InUmode
  <2> QED
    BY <1>2, <2>2, <2>3, <2>4, QuietKeeps
<1> QED
  BY <1>3, <1>4, <1>5, <1>6, <1>7, <1>8

(* kpipe.                                                                    *)
LEMMA KpipeKeeps ==
  ASSUME PipeIInv, kpipe
  PROVE  PipeIInv' /\ Carries
<1>1. running \in Procs /\ Shapes /\ Tables /\ HeldSound /\ KInv
  BY RunnerIsThere
<1>2. /\ UNCHANGED vars /\ call' = call /\ delivered' = delivered
      /\ call[running].op = "none"
  BY DEF kpipe, InUmode, NoCall
<1>3. PICK k \in Pipes, r \in OFTs, w \in OFTs, i \in FDs, j \in FDs : Opens(k, r, w, i, j)
  BY <1>1, KpipeOpens
<1>4. /\ oft' \in [OFTs -> OFTRecords] /\ pipes' \in [Pipes -> Rings]
      /\ Tables' /\ HeldSound'
      /\ \A p \in Procs, x \in FDs : p # running => fd'[p][x] = fd[p][x]
      /\ \A o \in OFTs : oft[o].refCount > 0 => oft'[o] = oft[o]
      /\ \A n \in Pipes : Held(n) => pipes'[n] = pipes[n]
  BY <1>1, <1>3, OpensKeeps
<1>5. fd' \in [Procs -> [FDs -> OFTs \cup {NULL}]]
  BY <1>3 DEF Opens
<1>6. Shapes'
  BY <1>1, <1>2, <1>4, <1>5 DEF Shapes
<1>7. KInv'
  BY <1>1, <1>2, NextKeeps
<1>8. Undisturbed
  BY <1>2 DEF Undisturbed, vars
<1>9. ASSUME NEW p \in Procs
      PROVE  WaitsWell(p)' /\ PointerGood(p)' /\ MissesNothing(p)'
  <2>1. CASE p = running
    BY <1>2, <2>1, NothingToKeep
  <2>2. CASE p # running
    <3>1. ASSUME NEW x \in FDs, fd[p][x] # NULL, oft[fd[p][x]].refCount > 0
          PROVE  fd'[p][x] = fd[p][x] /\ oft'[fd[p][x]] = oft[fd[p][x]]
      <4>1. fd[p][x] \in OFTs
        BY <1>1, <3>1 DEF Shapes
      <4> QED
        BY <1>4, <2>2, <3>1, <4>1
    <3>2. call'[p] = call[p]
      BY <1>2
    <3> QED
      BY <1>4, <1>8, <2>2, <3>1, <3>2, OthersKeep
  <2> QED
    BY <2>1, <2>2
<1>10. Carries
  <2>1. /\ pipes' = [pipes EXCEPT ![k] = Opened(pipes[k])]
        /\ pipes[k].nreader = 0 /\ pipes[k].nwriter = 0
    BY <1>3 DEF Opens
  <2>2. PICK q : q = Opened(pipes[k])
    OBVIOUS
  <2>3. pipes[k] \in Rings /\ pipes \in [Pipes -> Rings]
    BY <1>1 DEF Shapes
  <2>4. q \in Rings /\ Contents(q) = << >> /\ q.nreader = 1 /\ q.nwriter = 1
    BY <2>2, <2>3, OpenedIsEmpty
  <2>5. pipes'[k] = q /\ \A n \in Pipes : n # k => pipes'[n] = pipes[n]
    BY <2>1, <2>2, <2>3
  <2>6. ~Held(k) /\ Held(k)'
    BY <2>1, <2>4, <2>5 DEF Held
  <2>7. Contents(pipes'[k]) = << >>
    BY <2>4, <2>5
  <2> QED
    BY <1>2, <2>5, <2>6, <2>7, CarriesOpen
<1> QED
  BY <1>4, <1>6, <1>7, <1>9, <1>10, PutTogether

(* kclosepipe, whatever event it wakes.                                      *)
LEMMA KclosepipeKeeps ==
  ASSUME PipeIInv, NEW i \in FDs, kclosepipe(i)
  PROVE  PipeIInv' /\ Carries
<1>1. running \in Procs /\ Shapes /\ Tables /\ HeldSound /\ KInv
  BY RunnerIsThere
<1>2. PICK o : o = fd[running][i]
  OBVIOUS
<1>3. PICK k : k = oft[o].pipe
  OBVIOUS
<1>4. PICK q : q = LeftWithout(pipes[k], oft[o].mode)
  OBVIOUS
<1>5. /\ o # NULL /\ InUmode /\ UNCHANGED <<familyVars, delivered>>
      /\ fd' = [fd EXCEPT ![running][i] = NULL]
      /\ pipes' = [pipes EXCEPT ![k] = q]
      /\ oft' = [oft EXCEPT ![o] =
                    IF UsersOf(q, oft[o].mode) = 0
                    THEN [mode |-> "read", refCount |-> 0, pipe |-> NULL]
                    ELSE [oft[o] EXCEPT !.refCount = @ - 1]]
  <2>1. o # NULL /\ InUmode /\ UNCHANGED <<familyVars, delivered>>
    BY <1>2 DEF kclosepipe
  <2>2. fd' = [fd EXCEPT ![running][i] = NULL]
    BY DEF kclosepipe
  <2>3. pipes' = [pipes EXCEPT ![k] = q]
    BY <1>2, <1>3, <1>4 DEF kclosepipe
  <2>4. oft' = [oft EXCEPT ![o] =
                    IF UsersOf(q, oft[o].mode) = 0
                    THEN [mode |-> "read", refCount |-> 0, pipe |-> NULL]
                    ELSE [oft[o] EXCEPT !.refCount = @ - 1]]
    BY <1>2, <1>3, <1>4 DEF kclosepipe
  <2> QED
    BY <2>1, <2>2, <2>3, <2>4
<1>6. Closes(i, o, k, q)
  BY <1>2, <1>3, <1>4, <1>5 DEF Closes
<1>7. /\ fd' \in [Procs -> [FDs -> OFTs \cup {NULL}]]
      /\ oft' \in [OFTs -> OFTRecords]
      /\ pipes' \in [Pipes -> Rings]
      /\ Tables' /\ HeldSound'
      /\ k \in Pipes /\ Held(k) /\ pipes'[k] = q
      /\ \A n \in Pipes : n # k => pipes'[n] = pipes[n]
      /\ \/ ~Held(k)' /\ Contents(q) = << >>
         \/ /\ Held(k)' /\ Contents(q) = Contents(pipes[k])
            /\ q.data = pipes[k].data /\ q.room = pipes[k].room
      /\ \A p \in Procs, x \in FDs : p # running => fd'[p][x] = fd[p][x]
      /\ \A p \in Procs, x \in FDs : p # running /\ fd[p][x] # NULL =>
             /\ oft'[fd[p][x]].refCount > 0
             /\ oft'[fd[p][x]].mode = oft[fd[p][x]].mode
             /\ oft'[fd[p][x]].pipe = oft[fd[p][x]].pipe
  BY <1>1, <1>6, ClosesKeeps
<1>8. PICK ev : Return(kwakeup(Lists, ev))
  <2>1. PICK ev : ev = IF oft[fd[running][i]].mode = "read"
                       THEN DataOf(IF UsersOf(LeftWithout(pipes[oft[fd[running][i]].pipe],
                                                          oft[fd[running][i]].mode),
                                              oft[fd[running][i]].mode) = 0
                                   THEN NULL ELSE oft[fd[running][i]].pipe)
                       ELSE RoomOf(IF UsersOf(LeftWithout(pipes[oft[fd[running][i]].pipe],
                                                          oft[fd[running][i]].mode),
                                              oft[fd[running][i]].mode) = 0
                                   THEN NULL ELSE oft[fd[running][i]].pipe)
    OBVIOUS
  <2> QED
    BY <2>1, Zenon DEF kclosepipe
<1>9. KInv' /\ Undisturbed
  <2>1. AtPrompt /\ UNCHANGED familyVars
    BY <1>5 DEF InUmode
  <2> QED
    BY <1>1, <1>8, <2>1, ReturnKeeps
<1>10. /\ call' \in [Procs -> CallRecords] /\ call'[running].op = "none"
       /\ \A p \in Procs : p # running => call'[p] = call[p]
  <2>1. call' = [call EXCEPT ![running] = NoCall]
    BY <1>8 DEF Return
  <2>2. NoCall \in CallRecords /\ NoCall.op = "none"
    BY DEF NoCall, CallRecords, Modes
  <2> QED
    BY <1>1, <2>1, <2>2 DEF Shapes
<1>11. Shapes'
  BY <1>1, <1>5, <1>7, <1>10 DEF Shapes
<1>12. ASSUME NEW p \in Procs
       PROVE  WaitsWell(p)' /\ PointerGood(p)' /\ MissesNothing(p)'
  <2>1. CASE p = running
    BY <1>10, <2>1, NothingToKeep
  <2>2. CASE p # running
    <3>1. call'[p] = call[p]
      BY <1>10, <2>2
    <3>2. ASSUME NEW x \in FDs, fd[p][x] # NULL
          PROVE  /\ fd'[p][x] = fd[p][x]
                 /\ oft'[fd[p][x]].refCount > 0
                 /\ oft'[fd[p][x]].mode = oft[fd[p][x]].mode
                 /\ oft'[fd[p][x]].pipe = oft[fd[p][x]].pipe
      BY <1>7, <2>2, <3>2
    <3>3. ASSUME call[p].op # "none", call[p].pipe = k
          PROVE  Held(k)'
      <4>1. PICK x \in FDs : /\ fd[p][x] # NULL
                             /\ oft[fd[p][x]].mode = call[p].op
                             /\ oft[fd[p][x]].pipe = k
        BY <3>3 DEF PipeIInv, PointerStaysGood
      <4>2. PICK u \in OFTs : u = fd[p][x]
        BY <1>1, <4>1 DEF Shapes
      <4>3. oft'[u].refCount > 0 /\ oft'[u].pipe = k
        BY <3>2, <4>1, <4>2
      <4>4. UsersOf(pipes'[k], oft'[u].mode) > 0
        BY <1>7, <4>3 DEF Tables, EndsCounted
      <4>5. pipes'[k] \in Rings
        BY <1>7
      <4>6. PICK a \in Nat, b \in Nat : a = pipes'[k].nreader /\ b = pipes'[k].nwriter
        BY <4>5 DEF Rings
      <4>7. a + b > 0
        BY <4>4, <4>6 DEF UsersOf
      <4> QED
        BY <4>6, <4>7 DEF Held
    <3>4. ASSUME NEW n \in Pipes, call[p].op # "none", call[p].pipe = n
          PROVE  pipes'[n].data = pipes[n].data /\ pipes'[n].room = pipes[n].room
      BY <1>7, <3>3, <3>4
    <3> QED
      BY <1>9, <2>2, <3>1, <3>2, <3>4, OthersKeep
  <2> QED
    BY <2>1, <2>2
<1>13. Carries
  <2>1. CASE ~Held(k)' /\ Contents(q) = << >>
    BY <1>5, <1>7, <2>1, CarriesClose
  <2>2. CASE Held(k)' /\ Contents(q) = Contents(pipes[k])
    <3>1. \A n \in Pipes : Held(n)' <=> Held(n)
      <4>1. \A n \in Pipes : n # k => (Held(n)' <=> Held(n))
        BY <1>7 DEF Held
      <4> QED
        BY <1>7, <2>2, <4>1
    <3>2. \A n \in Pipes : Contents(pipes'[n]) = Contents(pipes[n])
      BY <1>7, <2>2
    <3> QED
      BY <1>5, <3>1, <3>2, CarriesNothing
  <2> QED
    BY <1>7, <2>1, <2>2
<1> QED
  BY <1>7, <1>9, <1>11, <1>12, <1>13, PutTogether

(* fork.                                                                     *)
LEMMA ForkWithFdsKeeps ==
  ASSUME PipeIInv, InUmode, forkWithFds
  PROVE  PipeIInv' /\ Carries
<1>1. /\ running \in Procs /\ Shapes /\ Tables /\ HeldSound /\ KInv
      /\ call[running].op = "none"
  BY RunnerIsThere DEF InUmode, NoCall
<1>2. PICK c : c = Head(freeList)
  OBVIOUS
<1>3. /\ \A o \in OFTs : oft[o].refCount + Copies(o) <= MaxCount
      /\ kfork /\ pc' = pc /\ call' = call /\ delivered' = delivered
      /\ fd' = [fd EXCEPT ![c] =
                   [i \in FDs |-> IF fd[running][i] # NULL THEN fd[running][i] ELSE @[i]]]
      /\ oft' = [o \in OFTs |-> [oft[o] EXCEPT !.refCount = @ + Copies(o)]]
      /\ Shared
  BY <1>2 DEF forkWithFds
<1>4. /\ Undisturbed /\ c \in Procs /\ status[c] = "FREE" /\ status[running] = "RUNNING"
  BY <1>1, <1>2, <1>3, KforkUndisturbed
<1>5. c # running
  BY <1>4
<1>6. /\ fd' \in [Procs -> [FDs -> OFTs \cup {NULL}]]
      /\ oft' \in [OFTs -> OFTRecords]
      /\ pipes' \in [Pipes -> Rings]
      /\ Tables' /\ HeldSound'
      /\ \A p \in Procs, x \in FDs : p # c => fd'[p][x] = fd[p][x]
      /\ \A o \in OFTs : /\ oft'[o].mode = oft[o].mode
                         /\ oft'[o].pipe = oft[o].pipe
                         /\ oft[o].refCount > 0 <=> oft'[o].refCount > 0
      /\ \A k \in Pipes : /\ pipes'[k].data = pipes[k].data
                          /\ pipes'[k].room = pipes[k].room
                          /\ Contents(pipes'[k]) = Contents(pipes[k])
                          /\ Held(k)' <=> Held(k)
  BY <1>1, <1>3, <1>4, <1>5, SharesKeeps
<1>7. KInv'
  <2>1. DoKfork
    BY <1>3 DEF DoKfork, InUmode
  <2> QED
    BY <1>1, <2>1, NextKeeps DEF Next, body
<1>8. Shapes'
  BY <1>1, <1>3, <1>6 DEF Shapes
<1>9. ASSUME NEW p \in Procs
      PROVE  WaitsWell(p)' /\ PointerGood(p)' /\ MissesNothing(p)'
  <2>1. CASE p = running
    BY <1>1, <1>3, <2>1, NothingToKeep
  <2>2. CASE p = c
    <3>1. call[p].op = "none"
      BY <1>4, <2>2 DEF PipeIInv, CallersWait, WaitsWell, Awaiting
    <3> QED
      BY <1>3, <3>1, NothingToKeep
  <2>3. CASE p # running /\ p # c
    <3>1. ASSUME NEW x \in FDs, fd[p][x] # NULL, oft[fd[p][x]].refCount > 0
          PROVE  /\ fd'[p][x] = fd[p][x]
                 /\ oft'[fd[p][x]].refCount > 0
                 /\ oft'[fd[p][x]].mode = oft[fd[p][x]].mode
                 /\ oft'[fd[p][x]].pipe = oft[fd[p][x]].pipe
      <4>1. fd[p][x] \in OFTs
        BY <1>1, <3>1 DEF Shapes
      <4> QED
        BY <1>6, <2>3, <3>1, <4>1
    <3>2. call'[p] = call[p]
      BY <1>3
    <3>3. \A k \in Pipes : pipes'[k].data = pipes[k].data /\ pipes'[k].room = pipes[k].room
      BY <1>6
    <3> QED
      BY <1>4, <2>3, <3>1, <3>2, <3>3, OthersKeep
  <2> QED
    BY <2>1, <2>2, <2>3
<1>10. Carries
  <2>1. /\ \A k \in Pipes : Held(k)' <=> Held(k)
        /\ \A k \in Pipes : Contents(pipes'[k]) = Contents(pipes[k])
    BY <1>6
  <2> QED
    BY <1>3, <2>1, CarriesNothing
<1> QED
  BY <1>6, <1>7, <1>8, <1>9, <1>10, PutTogether

(* Nobody who is still asleep waits for an event that was just woken.        *)
LEMMA OnlyOthersSleep ==
  ASSUME PipeIInv, Undisturbed, NEW k \in Pipes, NEW p \in Procs, p # running,
         call[p].op # "none", call[p].pipe = k, status'[p] = "SLEEP"
  PROVE  /\ call[p].op = "read" => pipes[k].data = 0 /\ event[p] = DataOf(k)
         /\ call[p].op = "write" => pipes[k].room = 0 /\ event[p] = RoomOf(k)
         /\ call[p].op \in {"read", "write"}
<1>1. WaitsWell(p) /\ MissesNothing(p) /\ Shapes /\ Tables /\ PointerStaysGood
  BY DEF PipeIInv, CallersWait, NobodyMisses
<1>2. status[p] = "SLEEP"
  BY <1>1 DEF WaitsWell, Undisturbed
<1>3. event[p] = EventOf(call[p]) /\ call[p].op \in {"read", "write"}
  BY <1>1, <1>2, CallerHolds DEF WaitsWell
<1> QED
  BY <1>1, <1>2, <1>3 DEF MissesNothing, EventOf

(* A turn of a transfer that makes q of the pipe k: if that is news to those *)
(* who sleep in a call on k, they are woken.                                 *)
Transfers(k, q) ==
    /\ Undisturbed
    /\ UNCHANGED <<fd, oft>>
    /\ pipes' = [pipes EXCEPT ![k] = q]
    /\ \A p \in Procs : p # running => call'[p] = call[p]
    /\ \A p \in Procs : p # running /\ call[p].op # "none"
                        /\ call[p].pipe = k /\ status'[p] = "SLEEP" =>
           q.data = pipes[k].data /\ q.room = pipes[k].room

(* Nobody else is left asleep by it over what he waits for.                 *)
LEMMA TransferOthers ==
  ASSUME PipeIInv, NEW k \in Pipes, NEW q, Transfers(k, q),
         NEW p \in Procs, p # running
  PROVE  WaitsWell(p)' /\ PointerGood(p)' /\ MissesNothing(p)'
<1>1. pipes \in [Pipes -> Rings]
  BY DEF PipeIInv, Shapes
<1> USE DEF Transfers
<1>2. ASSUME NEW n \in Pipes, call[p].op # "none", status'[p] = "SLEEP", call[p].pipe = n
      PROVE  pipes'[n].data = pipes[n].data /\ pipes'[n].room = pipes[n].room
  BY <1>1, <1>2
<1>3. call'[p] = call[p]
  OBVIOUS
<1>4. \A x \in FDs : fd[p][x] # NULL /\ oft[fd[p][x]].refCount > 0 =>
          /\ fd'[p][x] = fd[p][x]
          /\ oft'[fd[p][x]].refCount > 0
          /\ oft'[fd[p][x]].mode = oft[fd[p][x]].mode
          /\ oft'[fd[p][x]].pipe = oft[fd[p][x]].pipe
  OBVIOUS
<1> QED
  BY <1>2, <1>3, <1>4, OthersKeep

(* The call of the running process changes, that of nobody else.             *)
LEMMA CallOf ==
  ASSUME Shapes, running \in Procs, NEW c \in CallRecords,
         call' = [call EXCEPT ![running] = c]
  PROVE  /\ call' \in [Procs -> CallRecords] /\ call'[running] = c
         /\ \A p \in Procs : p # running => call'[p] = call[p]
BY DEF Shapes

(* Out of every call.                                                       *)
LEMMA NoCallIsACall == NoCall \in CallRecords /\ NoCall.op = "none"
BY DEF NoCall, CallRecords, Modes

(* The running process goes to sleep in a call on a pipe that it holds.      *)
LEMMA CallerGood ==
  ASSUME NEW p \in Procs, NEW c, c.op \in {"read", "write"},
         call'[p] = c, UNCHANGED <<fd, oft>>,
         NEW i \in FDs, fd[p][i] # NULL, oft[fd[p][i]].refCount > 0,
         oft[fd[p][i]].mode = c.op, oft[fd[p][i]].pipe = c.pipe,
         pc'[p] = "body", status'[p] = "SLEEP", event'[p] = EventOf(c),
         c.op = "read" => c.n >= 1 /\ pipes'[c.pipe].data = 0,
         c.op = "write" => pipes'[c.pipe].room = 0
  PROVE  WaitsWell(p)' /\ PointerGood(p)' /\ MissesNothing(p)'
<1>1. WaitsWell(p)'
  BY DEF WaitsWell, Awaiting, EventOf
<1>2. PointerGood(p)'
  BY DEF PointerGood
<1>3. MissesNothing(p)'
  BY DEF MissesNothing
<1> QED
  BY <1>1, <1>2, <1>3

(* kreadpipe takes bytes and tells the writers.                              *)
LEMMA ReadGets ==
  ASSUME PipeIInv, AtPrompt, NEW k \in Pipes, Held(k), NEW n \in Nat, n >= 1,
         pipes[k].data > 0,
         NEW m, m = Less(n, pipes[k].data),
         pipes' = [pipes EXCEPT ![k] = Drained(pipes[k], m)],
         delivered' = Oldest(pipes[k], m),
         Return(AfterRead(k)), UNCHANGED <<familyVars, fd, oft>>
  PROVE  PipeIInv' /\ Carries
<1>1. running \in Procs /\ Shapes /\ Tables /\ HeldSound /\ KInv
  BY RunnerIsThere
<1>2. PICK p : p = pipes[k]
  OBVIOUS
<1>3. /\ p \in Rings /\ RingIsSound(p) /\ Contents(p) \in Seq(Bytes)
      /\ p.data \in 0 .. PSIZE
  BY <1>1, <1>2 DEF Shapes, HeldSound, Rings
<1>4. m \in 0 .. p.data /\ m \in 1 .. p.data /\ m \in Nat /\ m <= PSIZE
  BY <1>2, <1>3 DEF Less
<1>5. PICK q : q = Drained(p, m)
  OBVIOUS
<1>6. PICK c : c = Contents(p)
  OBVIOUS
<1>7. /\ q \in Rings /\ RingIsSound(q)
      /\ Oldest(p, m) = SubSeq(c, 1, m)
      /\ Contents(q) = SubSeq(c, m + 1, p.data)
      /\ q.nreader = p.nreader /\ q.nwriter = p.nwriter
  BY <1>3, <1>4, <1>5, <1>6, DrainedFromTheFront
<1>8. Len(c) = p.data /\ c \in Seq(Bytes)
  BY <1>3, <1>6, ContentsBytes
<1>9. Contents(q) \in Seq(Bytes)
  <2>1. SubSeq(c, m + 1, p.data) \in Seq(Bytes)
    BY <1>3, <1>4, <1>8
  <2> QED
    BY <1>7, <2>1
<1>10. SubSeq(c, 1, m) \in [1 .. m -> Bytes]
  <2>1. SubSeq(c, 1, m) \in Seq(Bytes) /\ Len(SubSeq(c, 1, m)) = m
    BY <1>3, <1>4, <1>8
  <2>2. PICK d \in Seq(Bytes) : d = SubSeq(c, 1, m)
    BY <2>1
  <2>3. d \in [1 .. Len(d) -> Bytes]
    OBVIOUS
  <2> QED
    BY <2>1, <2>2, <2>3
<1>11. pipes' = [pipes EXCEPT ![k] = q]
  BY <1>2, <1>5
<1>12. /\ pipes' \in [Pipes -> Rings] /\ pipes'[k] = q
       /\ \A x \in Pipes : x # k => pipes'[x] = pipes[x]
       /\ \A x \in Pipes : Held(x)' <=> Held(x)
       /\ Tables' /\ HeldSound'
  BY <1>1, <1>2, <1>7, <1>9, <1>11, TransferKeeps
<1>13. Return(kwakeup(Lists, RoomOf(k)))
  BY DEF AfterRead
<1>14. /\ KInv' /\ Undisturbed
       /\ \A x \in Procs : status'[x] = "SLEEP" => event[x] # RoomOf(k)
  BY <1>1, <1>13, ReturnKeeps
<1>15. /\ call' \in [Procs -> CallRecords] /\ call'[running] = NoCall
       /\ \A x \in Procs : x # running => call'[x] = call[x]
  BY <1>1, CallOf, NoCallIsACall DEF Return
<1>16. delivered' \in BoundedSeq(Bytes, PSIZE)
  <2>1. m \in 0 .. PSIZE
    BY <1>4
  <2> QED
    BY <1>2, <1>7, <1>10, <2>1 DEF BoundedSeq, SeqOf
<1>17. Shapes'
  BY <1>1, <1>12, <1>15, <1>16 DEF Shapes
<1>18. ASSUME NEW x \in Procs
       PROVE  WaitsWell(x)' /\ PointerGood(x)' /\ MissesNothing(x)'
  <2>1. CASE x = running
    BY <1>15, <2>1, NothingToKeep, NoCallIsACall
  <2>2. CASE x # running
    <3>1. ASSUME NEW y \in Procs, y # running, call[y].op # "none",
                 call[y].pipe = k, status'[y] = "SLEEP"
          PROVE  FALSE
      BY <1>14, <3>1, OnlyOthersSleep
    <3>2. \A y \in Procs : y # running /\ call[y].op # "none"
                            /\ call[y].pipe = k /\ status'[y] = "SLEEP" =>
              q.data = pipes[k].data /\ q.room = pipes[k].room
      BY <3>1
    <3>3. UNCHANGED <<fd, oft>>
      OBVIOUS
    <3>4. Transfers(k, q)
      BY <1>11, <1>14, <1>15, <3>2, <3>3 DEF Transfers
    <3> QED
      BY <2>2, <3>4, TransferOthers
  <2> QED
    BY <2>1, <2>2
<1>19. Carries
  <2>1. Held(k)'
    BY <1>12
  <2>2. /\ m \in 1 .. Len(Contents(pipes[k]))
        /\ Contents(pipes'[k])
              = SubSeq(Contents(pipes[k]), m + 1, Len(Contents(pipes[k])))
        /\ delivered' = SubSeq(Contents(pipes[k]), 1, m)
    BY <1>2, <1>4, <1>6, <1>7, <1>8, <1>12
  <2> QED
    BY <1>4, <1>12, <2>1, <2>2, CarriesReceive
<1> QED
  BY <1>12, <1>14, <1>17, <1>18, <1>19, PutTogether

(* kreadpipe finds nothing: it tells the writers and sleeps, or returns when *)
(* there is no writer.                                                       *)
LEMMA ReadGetsNothing ==
  ASSUME PipeIInv, AtPrompt, NEW k \in Pipes, NEW n \in Nat, n >= 1,
         NEW i \in FDs, fd[running][i] # NULL,
         oft[fd[running][i]].mode = "read", oft[fd[running][i]].pipe = k,
         pipes[k].data = 0,
         \/ SleepOn(AfterRead(k), DataOf(k), Reading(k, n))
         \/ Return(Lists),
         UNCHANGED <<familyVars, fd, oft, pipes, delivered>>
  PROVE  PipeIInv' /\ Carries
<1>1. running \in Procs /\ Shapes /\ Tables /\ HeldSound /\ KInv
  BY RunnerIsThere
<1>2. pipes' = [pipes EXCEPT ![k] = pipes[k]] /\ UNCHANGED <<fd, oft>>
  BY <1>1 DEF Shapes
<1>3. HeldSound' /\ Tables'
  BY <1>1 DEF HeldSound, Held, Tables, UsersCounted, DescriptorsTo,
              EndsCounted, EndsAreThere, EndsAreOne
<1>4. Carries
  <2>1. \A x \in Pipes : Held(x)' <=> Held(x)
    BY DEF Held
  <2> QED
    BY <2>1, CarriesNothing
<1>5. CASE SleepOn(AfterRead(k), DataOf(k), Reading(k, n))
  <2>1. PICK c : c = Reading(k, n)
    OBVIOUS
  <2>2. c \in CallRecords /\ c.op = "read" /\ c.pipe = k /\ c.n = n
    BY <2>1 DEF Reading, CallRecords, Modes
  <2>3. DataOf(k) \in Int
    BY DEF DataOf, Pipes
  <2>4. SleepOn(kwakeup(Lists, RoomOf(k)), DataOf(k), c)
    BY <1>5, <2>1 DEF AfterRead
  <2>5. /\ KInv' /\ Undisturbed
        /\ status'[running] = "SLEEP" /\ event'[running] = DataOf(k) /\ pc' = pc
    BY <1>1, <2>3, <2>4, SleepOnKeeps
  <2>6. /\ call' \in [Procs -> CallRecords] /\ call'[running] = c
        /\ \A x \in Procs : x # running => call'[x] = call[x]
    BY <1>1, <2>2, <2>4, CallOf DEF SleepOn
  <2>7. Shapes'
    BY <1>1, <2>6 DEF Shapes
  <2>8. ASSUME NEW x \in Procs
        PROVE  WaitsWell(x)' /\ PointerGood(x)' /\ MissesNothing(x)'
    <3>1. CASE x # running
      <4>1. Transfers(k, pipes[k])
        BY <1>2, <2>5, <2>6 DEF Transfers
      <4> QED
        BY <3>1, <4>1, TransferOthers
    <3>2. CASE x = running
      <4>1. oft[fd[running][i]].refCount > 0
        <5>1. fd[running][i] \in OFTs /\ oft[fd[running][i]].refCount >= 1
          BY <1>1, NamedIsCounted DEF Tables
        <5> QED
          BY <1>1, <5>1 DEF Shapes, OFTRecords
      <4>2. pc'[x] = "body" /\ status'[x] = "SLEEP" /\ event'[x] = EventOf(c)
        BY <2>2, <2>5, <3>2 DEF AtPrompt, EventOf
      <4>3. call'[x] = c /\ UNCHANGED <<fd, oft>> /\ c.op \in {"read", "write"}
        BY <2>2, <2>6, <3>2
      <4>4. c.op = "read" => c.n >= 1 /\ pipes'[c.pipe].data = 0
        BY <2>2
      <4>5. c.op = "write" => pipes'[c.pipe].room = 0
        BY <2>2
      <4> QED
        BY <2>2, <3>2, <4>1, <4>2, <4>3, <4>4, <4>5, CallerGood
    <3> QED
      BY <3>1, <3>2
  <2> QED
    BY <1>3, <1>4, <2>5, <2>7, <2>8, PutTogether
<1>6. CASE Return(Lists)
  <2>1. UNCHANGED vars
    BY <1>6 DEF Return, Lists, familyVars, vars
  <2>2. KInv'
    BY <1>1, <2>1, NextKeeps
  <2>3. Undisturbed
    BY <2>1 DEF vars, Undisturbed
  <2>4. /\ call' \in [Procs -> CallRecords] /\ call'[running] = NoCall
        /\ \A x \in Procs : x # running => call'[x] = call[x]
    BY <1>1, <1>6, CallOf, NoCallIsACall DEF Return
  <2>5. Shapes'
    BY <1>1, <2>4 DEF Shapes
  <2>6. ASSUME NEW x \in Procs
        PROVE  WaitsWell(x)' /\ PointerGood(x)' /\ MissesNothing(x)'
    <3>1. CASE x # running
      <4>1. Transfers(k, pipes[k])
        BY <1>2, <2>3, <2>4 DEF Transfers
      <4> QED
        BY <3>1, <4>1, TransferOthers
    <3>2. CASE x = running
      BY <2>4, <3>2, NothingToKeep, NoCallIsACall
    <3> QED
      BY <3>1, <3>2
  <2> QED
    BY <1>3, <1>4, <2>2, <2>5, <2>6, PutTogether
<1> QED
  BY <1>5, <1>6

(* One turn of kreadpipe's loop.                                             *)
LEMMA ReadTurnKeeps ==
  ASSUME PipeIInv, AtPrompt, NEW k \in Pipes, Held(k), NEW n \in Nat, n >= 1,
         NEW i \in FDs, fd[running][i] # NULL,
         oft[fd[running][i]].mode = "read", oft[fd[running][i]].pipe = k,
         ReadTurn(k, n)
  PROVE  PipeIInv' /\ Carries
<1>1. CASE pipes[k].data > 0
  <2>1. PICK m : m = Less(n, pipes[k].data)
    OBVIOUS
  <2>2. /\ pipes' = [pipes EXCEPT ![k] = Drained(pipes[k], m)]
        /\ delivered' = Oldest(pipes[k], m)
        /\ Return(AfterRead(k)) /\ UNCHANGED <<familyVars, fd, oft>>
    BY <1>1, <2>1 DEF ReadTurn
  <2> QED
    BY <1>1, <2>1, <2>2, ReadGets
<1>2. CASE ~(pipes[k].data > 0)
  <2>1. /\ pipes[k].data = 0
        /\ \/ SleepOn(AfterRead(k), DataOf(k), Reading(k, n))
           \/ Return(Lists)
        /\ UNCHANGED <<familyVars, fd, oft, pipes, delivered>>
    BY <1>2 DEF ReadTurn
  <2> QED
    BY <2>1, ReadGetsNothing
<1> QED
  BY <1>1, <1>2

(* kwritepipe puts in what fits and tells the readers; with bytes left it    *)
(* sleeps.                                                                   *)
LEMMA WritePuts ==
  ASSUME PipeIInv, AtPrompt, NEW k \in Pipes, Held(k), NEW s \in Seq(Bytes),
         NEW i \in FDs, fd[running][i] # NULL,
         oft[fd[running][i]].mode = "write", oft[fd[running][i]].pipe = k,
         NEW m, m = Less(Len(s), pipes[k].room),
         pipes' = [pipes EXCEPT ![k] = Filled(pipes[k], SubSeq(s, 1, m))],
         IF m = Len(s) THEN Return(AfterWrite(k))
         ELSE SleepOn(AfterWrite(k), RoomOf(k), Writing(k, SubSeq(s, m + 1, Len(s)))),
         UNCHANGED <<familyVars, fd, oft, delivered>>
  PROVE  PipeIInv' /\ Carries
<1>1. running \in Procs /\ Shapes /\ Tables /\ HeldSound /\ KInv
  BY RunnerIsThere
<1>2. PICK p : p = pipes[k]
  OBVIOUS
<1>3. /\ p \in Rings /\ RingIsSound(p) /\ Contents(p) \in Seq(Bytes)
      /\ p.data \in 0 .. PSIZE /\ p.room = PSIZE - p.data
  BY <1>1, <1>2 DEF Shapes, HeldSound, Rings, RingIsSound
<1>4. /\ m \in 0 .. Len(s) /\ m \in 0 .. p.room /\ m \in 0 .. PSIZE
      /\ m # Len(s) => m = p.room
  BY <1>2, <1>3 DEF Less
<1>5. PICK t : t = SubSeq(s, 1, m)
  OBVIOUS
<1>6. t \in Seq(Bytes) /\ Len(t) = m
  BY <1>4, <1>5
<1>7. PICK q : q = Filled(p, t)
  OBVIOUS
<1>8. PICK c : c = Contents(p)
  OBVIOUS
<1>9. /\ q \in Rings /\ RingIsSound(q)
      /\ Contents(q) = c \o t
      /\ q.room = p.room - m
      /\ q.nreader = p.nreader /\ q.nwriter = p.nwriter
  <2>1. Len(t) <= p.room
    BY <1>4, <1>6
  <2>2. /\ q \in Rings /\ RingIsSound(q)
        /\ Contents(q) = Contents(p) \o t
        /\ q.room = p.room - Len(t)
        /\ q.nreader = p.nreader /\ q.nwriter = p.nwriter
    BY <1>3, <1>6, <1>7, <2>1, FilledAtTheEnd
  <2> QED
    BY <1>6, <1>8, <2>2
<1>10. Len(c) = p.data /\ c \in Seq(Bytes)
  BY <1>3, <1>8, ContentsBytes
<1>11. Contents(q) \in Seq(Bytes)
  BY <1>6, <1>9, <1>10
<1>12. pipes' = [pipes EXCEPT ![k] = q]
  BY <1>2, <1>5, <1>7
<1>13. /\ pipes' \in [Pipes -> Rings] /\ pipes'[k] = q
       /\ \A x \in Pipes : x # k => pipes'[x] = pipes[x]
       /\ \A x \in Pipes : Held(x)' <=> Held(x)
       /\ Tables' /\ HeldSound'
  BY <1>1, <1>2, <1>9, <1>11, <1>12, TransferKeeps
<1>14. Carries
  <2>1. Held(k)' /\ delivered' = delivered
    BY <1>13
  <2>2. /\ Len(t) \in 0 .. PSIZE
        /\ Len(Contents(pipes[k])) + Len(t) <= PSIZE
        /\ Contents(pipes'[k]) = Contents(pipes[k]) \o t
    <3>1. Len(t) = m /\ Len(c) = p.data /\ p.data + m <= PSIZE
      BY <1>3, <1>4, <1>6, <1>10
    <3>2. c = Contents(pipes[k]) /\ Contents(pipes'[k]) = c \o t
      BY <1>2, <1>8, <1>9, <1>13
    <3> QED
      BY <1>4, <3>1, <3>2
  <2>3. \A x \in Pipes : x # k => pipes'[x] = pipes[x]
    BY <1>13
  <2>4. Sends(k, t)
    BY <2>1, <2>2, <2>3 DEF Sends
  <2> QED
    BY <1>6, <2>4, CarriesSend
<1>15. UNCHANGED <<fd, oft>>
  OBVIOUS
<1>16. ASSUME NEW y \in Procs, y # running, call[y].op # "none", call[y].pipe = k,
              status'[y] = "SLEEP", Undisturbed, event[y] # DataOf(k)
       PROVE  q.data = pipes[k].data /\ q.room = pipes[k].room
  <2>1. p.room = 0
    BY <1>2, <1>16, OnlyOthersSleep
  <2>2. m = 0
    BY <1>4, <2>1
  <2>3. q.room = p.room
    BY <1>9, <2>1, <2>2
  <2>4. q.data = p.data
    <3>1. q.room = PSIZE - q.data /\ q.data \in 0 .. PSIZE
      BY <1>9 DEF RingIsSound
    <3> QED
      BY <1>3, <2>3, <3>1
  <2> QED
    BY <1>2, <2>3, <2>4
<1>17. CASE m = Len(s)
  <2>1. Return(kwakeup(Lists, DataOf(k)))
    BY <1>17 DEF AfterWrite
  <2>2. /\ KInv' /\ Undisturbed
        /\ \A x \in Procs : status'[x] = "SLEEP" => event[x] # DataOf(k)
    BY <1>1, <2>1, ReturnKeeps
  <2>3. /\ call' \in [Procs -> CallRecords] /\ call'[running] = NoCall
        /\ \A x \in Procs : x # running => call'[x] = call[x]
    BY <1>1, <2>1, CallOf, NoCallIsACall DEF Return
  <2>4. Shapes'
    BY <1>1, <1>13, <2>3 DEF Shapes
  <2>5. \A y \in Procs : y # running /\ call[y].op # "none"
                         /\ call[y].pipe = k /\ status'[y] = "SLEEP" =>
            q.data = pipes[k].data /\ q.room = pipes[k].room
    BY <1>16, <2>2
  <2>6. ASSUME NEW x \in Procs
        PROVE  WaitsWell(x)' /\ PointerGood(x)' /\ MissesNothing(x)'
    <3>1. CASE x = running
      BY <2>3, <3>1, NothingToKeep, NoCallIsACall
    <3>2. CASE x # running
      <4>1. \A y \in Procs : y # running => call'[y] = call[y]
        BY <2>3
      <4>2. Undisturbed
        BY <2>2
      <4>3. Transfers(k, q)
        BY <1>12, <1>15, <2>5, <4>1, <4>2 DEF Transfers
      <4> QED
        BY <3>2, <4>3, TransferOthers
    <3> QED
      BY <3>1, <3>2
  <2> QED
    BY <1>13, <1>14, <2>2, <2>4, <2>6, PutTogether
<1>18. CASE m # Len(s)
  <2>1. PICK d : d = Writing(k, SubSeq(s, m + 1, Len(s)))
    OBVIOUS
  <2>2. d \in CallRecords /\ d.op = "write" /\ d.pipe = k
    <3>1. SubSeq(s, m + 1, Len(s)) \in Seq(Bytes)
      BY <1>4
    <3> QED
      BY <2>1, <3>1 DEF Writing, CallRecords, Modes
  <2>3. RoomOf(k) \in Int
    BY DEF RoomOf, Pipes
  <2>4. SleepOn(kwakeup(Lists, DataOf(k)), RoomOf(k), d)
    BY <1>18, <2>1 DEF AfterWrite
  <2>5. /\ KInv' /\ Undisturbed
        /\ \A x \in Procs : x # running /\ status'[x] = "SLEEP" => event[x] # DataOf(k)
        /\ status'[running] = "SLEEP" /\ event'[running] = RoomOf(k) /\ pc' = pc
    BY <1>1, <2>3, <2>4, SleepOnKeeps
  <2>6. /\ call' \in [Procs -> CallRecords] /\ call'[running] = d
        /\ \A x \in Procs : x # running => call'[x] = call[x]
    BY <1>1, <2>2, <2>4, CallOf DEF SleepOn
  <2>7. Shapes'
    BY <1>1, <1>13, <2>6 DEF Shapes
  <2>8. \A y \in Procs : y # running /\ call[y].op # "none"
                         /\ call[y].pipe = k /\ status'[y] = "SLEEP" =>
            q.data = pipes[k].data /\ q.room = pipes[k].room
    BY <1>16, <2>5
  <2>9. q.room = 0
    BY <1>3, <1>4, <1>9, <1>18
  <2>10. ASSUME NEW x \in Procs
         PROVE  WaitsWell(x)' /\ PointerGood(x)' /\ MissesNothing(x)'
    <3>1. CASE x # running
      <4>1. \A y \in Procs : y # running => call'[y] = call[y]
        BY <2>6
      <4>2. Undisturbed
        BY <2>5
      <4>3. Transfers(k, q)
        BY <1>12, <1>15, <2>8, <4>1, <4>2 DEF Transfers
      <4> QED
        BY <3>1, <4>3, TransferOthers
    <3>2. CASE x = running
      <4>1. oft[fd[running][i]].refCount > 0
        <5>1. fd[running][i] \in OFTs /\ oft[fd[running][i]].refCount >= 1
          BY <1>1, NamedIsCounted DEF Tables
        <5> QED
          BY <1>1, <5>1 DEF Shapes, OFTRecords
      <4>2. pc'[x] = "body" /\ status'[x] = "SLEEP" /\ event'[x] = EventOf(d)
        BY <2>2, <2>5, <3>2 DEF AtPrompt, EventOf
      <4>3. call'[x] = d /\ d.op \in {"read", "write"}
        BY <2>2, <2>6, <3>2
      <4>4. d.op = "read" => d.n >= 1 /\ pipes'[d.pipe].data = 0
        BY <2>2
      <4>5. d.op = "write" => pipes'[d.pipe].room = 0
        BY <1>13, <2>2, <2>9
      <4> QED
        BY <1>15, <2>2, <3>2, <4>1, <4>2, <4>3, <4>4, <4>5, CallerGood
    <3> QED
      BY <3>1, <3>2
  <2> QED
    BY <1>13, <1>14, <2>5, <2>7, <2>10, PutTogether
<1> QED
  BY <1>17, <1>18

(* kwritepipe finds no reader: the writer dies.                              *)
LEMMA WriterDies ==
  ASSUME PipeIInv, AtPrompt, kexit(13),
         call' = [call EXCEPT ![running] = NoCall],
         UNCHANGED <<fd, oft, pipes, delivered>>
  PROVE  PipeIInv' /\ Carries
<1>1. running \in Procs /\ Shapes /\ Tables /\ HeldSound /\ KInv /\ running # 0
  BY RunnerIsThere DEF AtPrompt
<1>2. HeldSound' /\ Tables'
  BY <1>1 DEF HeldSound, Held, Tables, UsersCounted, DescriptorsTo,
              EndsCounted, EndsAreThere, EndsAreOne
<1>3. PICK v \in Int : v = 13
  OBVIOUS
<1>4. KInv' /\ Undisturbed
  BY <1>1, <1>3, KexitKeeps, KexitUndisturbed
<1>5. /\ call' \in [Procs -> CallRecords] /\ call'[running] = NoCall
      /\ \A x \in Procs : x # running => call'[x] = call[x]
  BY <1>1, CallOf, NoCallIsACall
<1>6. Shapes'
  BY <1>1, <1>5 DEF Shapes
<1>7. ASSUME NEW x \in Procs
      PROVE  WaitsWell(x)' /\ PointerGood(x)' /\ MissesNothing(x)'
  <2>1. CASE x # running
    BY <1>4, <1>5, <2>1, OthersKeep
  <2>2. CASE x = running
    BY <1>5, <2>2, NothingToKeep, NoCallIsACall
  <2> QED
    BY <2>1, <2>2
<1>8. Carries
  <2>1. \A x \in Pipes : Held(x)' <=> Held(x)
    BY DEF Held
  <2> QED
    BY <2>1, CarriesNothing
<1> QED
  BY <1>2, <1>4, <1>6, <1>7, <1>8, PutTogether

(* One turn of kwritepipe's loop.                                            *)
LEMMA WriteTurnKeeps ==
  ASSUME PipeIInv, AtPrompt, NEW k \in Pipes, Held(k), NEW s \in Seq(Bytes),
         NEW i \in FDs, fd[running][i] # NULL,
         oft[fd[running][i]].mode = "write", oft[fd[running][i]].pipe = k,
         WriteTurn(k, s)
  PROVE  PipeIInv' /\ Carries
<1>1. CASE pipes[k].nreader = 0
  <2>1. /\ kexit(13) /\ call' = [call EXCEPT ![running] = NoCall]
        /\ UNCHANGED <<fd, oft, pipes, delivered>>
    BY <1>1 DEF WriteTurn
  <2> QED
    BY <2>1, WriterDies
<1>2. CASE pipes[k].nreader # 0
  <2>1. PICK m : m = Less(Len(s), pipes[k].room)
    OBVIOUS
  <2>2. /\ pipes' = [pipes EXCEPT ![k] = Filled(pipes[k], SubSeq(s, 1, m))]
        /\ IF m = Len(s) THEN Return(AfterWrite(k))
           ELSE SleepOn(AfterWrite(k), RoomOf(k), Writing(k, SubSeq(s, m + 1, Len(s))))
        /\ UNCHANGED <<familyVars, fd, oft, delivered>>
    BY <1>2, <2>1 DEF WriteTurn
  <2> QED
    BY <2>1, <2>2, WritePuts
<1> QED
  BY <1>1, <1>2

(* A call on a descriptor of the end op of a pipe is one on a pipe that is   *)
(* held.                                                                     *)
LEMMA DescriptorHolds ==
  ASSUME PipeIInv, NEW i \in FDs, fd[running][i] # NULL
  PROVE  oft[fd[running][i]].pipe \in Pipes /\ Held(oft[fd[running][i]].pipe)
<1>1. running \in Procs /\ Shapes /\ Tables
  BY RunnerIsThere
<1>2. PICK o \in OFTs : o = fd[running][i]
  BY <1>1 DEF Shapes
<1>3. oft[o].refCount >= 1 /\ oft[o].refCount \in Nat
  BY <1>1, <1>2, NamedIsCounted DEF Tables, Shapes, OFTRecords
<1>4. oft[o].refCount > 0
  BY <1>3
<1> QED
  BY <1>1, <1>2, <1>4, NamedIsHeld

(* kreadpipe and kwritepipe, from user mode and when they are woken.         *)
LEMMA TransfersKeep ==
  ASSUME PipeIInv,
         \/ \E i \in FDs, n \in 1 .. MaxBytes : kreadpipe(i, n)
         \/ \E i \in FDs, s \in BoundedSeq(Bytes, MaxBytes) \ {<< >>} : kwritepipe(i, s)
         \/ ReadAgain
         \/ WriteAgain
  PROVE  PipeIInv' /\ Carries
<1>1. running \in Procs /\ Shapes /\ Tables /\ PointerStaysGood
  BY RunnerIsThere DEF PipeIInv
<1>2. CASE \E i \in FDs, n \in 1 .. MaxBytes : kreadpipe(i, n)
  <2>1. PICK i \in FDs, n \in 1 .. MaxBytes : kreadpipe(i, n)
    BY <1>2
  <2>2. PICK k : k = oft[fd[running][i]].pipe
    OBVIOUS
  <2>3. /\ AtPrompt /\ fd[running][i] # NULL
        /\ oft[fd[running][i]].mode = "read" /\ ReadTurn(k, n)
    BY <2>1, <2>2 DEF kreadpipe, InUmode
  <2>4. k \in Pipes /\ Held(k)
    BY <2>2, <2>3, DescriptorHolds
  <2>5. n \in Nat /\ n >= 1
    OBVIOUS
  <2> QED
    BY <2>2, <2>3, <2>4, <2>5, ReadTurnKeeps
<1>3. CASE \E i \in FDs, s \in BoundedSeq(Bytes, MaxBytes) \ {<< >>} : kwritepipe(i, s)
  <2>1. PICK i \in FDs, s \in BoundedSeq(Bytes, MaxBytes) \ {<< >>} : kwritepipe(i, s)
    BY <1>3
  <2>2. PICK k : k = oft[fd[running][i]].pipe
    OBVIOUS
  <2>3. /\ AtPrompt /\ fd[running][i] # NULL
        /\ oft[fd[running][i]].mode = "write" /\ WriteTurn(k, s)
    BY <2>1, <2>2 DEF kwritepipe, InUmode
  <2>4. k \in Pipes /\ Held(k)
    BY <2>2, <2>3, DescriptorHolds
  <2>5. s \in Seq(Bytes)
    <3>1. PICK m \in 0 .. MaxBytes : s \in [1 .. m -> Bytes]
      BY DEF BoundedSeq, SeqOf
    <3> QED
      BY <3>1
  <2> QED
    BY <2>2, <2>3, <2>4, <2>5, WriteTurnKeeps
<1>4. CASE ReadAgain
  <2>1. PICK k, n : k = call[running].pipe /\ n = call[running].n
    OBVIOUS
  <2>2. AtPrompt /\ call[running].op = "read" /\ ReadTurn(k, n)
    BY <1>4, <2>1 DEF ReadAgain
  <2>3. PICK i \in FDs : /\ fd[running][i] # NULL
                         /\ oft[fd[running][i]].mode = "read"
                         /\ oft[fd[running][i]].pipe = k
    BY <1>1, <2>1, <2>2 DEF PointerStaysGood
  <2>4. k \in Pipes /\ Held(k)
    BY <2>3, DescriptorHolds
  <2>5. n \in Nat /\ n >= 1
    <3>1. WaitsWell(running)
      BY <1>1 DEF PipeIInv, CallersWait
    <3> QED
      BY <1>1, <2>1, <2>2, <3>1 DEF WaitsWell, Shapes, CallRecords
  <2> QED
    BY <2>2, <2>3, <2>4, <2>5, ReadTurnKeeps
<1>5. CASE WriteAgain
  <2>1. PICK k, s : k = call[running].pipe /\ s = call[running].text
    OBVIOUS
  <2>2. AtPrompt /\ call[running].op = "write" /\ WriteTurn(k, s)
    BY <1>5, <2>1 DEF WriteAgain
  <2>3. PICK i \in FDs : /\ fd[running][i] # NULL
                         /\ oft[fd[running][i]].mode = "write"
                         /\ oft[fd[running][i]].pipe = k
    BY <1>1, <2>1, <2>2 DEF PointerStaysGood
  <2>4. k \in Pipes /\ Held(k)
    BY <2>3, DescriptorHolds
  <2>5. s \in Seq(Bytes)
    BY <1>1, <2>1 DEF Shapes, CallRecords
  <2> QED
    BY <2>2, <2>3, <2>4, <2>5, WriteTurnKeeps
<1> QED
  BY <1>2, <1>3, <1>4, <1>5

(* A stutter.                                                                *)
LEMMA PipeStutters ==
  ASSUME PipeIInv, UNCHANGED <<vars, pipeVars>>
  PROVE  PipeIInv' /\ Carries
<1>1. UNCHANGED vars /\ UNCHANGED <<fd, oft, pipes, call, delivered>>
  BY DEF pipeVars
<1>2. UNCHANGED <<pc, status, event>>
  BY <1>1 DEF vars
<1>3. KInv'
  BY <1>1, RunnerIsThere, NextKeeps
<1>4. Shapes' /\ HeldSound' /\ Tables'
  <2>1. Shapes /\ HeldSound /\ Tables
    BY DEF PipeIInv
  <2> QED
    BY <1>1, <2>1 DEF Shapes, HeldSound, Held, Tables, UsersCounted, DescriptorsTo,
                      EndsCounted, EndsAreThere, EndsAreOne
<1>5. ASSUME NEW p \in Procs
      PROVE  WaitsWell(p)' /\ PointerGood(p)' /\ MissesNothing(p)'
  <2>1. WaitsWell(p) /\ PointerGood(p) /\ MissesNothing(p)
    BY DEF PipeIInv, CallersWait, NobodyMisses, PointerStaysGood, PointerGood
  <2> QED
    BY <1>1, <1>2, <2>1 DEF WaitsWell, PointerGood, MissesNothing
<1>6. Carries
  <2>1. \A k \in Pipes : Held(k)' <=> Held(k)
    BY <1>1 DEF Held
  <2> QED
    BY <1>1, <2>1, CarriesNothing
<1> QED
  BY <1>3, <1>4, <1>5, <1>6, PutTogether

(* Every step of the kernel keeps the invariant and is a step, or none, of   *)
(* the channels of PipeChannel.                                              *)
LEMMA PipeStep ==
  PipeIInv /\ [PipeNext]_<<vars, pipeVars>> => PipeIInv' /\ Carries
<1> SUFFICES ASSUME PipeIInv, [PipeNext]_<<vars, pipeVars>>
             PROVE PipeIInv' /\ Carries
  OBVIOUS
<1>1. CASE UNCHANGED <<vars, pipeVars>>
  BY <1>1, PipeStutters
<1>2. CASE MainFork /\ UNCHANGED pipeVars
  BY <1>2, KernelKeeps
<1>3. CASE MainSwitch /\ UNCHANGED pipeVars
  BY <1>3, KernelKeeps
<1>4. CASE WaitAgain /\ UNCHANGED pipeVars
  BY <1>4, KernelKeeps
<1>5. CASE ReadAgain \/ WriteAgain
  BY <1>5, TransfersKeep
<1>6. CASE kcinthWithFds
  <2>1. CASE InUmode /\ DoTswitch /\ UNCHANGED pipeVars
    BY <2>1, KernelKeeps
  <2>2. CASE InUmode /\ forkWithFds
    BY <2>2, ForkWithFdsKeeps
  <2>3. CASE InUmode /\ DoWait /\ UNCHANGED pipeVars
    BY <2>3, KernelKeeps
  <2>4. CASE \E value \in ExitValues : kkexitWithFds(value)
    <3>1. UNCHANGED pipeVars /\ \E value \in ExitValues : InUmode /\ kexit(value)
      BY <2>4 DEF kkexitWithFds
    <3> QED
      BY <3>1, KernelKeeps
  <2>5. CASE kpipe
    BY <2>5, KpipeKeeps
  <2>6. CASE \E i \in FDs : kclosepipe(i)
    BY <2>6, KclosepipeKeeps
  <2>7. CASE \/ \E i \in FDs, n \in 1 .. MaxBytes : kreadpipe(i, n)
             \/ \E i \in FDs, s \in BoundedSeq(Bytes, MaxBytes) \ {<< >>} : kwritepipe(i, s)
    BY <2>7, TransfersKeep
  <2> QED
    BY <1>6, <2>1, <2>2, <2>3, <2>4, <2>5, <2>6, <2>7 DEF kcinthWithFds
<1> QED
  BY <1>1, <1>2, <1>3, <1>4, <1>5, <1>6 DEF PipeNext

(* It holds at the start, when no pipe is open.                              *)
LEMMA PipeStart == PipeInit => PipeIInv /\ Channel!ChannelInit
<1> SUFFICES ASSUME PipeInit PROVE PipeIInv /\ Channel!ChannelInit
  OBVIOUS
<1>1. KInv
  <2>1. NULL \in Procs \cup {NULL} /\ 0 \in Procs
    BY DEF Procs
  <2>2. parent \in [Procs -> Procs \cup {NULL}]
    BY <2>1 DEF PipeInit
  <2>3. Fresh
    BY <2>2 DEF PipeInit, Fresh
  <2> QED
    BY <2>3, FreshIsSound
<1>2. PICK p0 : p0 = [buf |-> [i \in Slots |-> 0], head |-> 0, tail |-> 0,
                      data |-> 0, room |-> 0, nreader |-> 0, nwriter |-> 0]
  OBVIOUS
<1>3. /\ p0 \in Rings /\ p0.nreader = 0 /\ p0.nwriter = 0 /\ p0.data = 0
      /\ \A k \in Pipes : pipes[k] = p0
      /\ pipes \in [Pipes -> Rings]
  <2>1. p0 \in Rings
    BY <1>2 DEF Rings, Slots, Cells
  <2> QED
    BY <1>2, <2>1 DEF PipeInit
<1>4. PICK o0 : o0 = [mode |-> "none", refCount |-> 0, pipe |-> NULL]
  OBVIOUS
<1>5. /\ oft \in [OFTs -> OFTRecords]
      /\ \A o \in OFTs : oft[o] = o0
      /\ o0.refCount = 0
  <2>1. o0 \in OFTRecords
    BY <1>4 DEF OFTRecords, Modes
  <2> QED
    BY <1>4, <2>1 DEF PipeInit
<1>6. /\ fd \in [Procs -> [FDs -> OFTs \cup {NULL}]]
      /\ \A p \in Procs, i \in FDs : fd[p][i] = NULL
  BY DEF PipeInit
<1>7. call \in [Procs -> CallRecords] /\ \A p \in Procs : call[p].op = "none"
  BY NoCallIsACall DEF PipeInit
<1>8. delivered = << >> /\ delivered \in BoundedSeq(Bytes, PSIZE)
  <2>1. << >> \in [1 .. 0 -> Bytes] /\ 0 \in 0 .. PSIZE
    OBVIOUS
  <2> QED
    BY <2>1 DEF PipeInit, BoundedSeq, SeqOf
<1>9. Shapes
  BY <1>3, <1>5, <1>6, <1>7, <1>8 DEF Shapes
<1>10. \A k \in Pipes : ~Held(k)
  BY <1>3 DEF Held
<1>11. Tables
  <2>1. UsersCounted
    <3> SUFFICES ASSUME NEW o \in OFTs
                 PROVE oft[o].refCount >= Cardinality(DescriptorsTo(o))
      BY DEF UsersCounted
    <3>1. DescriptorsTo(o) = {}
      <4> SUFFICES ASSUME NEW x \in DescriptorsTo(o) PROVE FALSE
        OBVIOUS
      <4>1. PICK p \in Procs, i \in FDs : x = <<p, i>> /\ fd[p][i] = o
        BY DEF DescriptorsTo
      <4> QED
        BY <1>6, <4>1 DEF OFTs
    <3>2. Cardinality(DescriptorsTo(o)) = 0
      BY <3>1, FS_EmptySet
    <3> QED
      BY <1>5, <3>2
  <2>2. EndsCounted /\ EndsAreOne
    BY <1>5 DEF EndsCounted, EndsAreOne
  <2>3. EndsAreThere
    BY <1>3 DEF EndsAreThere, UsersOf
  <2> QED
    BY <2>1, <2>2, <2>3 DEF Tables
<1>12. HeldSound /\ CallersWait /\ PointerStaysGood /\ NobodyMisses
  BY <1>7, <1>10 DEF HeldSound, CallersWait, WaitsWell, PointerStaysGood,
                     NobodyMisses, MissesNothing
<1>13. Channel!ChannelInit
  <2>1. \A k \in Pipes : Contents(pipes[k]) = << >>
    <3>1. Contents(p0) \in Seq(Cells) /\ Len(Contents(p0)) = 0
      BY <1>3, ContentsBytes
    <3> QED
      BY <1>3, <3>1, EmptySeq
  <2>2. \A k \in Pipes : Held(k) = FALSE
    BY <1>10 DEF Held
  <2> QED
    BY <1>8, <2>1, <2>2 DEF Channel!ChannelInit
<1> QED
  BY <1>1, <1>9, <1>11, <1>12, <1>13 DEF PipeIInv

-----------------------------------------------------------------------------
(* What the invariant says of the counters and the types,                    *)
LEMMA InvariantCounts == PipeIInv => CountsCover
<1> SUFFICES ASSUME PipeIInv PROVE CountsCover
  OBVIOUS
<1>1. Shapes /\ Tables
  BY DEF PipeIInv
<1>2. PipeTypeOK
  BY <1>1 DEF Shapes, PipeTypeOK, OFTRecords, Rings, CallRecords
<1> QED
  BY <1>1, <1>2 DEF Tables, CountsCover

(* and of those who sleep.                                                   *)
LEMMA NobodyMissesIt == PipeIInv => NoMissedWakeup
<1> SUFFICES ASSUME PipeIInv, NEW k \in Pipes
             PROVE /\ AsleepIn("read", k) # {} => pipes[k].data = 0
                   /\ AsleepIn("write", k) # {} => pipes[k].room = 0
  BY DEF NoMissedWakeup
<1>1. \A p \in Procs : MissesNothing(p)
  BY DEF PipeIInv, NobodyMisses
<1> QED
  BY <1>1 DEF AsleepIn, MissesNothing

(* The inductive invariant holds in every behaviour of the kernel.           *)
THEOREM PipeInvariance == PipeSpec => []PipeIInv
BY PipeStart, PipeStep, PTL DEF PipeSpec

(* The circular buffer of every pipe in use stays sound, for any size of     *)
(* the buffer: head, tail, data and room of pipe.c agree through wraps,      *)
(* partial transfers, closes and reuse.                                      *)
THEOREM PipesStaySound == PipeSpec => []RingsSound
<1>1. PipeIInv => RingsSound
  BY DEF PipeIInv, HeldSound, RingsSound
<1> QED
  BY <1>1, PipeInvariance, PTL

(* The reference counts of pipe.c cover every descriptor, those of the dead  *)
(* and of free PROCs included, and the counters of a pipe are those of its   *)
(* two ends: no pipe is given back under somebody who may use it.            *)
THEOREM CountersCover == PipeSpec => []CountsCover
BY InvariantCounts, PipeInvariance, PTL

(* kreadpipe and kwritepipe keep a pointer to the pipe while they sleep, and *)
(* use it without a look when they wake: whoever else closes, forks or dies  *)
(* in between, the pipe is still theirs.                                     *)
THEOREM SleepersKeepTheirPipe == PipeSpec => []PointerStaysGood
<1>1. PipeIInv => PointerStaysGood
  BY DEF PipeIInv
<1> QED
  BY <1>1, PipeInvariance, PTL

(* Nobody sleeps for data that is there or for room that is there: each      *)
(* transfer of pipe.c wakes everybody for whom it makes a difference.        *)
THEOREM SleepersAreWoken == PipeSpec => []NoMissedWakeup
BY NobodyMissesIt, PipeInvariance, PTL

(* The kernel implements PipeChannel: whatever is forked, closed, exited or  *)
(* killed, the bytes written to a pipe are read in the order in which they   *)
(* were written, once each, and none is lost while the pipe is held.         *)
THEOREM PipesCarryBytes == PipeSpec => CarriesBytes
BY PipeStart, PipeStep, PipeInvariance, PTL
   DEF PipeSpec, CarriesBytes, Channel!ChannelSpec, Carries
=============================================================================
