--------------------------- MODULE LockFifoProofs ---------------------------
(***************************************************************************)
(* The ring of waiting threads is the queue of ThreadQueue, for any number *)
(* of threads, any priorities and a ring of any size that has a slot for   *)
(* every thread.                                                           *)
(***************************************************************************)
EXTENDS LockFifo, FiniteSetTheorems, SequenceTheorems, TLAPS

W == INSTANCE WaitQueueProofs

(* The operations of the abstract queue are the ones WaitQueueProofs is    *)
(* about.                                                                  *)
LEMMA SameOperations ==
  ASSUME NEW q, NEW t, NEW d, NEW p
  PROVE  /\ Queue!Enqueue(q, t, d, p) = W!Enqueue(q, t, d, p)
         /\ Queue!RemoveThread(q, t) = W!RemoveThread(q, t)
         /\ Queue!ToSet(q) = W!ToSet(q)
<1>1. Queue!Enqueue(q, t, d, p) = W!Enqueue(q, t, d, p)
  BY DEF Queue!Enqueue, W!Enqueue, Queue!InsertAt, W!InsertAt,
         Queue!InsertPosition, W!InsertPosition
<1>2. Queue!RemoveThread(q, t) = W!RemoveThread(q, t)
  BY DEF Queue!RemoveThread, W!RemoveThread, Queue!RemoveFirst, W!RemoveFirst,
         Queue!RemoveAt, W!RemoveAt, Queue!SelectInSeq, W!SelectInSeq,
         Queue!Min, W!Min
<1>3. Queue!ToSet(q) = W!ToSet(q)
  BY DEF Queue!ToSet, W!ToSet
<1> QED BY <1>1, <1>2, <1>3
-----------------------------------------------------------------------------
(* The slot k places after h, and how many places after h slot l comes.    *)
Slot(h, k) == IF h + k < N THEN h + k ELSE h + k - N
Gap(h, l)  == IF h <= l THEN l - h ELSE l - h + N

(* How many threads wait; head and last meet in an empty and a full ring.  *)
Between(h, l)  == IF h = l THEN N ELSE Gap(h, l)
Count(h, l, e) == IF e THEN 0 ELSE Between(h, l)

(* The arithmetic of the ring without the remainders.                      *)
LEMMA Wraps ==
  ASSUME NEW h \in Slots
  PROVE  /\ \A k \in 0..N - 1 : Plus(h, k) = Slot(h, k) /\ Slot(h, k) \in Slots
         /\ Plus(h, 1) = IF h + 1 < N THEN h + 1 ELSE 0
         /\ Plus(h, -1) = IF h = 0 THEN N - 1 ELSE h - 1
         /\ \A l \in Slots : Behind(h, l) = Gap(h, l)
<1>0. N \in Nat \ {0} /\ h \in 0..N - 1
  BY RingAssumption DEF Slots
<1>1. ASSUME NEW k \in 0..N - 1
      PROVE  Plus(h, k) = Slot(h, k) /\ Slot(h, k) \in Slots
  <2>1. CASE h + k < N BY <1>0, <2>1 DEF Plus, Slot, Slots
  <2>2. CASE N <= h + k
    <3>1. h + k - N \in 0..N - 1 /\ h + k = N + (h + k - N) BY <1>0, <2>2
    <3>2. (h + k) % N = h + k - N BY <1>0, <3>1
    <3> QED BY <1>0, <2>2, <3>1, <3>2 DEF Plus, Slot, Slots
  <2> QED BY <2>1, <2>2, <1>0
<1>2. Plus(h, 1) = IF h + 1 < N THEN h + 1 ELSE 0
  <2>1. CASE h + 1 < N BY <1>0, <2>1 DEF Plus
  <2>2. CASE h + 1 = N BY <1>0, <2>2 DEF Plus
  <2> QED BY <2>1, <2>2, <1>0
<1>3. Plus(h, -1) = IF h = 0 THEN N - 1 ELSE h - 1
  <2>1. CASE h = 0 BY <1>0, <2>1 DEF Plus
  <2>2. CASE h > 0 BY <1>0, <2>2 DEF Plus
  <2> QED BY <2>1, <2>2, <1>0
<1>4. ASSUME NEW l \in Slots
      PROVE  Behind(h, l) = Gap(h, l)
  <2>0. l \in 0..N - 1 BY DEF Slots
  <2>1. CASE h <= l BY <1>0, <2>0, <2>1 DEF Behind, Gap
  <2>2. CASE l < h BY <1>0, <2>0, <2>2 DEF Behind, Gap
  <2> QED BY <2>1, <2>2, <1>0, <2>0
<1> QED BY <1>1, <1>2, <1>3, <1>4

LEMMA StaysInRing == \A j \in Slots : Plus(j, 1) \in Slots /\ Plus(j, -1) \in Slots
<1> SUFFICES ASSUME NEW j \in Slots
             PROVE  Plus(j, 1) \in Slots /\ Plus(j, -1) \in Slots
  OBVIOUS
<1>1. N \in Nat \ {0} /\ j \in 0..N - 1 BY RingAssumption DEF Slots
<1>2. /\ Plus(j, 1) = IF j + 1 < N THEN j + 1 ELSE 0
      /\ Plus(j, -1) = IF j = 0 THEN N - 1 ELSE j - 1
  BY Wraps
<1> QED BY <1>1, <1>2 DEF Slots

(* Places and slots correspond: place k after h is Gap(h, .) = k, and two  *)
(* places keep their distance around the ring.                             *)
LEMMA Places ==
  ASSUME NEW h \in Slots, NEW j \in 0..N - 1, NEW k \in 0..N - 1
  PROVE  /\ Slot(h, k) \in Slots
         /\ Slot(h, j) = Slot(h, k) => j = k
         /\ Gap(Slot(h, j), Slot(h, k)) = IF j <= k THEN k - j ELSE k - j + N
<1>0. N \in Nat \ {0} /\ h \in 0..N - 1
  BY RingAssumption DEF Slots
<1> QED BY <1>0 DEF Slot, Gap, Slots

(* The neighbours of a slot in use.                                        *)
LEMMA Neighbours ==
  ASSUME NEW h \in Slots, NEW k \in 0..N - 1
  PROVE  /\ k > 0 => Plus(Slot(h, k), -1) = Slot(h, k - 1)
         /\ k < N - 1 => /\ Plus(Slot(h, k), 1) = Slot(h, k + 1)
                         /\ Slot(Plus(h, 1), k) = Slot(h, k + 1)
<1>0. N \in Nat \ {0} /\ h \in 0..N - 1
  BY RingAssumption DEF Slots
<1>1. Slot(h, k) \in Slots BY Places
<1>2. k > 0 => Plus(Slot(h, k), -1) = Slot(h, k - 1)
  BY <1>0, <1>1, Wraps DEF Slot
<1>3. k < N - 1 => Plus(Slot(h, k), 1) = Slot(h, k + 1)
  BY <1>0, <1>1, Wraps DEF Slot
<1>4. k < N - 1 => Slot(Plus(h, 1), k) = Slot(h, k + 1)
  BY <1>0, Wraps DEF Slot
<1> QED BY <1>2, <1>3, <1>4
-----------------------------------------------------------------------------
(* A state of the ring in which head and last are where they must be.      *)
Sound(b, h, l, e) ==
  /\ b \in [Slots -> Threads \union {Nobody}]
  /\ h \in Slots /\ l \in Slots /\ e \in BOOLEAN
  /\ e => h = l

ContentsOf(b, h, l, e) == [k \in 1..Count(h, l, e) |-> b[Slot(h, k - 1)]]

LEMMA CountBounds ==
  ASSUME NEW h \in Slots, NEW l \in Slots, NEW e \in BOOLEAN, e => h = l
  PROVE  /\ Count(h, l, e) \in 0..N
         /\ Count(h, l, e) < N => l = Slot(h, Count(h, l, e))
         /\ Count(h, l, e) < N => Gap(h, l) = Count(h, l, e)
         /\ Count(h, l, e) = N <=> ~ e /\ h = l
<1>0. N \in Nat \ {0} /\ h \in 0..N - 1 /\ l \in 0..N - 1
  BY RingAssumption DEF Slots
<1> QED BY <1>0 DEF Count, Between, Gap, Slot

(* One thread fewer, whether head goes forward or last back.               *)
LEMMA OneFewer ==
  ASSUME NEW h \in Slots, NEW l \in Slots, Between(h, l) > 0,
         NEW x \in Slots, NEW e \in BOOLEAN
  PROVE  /\ (x = IF h + 1 < N THEN h + 1 ELSE 0) /\ (e <=> l = x) =>
              Count(x, l, e) = Between(h, l) - 1
         /\ (x = IF l = 0 THEN N - 1 ELSE l - 1) /\ (e <=> x = h) =>
              /\ Count(h, x, e) = Between(h, l) - 1
              /\ x = Slot(h, Between(h, l) - 1)
<1>0. N \in Nat \ {0} /\ h \in 0..N - 1 /\ l \in 0..N - 1
  BY RingAssumption DEF Slots
<1>1. ASSUME x = IF h + 1 < N THEN h + 1 ELSE 0, e <=> l = x
      PROVE  Count(x, l, e) = Between(h, l) - 1
  <2>1. CASE l = x BY <1>0, <1>1, <2>1 DEF Count, Between, Gap
  <2>2. CASE l # x BY <1>0, <1>1, <2>2 DEF Count, Between, Gap
  <2> QED BY <2>1, <2>2
<1>2. ASSUME x = IF l = 0 THEN N - 1 ELSE l - 1, e <=> x = h
      PROVE  /\ Count(h, x, e) = Between(h, l) - 1
             /\ x = Slot(h, Between(h, l) - 1)
  <2>1. CASE x = h BY <1>0, <1>2, <2>1 DEF Count, Between, Gap, Slot
  <2>2. CASE x # h BY <1>0, <1>2, <2>2 DEF Count, Between, Gap, Slot
  <2> QED BY <2>1, <2>2
<1> QED BY <1>1, <1>2

(* The slots the code counts as used are the first Count places.           *)
LEMMA UsedPlaces ==
  ASSUME NEW b, NEW h, NEW l, NEW e, Sound(b, h, l, e)
  PROVE  LET u == IF e THEN {} ELSE 0..Plus(Behind(h, l), -1)
         IN  /\ u = 0..Count(h, l, e) - 1
             /\ Cardinality(u) = Count(h, l, e)
             /\ [k \in 1..Cardinality(u) |-> b[Plus(h, k - 1)]]
                  = ContentsOf(b, h, l, e)
<1> DEFINE n == Count(h, l, e)
           u == IF e THEN {} ELSE 0..Plus(Behind(h, l), -1)
<1>0. /\ N \in Nat \ {0} /\ h \in 0..N - 1 /\ l \in 0..N - 1
      /\ h \in Slots /\ l \in Slots /\ e \in BOOLEAN
  BY RingAssumption DEF Slots, Sound
<1>1. n \in 0..N BY <1>0, CountBounds DEF Sound
<1>2. u = 0..n - 1
  <2>1. CASE e BY <2>1 DEF Count
  <2>2. CASE ~ e
    <3>1. Behind(h, l) = Gap(h, l) BY <1>0, Wraps
    <3>2. Gap(h, l) \in Slots BY <1>0 DEF Gap, Slots
    <3>3. Plus(Gap(h, l), -1) = IF Gap(h, l) = 0 THEN N - 1 ELSE Gap(h, l) - 1
      BY <3>2, Wraps
    <3>4. Plus(Gap(h, l), -1) = n - 1 BY <3>3, <2>2, <1>0 DEF Gap, Count, Between
    <3> QED BY <3>1, <3>4, <2>2
  <2> QED BY <2>1, <2>2
<1> HIDE DEF n
<1>3. Cardinality(0..n - 1) = n
  <2>1. Cardinality(0..n - 1) = IF 0 > n - 1 THEN 0 ELSE n - 1 - 0 + 1
    BY <1>1, FS_Interval
  <2> QED BY <2>1, <1>1
<1>4. \A k \in 1..n : Plus(h, k - 1) = Slot(h, k - 1)
  <2>1. ASSUME NEW k \in 1..n PROVE Plus(h, k - 1) = Slot(h, k - 1)
    <3>1. k - 1 \in 0..N - 1 BY <1>0, <1>1
    <3> QED BY <3>1, <1>0, Wraps
  <2> QED BY <2>1
<1> HIDE DEF u
<1>5. [k \in 1..Cardinality(u) |-> b[Plus(h, k - 1)]] = ContentsOf(b, h, l, e)
  BY <1>2, <1>3, <1>4 DEF ContentsOf, n
<1> QED BY <1>2, <1>3, <1>5 DEF u, n
-----------------------------------------------------------------------------
(* The inductive invariant: the slots in use hold different threads.       *)
IInv ==
  /\ TypeOK
  /\ is_empty => head = last
  /\ Contents \in Seq(Threads)
  /\ W!Distinct(Contents)

N0 == Count(head, last, is_empty)

LEMMA ContentsShape ==
  ASSUME TypeOK, is_empty => head = last
  PROVE  /\ Used = 0..N0 - 1 /\ N0 \in 0..N
         /\ Contents = ContentsOf(buffer, head, last, is_empty)
<1>1. Sound(buffer, head, last, is_empty) BY DEF TypeOK, Sound
<1>2. N0 \in 0..N BY CountBounds DEF TypeOK, N0
<1> QED BY <1>1, <1>2, UsedPlaces DEF Used, Contents, N0

(* The same of the state a step leads to.                                  *)
LEMMA ContentsShapeNext ==
  ASSUME TypeOK', (is_empty => head = last)'
  PROVE  Contents' = ContentsOf(buffer', head', last', is_empty')
<1>1. Sound(buffer', head', last', is_empty') BY DEF TypeOK, Sound
<1> QED BY <1>1, UsedPlaces DEF Used, Contents

(* What the contents are, place by place.                                  *)
LEMMA ContentsAt ==
  ASSUME IInv
  PROVE  /\ N0 \in 0..N /\ Used = 0..N0 - 1
         /\ Len(Contents) = N0
         /\ \A k \in 1..N0 : /\ Contents[k] = buffer[Slot(head, k - 1)]
                             /\ Contents[k] \in Threads
         /\ \A k \in 0..N0 - 1 : buffer[Plus(head, k)] = Contents[k + 1]
         /\ \A j, k \in 1..N0 : Contents[j] = Contents[k] => j = k
<1>1. /\ N0 \in 0..N /\ Used = 0..N0 - 1
      /\ Contents = [k \in 1..N0 |-> buffer[Slot(head, k - 1)]]
  BY ContentsShape DEF IInv, ContentsOf, N0
<1>2. Len(Contents) = N0 BY <1>1, RingAssumption DEF IInv
<1>3. \A k \in 1..N0 : /\ Contents[k] = buffer[Slot(head, k - 1)]
                       /\ Contents[k] \in Threads
  BY <1>1, <1>2, ElementOfSeq DEF IInv
<1>4. ASSUME NEW k \in 0..N0 - 1
      PROVE  buffer[Plus(head, k)] = Contents[k + 1]
  <2>1. N \in Nat /\ k \in 0..N - 1 /\ k + 1 \in 1..N0 /\ (k + 1) - 1 = k
    BY <1>1, RingAssumption
  <2>2. Plus(head, k) = Slot(head, k) BY <2>1, Wraps DEF IInv, TypeOK
  <2> QED BY <2>1, <2>2, <1>3
<1>5. \A j, k \in 1..N0 : Contents[j] = Contents[k] => j = k
  BY <1>2 DEF IInv, W!Distinct
<1> QED BY <1>1, <1>2, <1>3, <1>4, <1>5

LEMMA WaitingIsQueued ==
  ASSUME IInv, NEW t
  PROVE  Waiting(t) <=> t \in W!ToSet(Contents)
<1>0. N0 \in Nat BY ContentsAt, RingAssumption
<1>1. Waiting(t) <=> \E k \in 0..N0 - 1 : Contents[k + 1] = t
  BY ContentsAt DEF Waiting
<1>2. t \in W!ToSet(Contents) <=> \E k \in 1..N0 : Contents[k] = t
  <2>1. Len(Contents) = N0 /\ Contents \in Seq(Threads)
    BY ContentsAt DEF IInv
  <2>2. DOMAIN Contents = 1..N0 BY <2>1, LenProperties
  <2> QED BY <2>2 DEF W!ToSet
<1>3. \A k \in 0..N0 - 1 : k + 1 \in 1..N0 BY <1>0
<1>4. \A k \in 1..N0 : k - 1 \in 0..N0 - 1 /\ (k - 1) + 1 = k BY <1>0
<1> QED BY <1>1, <1>2, <1>3, <1>4

(* A thread that does not wait finds room: the others that wait are fewer  *)
(* than the slots.  The code relies on it where it inserts by priority.    *)
LEMMA Room ==
  ASSUME IInv, NEW t \in Threads, ~ Waiting(t)
  PROVE  N0 \in 0..N - 1 /\ t \notin W!ToSet(Contents)
<1> DEFINE Others == Threads \ {t}
<1>1. t \notin W!ToSet(Contents) BY WaitingIsQueued
<1>2. N \in Nat /\ N0 \in 0..N BY ContentsAt, RingAssumption
<1>3. \A k \in 1..N0 : Contents[k] \in Others
  <2>1. ASSUME NEW k \in 1..N0, Contents[k] = t PROVE FALSE
    <3>1. k - 1 \in Used /\ buffer[Plus(head, k - 1)] = t
      BY <2>1, <1>2, ContentsAt
    <3> QED BY <3>1 DEF Waiting
  <2> QED BY <2>1, ContentsAt
<1>4. IsFiniteSet(Others) /\ Cardinality(Others) < N
  <2>1. IsFiniteSet(Threads) /\ Cardinality(Threads) <= N BY RingAssumption
  <2>2. /\ IsFiniteSet(Others)
        /\ Cardinality(Others) = Cardinality(Threads) - 1
    BY <2>1, FS_RemoveElement
  <2>3. Cardinality(Threads) \in Nat BY <2>1, FS_CardinalityType
  <2> HIDE DEF Others
  <2> QED BY <2>1, <2>2, <2>3, <1>2
<1>5. ASSUME N0 = N PROVE FALSE
  <2> DEFINE f == [k \in 1..N |-> Contents[k]]
  <2>1. f \in [1..N -> Others] BY <1>3, <1>5
  <2>2. IsFiniteSet(1..N) /\ Cardinality(1..N) = N
    <3>1. /\ IsFiniteSet(1..N)
          /\ Cardinality(1..N) = IF 1 > N THEN 0 ELSE N - 1 + 1
      BY <1>2, FS_Interval
    <3> QED BY <3>1, <1>2
  <2>3. \E j, k \in 1..N : j # k /\ f[j] = f[k]
    <3> HIDE DEF f, Others
    <3> QED BY <2>1, <2>2, <1>4, FS_PigeonHole
  <2> QED BY <2>3, <1>5, ContentsAt
<1> QED BY <1>1, <1>2, <1>5
-----------------------------------------------------------------------------
(* Sequences with the same thread put in, or taken out, at one position    *)
(* are the same.                                                           *)
LEMMA OneResult ==
  ASSUME NEW q \in Seq(Threads), NEW r \in Seq(Threads), NEW x \in Seq(Threads),
         NEW i \in 1..Len(q) + 1, NEW t,
         \/ W!InsertedAt(q, t, i, r) /\ W!InsertedAt(q, t, i, x)
         \/ W!RemovedAt(q, i, r) /\ W!RemovedAt(q, i, x)
  PROVE  r = x
<1>0. Len(q) \in Nat BY LenProperties
<1>1. Len(r) = Len(x) BY DEF W!InsertedAt, W!RemovedAt
<1>2. ASSUME NEW k \in 1..Len(r) PROVE r[k] = x[k]
  <2>1. CASE W!RemovedAt(q, i, r) /\ W!RemovedAt(q, i, x)
    BY <2>1 DEF W!RemovedAt
  <2>2. CASE W!InsertedAt(q, t, i, r) /\ W!InsertedAt(q, t, i, x)
    <3>1. k \in 1..Len(q) + 1 BY <2>2 DEF W!InsertedAt
    <3>2. CASE k < i
      <4>1. k \in 1..i - 1 BY <3>1, <3>2, <1>0
      <4> QED BY <4>1, <2>2 DEF W!InsertedAt
    <3>3. CASE k = i BY <3>3, <2>2 DEF W!InsertedAt
    <3>4. CASE k > i
      <4>1. k - 1 \in i..Len(q) /\ (k - 1) + 1 = k BY <3>1, <3>4, <1>0
      <4> QED BY <4>1, <2>2 DEF W!InsertedAt
    <3> QED BY <3>1, <3>2, <3>3, <3>4, <1>0
  <2> QED BY <2>1, <2>2
<1> QED BY <1>1, <1>2, SeqEqual

(* A step that writes t at place i and moves the threads from there on by  *)
(* one slot inserts t into the contents.                                   *)
LEMMA InsertsAt ==
  ASSUME IInv, TypeOK', NEW t \in Threads, NEW i \in 0..N0, N0 < N,
         ~ is_empty', head' = head, last' = Plus(last, 1),
         \A k \in 0..i - 1 : buffer'[Slot(head, k)] = buffer[Slot(head, k)],
         buffer'[Slot(head, i)] = t,
         \A k \in i..N0 - 1 : buffer'[Slot(head, k + 1)] = buffer[Slot(head, k)]
  PROVE  Contents' \in Seq(Threads) /\ W!InsertedAt(Contents, t, i + 1, Contents')
<1>0. /\ N \in Nat \ {0} /\ N0 \in 0..N - 1 /\ i \in 0..N0
      /\ head \in 0..N - 1 /\ last \in 0..N - 1 /\ head \in Slots
  BY RingAssumption, ContentsAt DEF IInv, TypeOK, Slots
<1>1. Count(head, last', FALSE) = N0 + 1
  <2>1. last = Slot(head, N0)
    BY <1>0, CountBounds DEF IInv, TypeOK, N0
  <2>2. Plus(last, 1) = IF last + 1 < N THEN last + 1 ELSE 0
    BY Wraps DEF IInv, TypeOK
  <2> HIDE DEF N0
  <2> QED BY <1>0, <2>1, <2>2 DEF Slot, Count, Between, Gap
<1>2. Contents' = [k \in 1..N0 + 1 |-> buffer'[Slot(head, k - 1)]]
  <2>1. Contents' = ContentsOf(buffer', head', last', is_empty')
    BY ContentsShapeNext
  <2>2. is_empty' = FALSE BY DEF TypeOK
  <2> QED BY <2>1, <2>2, <1>1 DEF ContentsOf
<1>3. ASSUME NEW k \in 1..i PROVE Contents'[k] = Contents[k]
  <2>1. k - 1 \in 0..i - 1 /\ k \in 1..N0 /\ k \in 1..N0 + 1 BY <1>0
  <2> QED BY <2>1, <1>2, ContentsAt
<1>4. Contents'[i + 1] = t
  <2>1. i + 1 \in 1..N0 + 1 /\ (i + 1) - 1 = i BY <1>0
  <2> QED BY <2>1, <1>2
<1>5. ASSUME NEW k \in i + 1..N0 PROVE Contents'[k + 1] = Contents[k]
  <2>1. /\ k - 1 \in i..N0 - 1 /\ (k - 1) + 1 = k /\ (k + 1) - 1 = k
        /\ k \in 1..N0 /\ k + 1 \in 1..N0 + 1
    BY <1>0
  <2>2. Contents'[k + 1] = buffer'[Slot(head, (k - 1) + 1)] BY <2>1, <1>2
  <2>3. Contents[k] = buffer[Slot(head, k - 1)] BY <2>1, ContentsAt
  <2> QED BY <2>1, <2>2, <2>3
<1>6. ASSUME NEW k \in 1..N0 + 1 PROVE Contents'[k] \in Threads
  <2>1. \A j \in 1..N0 : Contents[j] \in Threads BY ContentsAt
  <2>2. CASE k <= i
    <3>1. k \in 1..i /\ k \in 1..N0 BY <2>2, <1>0
    <3> QED BY <3>1, <2>1, <1>3
  <2>3. CASE k = i + 1 BY <2>3, <1>4
  <2>4. CASE k > i + 1
    <3>1. k - 1 \in i + 1..N0 /\ (k - 1) + 1 = k /\ k - 1 \in 1..N0
      BY <2>4, <1>0
    <3> QED BY <3>1, <2>1, <1>5
  <2> QED BY <2>2, <2>3, <2>4, <1>0
<1>7. Contents' \in Seq(Threads) /\ Len(Contents') = N0 + 1
  <2>1. Contents' \in [1..N0 + 1 -> Threads] BY <1>2, <1>6
  <2>2. N0 + 1 \in Nat BY <1>0
  <2> HIDE DEF N0
  <2> QED BY <2>1, <2>2
<1>8. Len(Contents) = N0 /\ (i + 1) - 1 = i BY <1>0, ContentsAt
<1> QED BY <1>3, <1>4, <1>5, <1>7, <1>8 DEF W!InsertedAt

(* A step that leaves one thread fewer in the ring, those behind position i*)
(* one place nearer to the head, takes position i out of the contents.     *)
LEMMA RemovesAt ==
  ASSUME IInv, TypeOK', (is_empty => head = last)', N0 > 0, NEW i \in 1..N0,
         Count(head', last', is_empty') = N0 - 1,
         \A k \in 1..N0 - 1 :
           buffer'[Slot(head', k - 1)] = IF k < i THEN Contents[k]
                                                  ELSE Contents[k + 1]
  PROVE  Contents' \in Seq(Threads) /\ W!RemovedAt(Contents, i, Contents')
<1>0. N \in Nat \ {0} /\ N0 \in 1..N
  BY RingAssumption, ContentsAt
<1>1. Contents' = [k \in 1..N0 - 1 |-> buffer'[Slot(head', k - 1)]]
  BY ContentsShapeNext DEF ContentsOf
<1>2. \A k \in 1..N0 - 1 :
        /\ Contents'[k] = IF k < i THEN Contents[k] ELSE Contents[k + 1]
        /\ Contents'[k] \in Threads
  <2>1. \A k \in 1..N0 - 1 : k \in 1..N0 /\ k + 1 \in 1..N0 BY <1>0
  <2>2. \A j \in 1..N0 : Contents[j] \in Threads BY ContentsAt
  <2> QED BY <2>1, <2>2, <1>1
<1>3. Contents' \in Seq(Threads) /\ Len(Contents') = N0 - 1
  <2>1. Contents' \in [1..N0 - 1 -> Threads] BY <1>1, <1>2
  <2>2. N0 - 1 \in Nat BY <1>0
  <2> HIDE DEF N0
  <2> QED BY <2>1, <2>2
<1>4. Len(Contents) = N0 BY ContentsAt
<1> QED BY <1>2, <1>3, <1>4 DEF W!RemovedAt

(* The search of EnqueuePriority ends where the queue inserts.             *)
LEMMA SearchEnds ==
  ASSUME IInv, NEW t \in Threads, N0 < N
  PROVE  \E m \in 0..N0 : /\ InsertSlot(t) = Slot(head, m)
                          /\ W!InsertPosition(Contents, t, Prio) = m + 1
<1> DEFINE Stops == {k \in 0..Behind(head, last) :
                       \/ k = Behind(head, last)
                       \/ Prio[t] > Prio[buffer[Plus(head, k)]]}
           m == Min(Stops)
           at == W!InsertPosition(Contents, t, Prio)
<1>0. /\ N \in Nat \ {0} /\ N0 \in 0..N - 1 /\ Len(Contents) = N0
      /\ Contents \in Seq(Threads) /\ Prio \in [Threads -> Nat]
      /\ \A k \in 1..N0 : Contents[k] \in Threads
      /\ head \in Slots
  BY RingAssumption, ContentsAt DEF IInv, TypeOK
<1>1. Behind(head, last) = N0
  <2>1. Gap(head, last) = N0 BY <1>0, CountBounds DEF IInv, TypeOK, N0
  <2> QED BY <2>1, Wraps DEF IInv, TypeOK
<1>2. \A k \in 0..N0 :
        k \in Stops <=> k = N0 \/ Prio[t] > Prio[Contents[k + 1]]
  <2>1. \A k \in 0..N0 - 1 : buffer[Plus(head, k)] = Contents[k + 1]
    BY ContentsAt
  <2>2. \A k \in 0..N0 : k = N0 \/ k \in 0..N0 - 1 BY <1>0
  <2> QED BY <2>1, <2>2, <1>1
<1>3. m \in Stops /\ m \in 0..N0 /\ \A k \in Stops : m <= k
  <2>1. Stops \subseteq Nat /\ N0 \in Stops /\ Stops \subseteq 0..N0
    BY <1>0, <1>1
  <2> HIDE DEF Stops
  <2>2. \E x \in Stops : \A y \in Stops : x <= y BY <2>1, W!LeastElement
  <2> QED BY <2>1, <2>2 DEF Min
<1>4. InsertSlot(t) = Slot(head, m)
  <2>1. InsertSlot(t) = Plus(head, m) BY DEF InsertSlot
  <2>2. m \in 0..N - 1 BY <1>0, <1>3
  <2> HIDE DEF m
  <2> QED BY <2>1, <2>2, <1>0, Wraps
<1> HIDE DEF Stops, m
<1>5. \A k \in 1..m : Prio[t] <= Prio[Contents[k]]
  <2>1. ASSUME NEW k \in 1..m PROVE Prio[t] <= Prio[Contents[k]]
    <3>1. k - 1 \in 0..N0 /\ k - 1 < m /\ k - 1 # N0 /\ k \in 1..N0
          /\ (k - 1) + 1 = k
      BY <1>0, <1>3
    <3>2. ~ (Prio[t] > Prio[Contents[k]]) BY <3>1, <1>2, <1>3
    <3>3. Prio[t] \in Nat /\ Prio[Contents[k]] \in Nat BY <3>1, <1>0
    <3> QED BY <3>2, <3>3
  <2> QED BY <2>1
<1>6. m < N0 => Prio[Contents[m + 1]] < Prio[t]
  BY <1>0, <1>2, <1>3
<1>7. /\ at \in 1..N0 + 1
      /\ \A j \in 1..at - 1 : Prio[t] <= Prio[Contents[j]]
      /\ at <= N0 => Prio[Contents[at]] < Prio[t]
  BY <1>0, W!InsertPositionInRange
<1> HIDE DEF at
<1>8. at = m + 1
  <2>1. CASE at <= m
    <3>1. at \in 1..m /\ at <= N0 /\ at \in 1..N0 BY <2>1, <1>0, <1>3, <1>7
    <3>2. Prio[t] \in Nat /\ Prio[Contents[at]] \in Nat BY <3>1, <1>0
    <3> QED BY <3>1, <3>2, <1>5, <1>7
  <2>2. CASE at > m + 1
    <3>1. m + 1 \in 1..at - 1 /\ m < N0 /\ m + 1 \in 1..N0
      BY <2>2, <1>0, <1>3, <1>7
    <3>2. Prio[t] \in Nat /\ Prio[Contents[m + 1]] \in Nat BY <3>1, <1>0
    <3> QED BY <3>1, <3>2, <1>6, <1>7
  <2> QED BY <2>1, <2>2, <1>0, <1>3, <1>7
<1> QED BY <1>3, <1>4, <1>8 DEF at
-----------------------------------------------------------------------------
(* What a step must give: the invariant's part about head, last and the    *)
(* slots, and the contents as the abstract queue has them.                 *)
LEMMA Append1 ==
  ASSUME NEW q \in Seq(Threads), NEW t \in Threads
  PROVE  W!InsertedAt(q, t, Len(q) + 1, Append(q, t)) /\ Append(q, t) \in Seq(Threads)
<1>1. /\ Append(q, t) \in Seq(Threads) /\ Len(q) \in Nat
      /\ Len(Append(q, t)) = Len(q) + 1
      /\ \A k \in 1..Len(q) : Append(q, t)[k] = q[k]
      /\ Append(q, t)[Len(q) + 1] = t
  BY AppendProperties, LenProperties
<1>2. \A k \in 1..(Len(q) + 1) - 1 : k \in 1..Len(q) BY <1>1
<1>3. Len(q) + 1..Len(q) = {} BY <1>1
<1> QED BY <1>1, <1>2, <1>3 DEF W!InsertedAt

LEMMA EnqueueFifoStep ==
  ASSUME IInv, NEW t \in Threads, ~ Waiting(t), EnqueueFifo(t)
  PROVE  /\ TypeOK' /\ (is_empty => head = last)'
         /\ Contents' = W!Enqueue(Contents, t, discipline, Prio)
<1>0. /\ N \in Nat \ {0} /\ N0 \in 0..N - 1 /\ Len(Contents) = N0
      /\ Contents \in Seq(Threads)
      /\ head \in Slots /\ last \in Slots
  BY RingAssumption, Room, ContentsAt DEF IInv, TypeOK
<1>1. last = Slot(head, N0)
  BY <1>0, CountBounds DEF IInv, TypeOK, N0
<1>2. TypeOK' /\ (is_empty => head = last)'
  <2>1. Plus(last, 1) \in Slots BY <1>0, StaysInRing
  <2> QED BY <2>1 DEF EnqueueFifo, IInv, TypeOK
<1>3. ASSUME NEW k \in 0..N0 - 1
      PROVE  buffer'[Slot(head, k)] = buffer[Slot(head, k)]
  <2>1. k \in 0..N - 1 /\ N0 \in 0..N - 1 /\ k # N0 BY <1>0
  <2>2. Slot(head, k) \in Slots /\ Slot(head, k) # last BY <2>1, <1>0, <1>1, Places
  <2> QED BY <2>2 DEF EnqueueFifo, IInv, TypeOK
<1>4. buffer'[Slot(head, N0)] = t
  BY <1>0, <1>1 DEF EnqueueFifo, IInv, TypeOK
<1>5. Contents' \in Seq(Threads) /\ W!InsertedAt(Contents, t, N0 + 1, Contents')
  <2>1. /\ ~ is_empty' /\ head' = head /\ last' = Plus(last, 1)
        /\ N0 \in 0..N0 /\ N0 < N /\ N0..N0 - 1 = {}
    BY <1>0 DEF EnqueueFifo
  <2> QED BY <2>1, <1>2, <1>3, <1>4, InsertsAt
<1>6. /\ Append(Contents, t) \in Seq(Threads)
      /\ W!InsertedAt(Contents, t, N0 + 1, Append(Contents, t))
  BY <1>0, Append1
<1>7. Contents' = Append(Contents, t)
  <2>1. N0 + 1 \in 1..Len(Contents) + 1 BY <1>0
  <2> QED BY <2>1, <1>0, <1>5, <1>6, OneResult
<1> QED BY <1>2, <1>7 DEF EnqueueFifo, W!Enqueue

LEMMA EnqueuePriorityStep ==
  ASSUME IInv, NEW t \in Threads, ~ Waiting(t), EnqueuePriority(t)
  PROVE  /\ TypeOK' /\ (is_empty => head = last)'
         /\ Contents' = W!Enqueue(Contents, t, discipline, Prio)
<1>0. /\ N \in Nat \ {0} /\ N0 \in 0..N - 1 /\ Len(Contents) = N0
      /\ Contents \in Seq(Threads) /\ Prio \in [Threads -> Nat]
      /\ head \in Slots /\ last \in Slots
      /\ buffer \in [Slots -> Threads \union {Nobody}]
  BY RingAssumption, Room, ContentsAt DEF IInv, TypeOK
<1>1. PICK m \in 0..N0 : /\ InsertSlot(t) = Slot(head, m)
                         /\ W!InsertPosition(Contents, t, Prio) = m + 1
  BY <1>0, SearchEnds
<1>2. m \in 0..N - 1 /\ Slot(head, m) \in Slots BY <1>0, Places
<1>3. buffer' = [j \in Slots |->
        IF j = Slot(head, m) THEN t
        ELSE IF Behind(Slot(head, m), j) <= Behind(Slot(head, m), last)
             THEN buffer[Plus(j, -1)] ELSE buffer[j]]
  BY <1>1 DEF EnqueuePriority
<1>4. last = Slot(head, N0)
  BY <1>0, CountBounds DEF IInv, TypeOK, N0
<1>5. \A j \in Slots : Behind(Slot(head, m), j) = Gap(Slot(head, m), j)
  BY <1>2, Wraps
<1>6. Behind(Slot(head, m), last) = N0 - m
  <2>1. Gap(Slot(head, m), Slot(head, N0)) = N0 - m
    BY <1>0, <1>2, Places
  <2> QED BY <2>1, <1>0, <1>4, <1>5
<1>7. TypeOK' /\ (is_empty => head = last)'
  <2>1. Plus(last, 1) \in Slots BY <1>0, StaysInRing
  <2>2. \A j \in Slots : Plus(j, -1) \in Slots BY StaysInRing
  <2>3. buffer' \in [Slots -> Threads \union {Nobody}] BY <2>2, <1>0, <1>3
  <2> QED BY <2>1, <2>3 DEF EnqueuePriority, IInv, TypeOK
<1>8. ASSUME NEW k \in 0..m - 1
      PROVE  buffer'[Slot(head, k)] = buffer[Slot(head, k)]
  <2>1. k \in 0..N - 1 /\ k < m BY <1>0
  <2>2. /\ Slot(head, k) \in Slots /\ Slot(head, k) # Slot(head, m)
        /\ Gap(Slot(head, m), Slot(head, k)) = k - m + N
    BY <2>1, <1>0, <1>2, Places
  <2>3. ~ (k - m + N <= N0 - m) BY <2>1, <1>0
  <2> QED BY <2>2, <2>3, <1>3, <1>5, <1>6
<1>9. buffer'[Slot(head, m)] = t BY <1>2, <1>3
<1>10. ASSUME NEW k \in m..N0 - 1
       PROVE  buffer'[Slot(head, k + 1)] = buffer[Slot(head, k)]
  <2>1. /\ k + 1 \in 0..N - 1 /\ k \in 0..N - 1 /\ m < k + 1 /\ k + 1 > 0
        /\ (k + 1) - 1 = k /\ k + 1 - m <= N0 - m
    BY <1>0
  <2>2. /\ Slot(head, k + 1) \in Slots /\ Slot(head, k + 1) # Slot(head, m)
        /\ Gap(Slot(head, m), Slot(head, k + 1)) = k + 1 - m
    BY <2>1, <1>0, <1>2, Places
  <2>3. Plus(Slot(head, k + 1), -1) = Slot(head, k)
    BY <2>1, <1>0, Neighbours
  <2> QED BY <2>1, <2>2, <2>3, <1>3, <1>5, <1>6
<1>11. Contents' \in Seq(Threads) /\ W!InsertedAt(Contents, t, m + 1, Contents')
  <2>1. /\ ~ is_empty' /\ head' = head /\ last' = Plus(last, 1) /\ N0 < N
    BY <1>0 DEF EnqueuePriority
  <2> QED BY <2>1, <1>7, <1>8, <1>9, <1>10, InsertsAt
<1>12. PICK i \in 1..Len(Contents) + 1 :
         /\ W!Enqueue(Contents, t, discipline, Prio) \in Seq(Threads)
         /\ i = W!InsertPosition(Contents, t, Prio)
         /\ W!InsertedAt(Contents, t, i,
                         W!Enqueue(Contents, t, discipline, Prio))
  <2>1. discipline # "FIFO" BY DEF EnqueuePriority
  <2> QED BY <2>1, <1>0, W!EnqueueShape
<1> QED BY <1>0, <1>1, <1>7, <1>11, <1>12, OneResult

LEMMA DequeueStep ==
  ASSUME IInv, Dequeue
  PROVE  /\ TypeOK' /\ (is_empty => head = last)'
         /\ Contents # <<>> /\ Contents' = Tail(Contents)
<1>0. /\ N \in Nat \ {0} /\ N0 \in 1..N /\ Len(Contents) = N0
      /\ Contents \in Seq(Threads)
      /\ head \in Slots /\ last \in Slots
      /\ head \in 0..N - 1 /\ last \in 0..N - 1
  <2>1. N0 # 0 BY RingAssumption DEF Dequeue, IInv, TypeOK, N0, Count, Between, Gap, Slots
  <2> QED BY <2>1, RingAssumption, ContentsAt DEF IInv, TypeOK, Slots
<1>1. head' = Plus(head, 1) /\ head' = IF head + 1 < N THEN head + 1 ELSE 0
  BY <1>0, Wraps DEF Dequeue
<1>2. TypeOK' /\ (is_empty => head = last)'
  <2>1. Plus(head, 1) \in Slots BY <1>0, StaysInRing
  <2> QED BY <2>1 DEF Dequeue, IInv, TypeOK
<1>3. Count(head', last', is_empty') = N0 - 1
  <2>1. ~ is_empty /\ last' = last /\ (is_empty' <=> last = head')
    BY DEF Dequeue
  <2>2. N0 = Between(head, last) BY <2>1 DEF N0, Count
  <2>3. head' \in Slots /\ is_empty' \in BOOLEAN BY <1>2 DEF TypeOK
  <2>4. Between(head, last) > 0 BY <2>2, <1>0
  <2>5. Count(head', last, is_empty') = Between(head, last) - 1
    BY <2>1, <2>3, <2>4, <1>0, <1>1, OneFewer
  <2> QED BY <2>1, <2>2, <2>5
<1>4. ASSUME NEW k \in 1..N0 - 1
      PROVE  buffer'[Slot(head', k - 1)] = Contents[k + 1]
  <2>1. /\ k - 1 \in 0..N - 1 /\ k - 1 < N - 1 /\ (k - 1) + 1 = k
        /\ k + 1 \in 1..N0 /\ (k + 1) - 1 = k
    BY <1>0
  <2>2. Slot(head', k - 1) = Slot(head, k) BY <2>1, <1>0, <1>1, Neighbours
  <2>3. Contents[k + 1] = buffer[Slot(head, k)] BY <2>1, ContentsAt
  <2> QED BY <2>2, <2>3 DEF Dequeue
<1>5. Contents' \in Seq(Threads) /\ W!RemovedAt(Contents, 1, Contents')
  <2>1. \A k \in 1..N0 - 1 :
          buffer'[Slot(head', k - 1)] = IF k < 1 THEN Contents[k]
                                                 ELSE Contents[k + 1]
    BY <1>0, <1>4
  <2>2. 1 \in 1..N0 /\ N0 > 0 BY <1>0
  <2> QED BY <2>1, <2>2, <1>2, <1>3, RemovesAt
<1>6. /\ Contents # <<>> /\ Tail(Contents) \in Seq(Threads)
      /\ Len(Tail(Contents)) = N0 - 1
      /\ \A k \in 1..N0 - 1 : Tail(Contents)[k] = Contents[k + 1]
  <2>1. Contents # <<>> BY <1>0, EmptySeq
  <2> QED BY <2>1, <1>0, HeadTailProperties
<1>7. W!RemovedAt(Contents, 1, Tail(Contents))
  <2>1. \A k \in 1..N0 - 1 : ~ (k < 1) BY <1>0
  <2> QED BY <2>1, <1>0, <1>6 DEF W!RemovedAt
<1>8. 1 \in 1..Len(Contents) + 1 BY <1>0
<1> QED BY <1>0, <1>2, <1>5, <1>6, <1>7, <1>8, OneResult

LEMMA RemoveThreadStep ==
  ASSUME IInv, NEW t \in Threads, RemoveThread(t)
  PROVE  /\ TypeOK' /\ (is_empty => head = last)'
         /\ t \in W!ToSet(Contents)
         /\ Contents' = W!RemoveThread(Contents, t)
<1> DEFINE found == {j \in Used : buffer[Plus(head, j)] = t}
           m == Min(found)
<1>0. /\ N \in Nat \ {0} /\ N0 \in 0..N /\ Len(Contents) = N0
      /\ Contents \in Seq(Threads)
      /\ head \in Slots /\ last \in Slots
      /\ head \in 0..N - 1 /\ last \in 0..N - 1
      /\ buffer \in [Slots -> Threads \union {Nobody}]
  BY RingAssumption, ContentsAt DEF IInv, TypeOK, Slots
<1>1. m \in found
  <2>1. found \subseteq Nat /\ found # {}
    <3>1. Used = 0..N0 - 1 BY ContentsAt
    <3> QED BY <1>0, <3>1 DEF RemoveThread
  <2> HIDE DEF found
  <2>2. \E x \in found : \A y \in found : x <= y BY <2>1, W!LeastElement
  <2> QED BY <2>2 DEF Min
<1>2. m \in 0..N0 - 1 /\ Contents[m + 1] = t
  BY <1>1, ContentsAt
<1>3. m \in 0..N - 1 /\ Slot(head, m) \in Slots /\ Plus(head, m) = Slot(head, m)
      /\ N0 > 0 /\ N0 - 1 \in 0..N - 1 /\ m + 1 \in 1..N0
  <2> HIDE DEF m
  <2> QED BY <1>0, <1>2, Wraps
<1>4. /\ last' = Plus(last, -1) /\ is_empty' = (last' = head) /\ head' = head
      /\ buffer' = [j \in Slots |->
           IF Behind(Slot(head, m), j) < Behind(Slot(head, m), last')
           THEN buffer[Plus(j, 1)] ELSE buffer[j]]
  BY <1>3 DEF RemoveThread
<1> HIDE DEF m
<1>5. TypeOK' /\ (is_empty => head = last)'
  <2>1. last' \in Slots BY <1>0, <1>4, StaysInRing
  <2>2. \A j \in Slots : Plus(j, 1) \in Slots BY StaysInRing
  <2>3. buffer' \in [Slots -> Threads \union {Nobody}] BY <2>2, <1>0, <1>4
  <2> QED BY <2>1, <2>3, <1>4 DEF RemoveThread, IInv, TypeOK
<1>6. last' = Slot(head, N0 - 1) /\ Count(head', last', is_empty') = N0 - 1
  <2>1. N0 = Between(head, last) BY <1>0, <1>3 DEF N0, Count
  <2>2. last' \in Slots /\ is_empty' \in BOOLEAN BY <1>5 DEF TypeOK
  <2>3. last' = IF last = 0 THEN N - 1 ELSE last - 1 BY <1>0, <1>4, Wraps
  <2>4. is_empty' <=> last' = head BY <1>4
  <2>5. Between(head, last) > 0 BY <2>1, <1>3
  <2>6. /\ Count(head, last', is_empty') = Between(head, last) - 1
        /\ last' = Slot(head, Between(head, last) - 1)
    BY <2>2, <2>3, <2>4, <2>5, <1>0, OneFewer
  <2> QED BY <2>1, <2>6, <1>4
<1>7. \A k \in 0..N - 1 : Behind(Slot(head, m), Slot(head, k)) =
                            IF m <= k THEN k - m ELSE k - m + N
  <2>1. ASSUME NEW k \in 0..N - 1
        PROVE  Behind(Slot(head, m), Slot(head, k)) =
                 IF m <= k THEN k - m ELSE k - m + N
    <3>1. Slot(head, k) \in Slots BY <1>0, Places
    <3>2. Behind(Slot(head, m), Slot(head, k)) = Gap(Slot(head, m), Slot(head, k))
      BY <3>1, <1>3, Wraps
    <3> QED BY <3>2, <1>0, <1>3, Places
  <2> QED BY <2>1
<1>8. Behind(Slot(head, m), last') = N0 - 1 - m
  <2>1. m <= N0 - 1 BY <1>0, <1>2
  <2> QED BY <2>1, <1>3, <1>6, <1>7
<1>9. ASSUME NEW k \in 1..N0 - 1
      PROVE  buffer'[Slot(head, k - 1)] = IF k < m + 1 THEN Contents[k]
                                                       ELSE Contents[k + 1]
  <2>1. /\ k - 1 \in 0..N - 1 /\ k - 1 < N - 1 /\ (k - 1) + 1 = k
        /\ k \in 1..N0 /\ k + 1 \in 1..N0 /\ (k + 1) - 1 = k
    BY <1>0
  <2>2. Slot(head, k - 1) \in Slots BY <2>1, <1>0, Places
  <2>3. CASE k < m + 1
    <3>1. ~ (m <= k - 1) /\ ~ (k - 1 - m + N < N0 - 1 - m)
      BY <2>3, <1>0, <1>3
    <3>2. buffer'[Slot(head, k - 1)] = buffer[Slot(head, k - 1)]
      BY <2>1, <2>2, <3>1, <1>4, <1>7, <1>8
    <3> QED BY <2>1, <2>3, <3>2, ContentsAt
  <2>4. CASE ~ (k < m + 1)
    <3>1. m <= k - 1 /\ k - 1 - m < N0 - 1 - m
      BY <2>4, <1>0, <1>3
    <3>2. buffer'[Slot(head, k - 1)] = buffer[Plus(Slot(head, k - 1), 1)]
      BY <2>1, <2>2, <3>1, <1>4, <1>7, <1>8
    <3>3. Plus(Slot(head, k - 1), 1) = Slot(head, k)
      BY <2>1, <1>0, Neighbours
    <3> QED BY <2>1, <2>4, <3>2, <3>3, ContentsAt
  <2> QED BY <2>3, <2>4
<1>10. Contents' \in Seq(Threads) /\ W!RemovedAt(Contents, m + 1, Contents')
  BY <1>3, <1>4, <1>5, <1>6, <1>9, RemovesAt
<1>11. t \in W!ToSet(Contents)
  <2>1. m \in Used /\ buffer[Plus(head, m)] = t BY <1>1
  <2> QED BY <2>1, WaitingIsQueued DEF Waiting
<1>12. PICK i \in 1..Len(Contents) :
         /\ W!RemoveThread(Contents, t) \in Seq(Threads)
         /\ Contents[i] = t
         /\ W!RemovedAt(Contents, i, W!RemoveThread(Contents, t))
  BY <1>0, <1>11, W!RemoveShape
<1>13. i = m + 1 BY <1>0, <1>2, <1>3, <1>12, ContentsAt
<1>14. m + 1 \in 1..Len(Contents) + 1 BY <1>0, <1>3
<1> QED BY <1>0, <1>5, <1>10, <1>11, <1>12, <1>13, <1>14, OneResult
-----------------------------------------------------------------------------
(* Every step keeps the invariant and is a step of the abstract queue.     *)
LEMMA StepSimulates ==
  ASSUME IInv, [Next]_vars
  PROVE  IInv' /\ [Queue!Next]_<<discipline, Contents>>
<1>0. Contents \in Seq(Threads) /\ W!Distinct(Contents) /\ Prio \in [Threads -> Nat]
  BY RingAssumption DEF IInv
<1>1. CASE UNCHANGED vars
  <2>1. Contents' = Contents BY <1>1 DEF vars, Contents, Used
  <2>2. TypeOK' /\ (is_empty => head = last)' BY <1>1 DEF vars, IInv, TypeOK
  <2>3. IInv' BY <2>1, <2>2, <1>0 DEF IInv, W!Distinct
  <2> QED BY <2>1, <2>3, <1>1 DEF vars
<1>2. ASSUME NEW t \in Threads, ~ Waiting(t), EnqueueFifo(t) \/ EnqueuePriority(t)
      PROVE  IInv' /\ Queue!Next
  <2>1. /\ TypeOK' /\ (is_empty => head = last)'
        /\ Contents' = W!Enqueue(Contents, t, discipline, Prio)
    BY <1>2, EnqueueFifoStep, EnqueuePriorityStep
  <2>2. t \notin W!ToSet(Contents) BY <1>2, Room
  <2>3. Contents' \in Seq(Threads) /\ W!Distinct(Contents')
    BY <2>1, <2>2, <1>0, W!EnqueueProperties
  <2>4. IInv' BY <2>1, <2>3 DEF IInv, W!Distinct
  <2>5. Queue!Enter
    BY <2>1, <2>2, SameOperations DEF Queue!Enter
  <2>6. UNCHANGED discipline BY <1>2 DEF EnqueueFifo, EnqueuePriority
  <2> QED BY <2>4, <2>5, <2>6 DEF Queue!Next
<1>3. ASSUME NEW t \in Threads, RemoveThread(t) PROVE IInv' /\ Queue!Next
  <2>1. /\ TypeOK' /\ (is_empty => head = last)'
        /\ t \in W!ToSet(Contents)
        /\ Contents' = W!RemoveThread(Contents, t)
    BY <1>3, RemoveThreadStep
  <2>2. Contents' \in Seq(Threads) /\ W!Distinct(Contents')
    BY <2>1, <1>0, W!RemoveProperties
  <2>3. IInv' BY <2>1, <2>2 DEF IInv, W!Distinct
  <2>4. Queue!GiveUp BY <2>1, SameOperations DEF Queue!GiveUp
  <2>5. UNCHANGED discipline BY <1>3 DEF RemoveThread
  <2> QED BY <2>3, <2>4, <2>5 DEF Queue!Next
<1>4. CASE Dequeue
  <2>1. /\ TypeOK' /\ (is_empty => head = last)'
        /\ Contents # <<>> /\ Contents' = Tail(Contents)
    BY <1>4, DequeueStep
  <2>2. Contents' \in Seq(Threads) /\ W!Distinct(Contents')
    BY <2>1, <1>0, W!DequeueProperties
  <2>3. IInv' BY <2>1, <2>2 DEF IInv, W!Distinct
  <2>4. Queue!LeaveFirst BY <2>1 DEF Queue!LeaveFirst
  <2>5. UNCHANGED discipline BY <1>4 DEF Dequeue
  <2> QED BY <2>3, <2>4, <2>5 DEF Queue!Next
<1> QED BY <1>1, <1>2, <1>3, <1>4 DEF Next

LEMMA StartsEmpty == Init => IInv /\ Queue!Init
<1> SUFFICES ASSUME Init PROVE IInv /\ Queue!Init
  OBVIOUS
<1>0. N \in Nat \ {0} /\ 0 \in Slots BY RingAssumption DEF Slots
<1>1. TypeOK /\ (is_empty => head = last) BY <1>0 DEF Init, TypeOK
<1>2. Contents = <<>>
  <2>1. N0 = 0 BY DEF Init, N0, Count
  <2>2. Contents = [k \in 1..0 |-> buffer[Slot(head, k - 1)]]
    BY <1>1, <2>1, ContentsShape DEF ContentsOf, N0
  <2> QED BY <2>2
<1>3. IInv BY <1>1, <1>2, W!EmptyQueue DEF IInv
<1>4. Queue!Init BY <1>2 DEF Init, Queue!Init, Queue!Disciplines
<1> QED BY <1>3, <1>4

(* In every state the slots between head and last hold different threads   *)
(* of the system, and head and last meet only in an empty or a full ring   *)
(* (pok_lockobj_fifo_t's head, last and is_empty).                         *)
THEOREM RingInvariant == Spec => []IInv
<1>1. Init => IInv BY StartsEmpty
<1>2. IInv /\ [Next]_vars => IInv' BY StepSimulates
<1> QED BY <1>1, <1>2, PTL DEF Spec

(* Whatever wraps around, fills up or leaves from the middle, the ring is  *)
(* the queue ThreadQueue describes: pok_lockobj_fifo_enqueue, _dequeue and *)
(* _remove_thread never lose, repeat or misplace a thread, and the         *)
(* insertion by priority, which has no test for a full ring, needs none.   *)
THEOREM RingIsQueue == Spec => ImplementsQueue
<1>1. Init => IInv /\ Queue!Init BY StartsEmpty
<1>2. IInv /\ [Next]_vars => IInv' /\ [Queue!Next]_<<discipline, Contents>>
  BY StepSimulates
<1> QED BY <1>1, <1>2, PTL DEF Spec, ImplementsQueue, Queue!Spec
=============================================================================
