-------------------------- MODULE WaitQueueProofs --------------------------
(***************************************************************************)
(* What the operations on wait queues return, for every queue, thread and  *)
(* assignment of priorities.                                               *)
(***************************************************************************)
EXTENDS WaitQueue, SequenceTheorems, WellFoundedInduction, TLAPS

Less == {p \in Nat \X Nat : p[1] < p[2]}

(* The order of the natural numbers is well founded.                       *)
LEMMA LessWellFounded == IsWellFoundedOn(Less, Nat)
<1>1. OpToRel(<, Nat) = Less
  BY Zenon DEF OpToRel, Less
<1> QED
  BY <1>1, NatLessThanWellFounded, Zenon

(* A set of natural numbers has a least element.                           *)
LEMMA LeastElement ==
  ASSUME NEW T, T \subseteq Nat, T # {}
  PROVE  \E x \in T : \A y \in T : x <= y
<1>1. PICK x \in T : \A y \in T : ~ (<<y, x>> \in Less)
  BY LessWellFounded, WFMin, Zenon
<1>2. ASSUME NEW y \in T PROVE x <= y
  <2>1. <<y, x>> \notin Less BY <1>1
  <2>2. ~ (y < x) BY <2>1 DEF Less
  <2> QED BY <2>2
<1> QED BY <1>2

(* The search of a priority queue ends, within the queue or just behind.   *)
LEMMA InsertPositionInRange ==
  ASSUME NEW S, NEW q \in Seq(S), NEW t \in S, NEW prio \in [S -> Nat]
  PROVE  /\ InsertPosition(q, t, prio) \in 1..Len(q) + 1
         /\ \A j \in 1..InsertPosition(q, t, prio) - 1 : prio[t] <= prio[q[j]]
         /\ InsertPosition(q, t, prio) <= Len(q) =>
              prio[q[InsertPosition(q, t, prio)]] < prio[t]
<1> DEFINE Stop == {i \in 1..Len(q) + 1 : i <= Len(q) => prio[q[i]] < prio[t]}
<1>1. Len(q) \in Nat /\ Len(q) + 1 \in Stop
  BY LenProperties
<1>2. PICK i \in Stop : \A k \in Stop : i <= k
  <2>1. Stop \subseteq Nat /\ Stop # {} BY <1>1
  <2> QED BY <2>1, LeastElement
<1>3. \A j \in 1..i - 1 : prio[t] <= prio[q[j]]
  <2> SUFFICES ASSUME NEW j \in 1..i - 1 PROVE prio[t] <= prio[q[j]]
    OBVIOUS
  <2>1. j \notin Stop /\ j \in 1..Len(q) BY <1>1, <1>2
  <2>2. q[j] \in S BY <2>1, ElementOfSeq
  <2> QED BY <2>1, <2>2
<1> QED BY <1>2, <1>3 DEF InsertPosition

(* Membership of a queue, by positions.                                    *)
LEMMA Members ==
  ASSUME NEW S, NEW q \in Seq(S)
  PROVE  /\ Len(q) \in Nat
         /\ \A k \in 1..Len(q) : q[k] \in S /\ q[k] \in ToSet(q)
         /\ \A x \in ToSet(q) : \E k \in 1..Len(q) : x = q[k]
         /\ ToSet(q) \subseteq S
<1>1. DOMAIN q = 1..Len(q) /\ Len(q) \in Nat
  BY LenProperties
<1>2. \A k \in 1..Len(q) : q[k] \in S
  BY ElementOfSeq
<1> QED BY <1>1, <1>2 DEF ToSet

(* r is q with t put in at position i, and q without its position i.       *)
InsertedAt(q, t, i, r) ==
  /\ Len(r) = Len(q) + 1 /\ r[i] = t
  /\ \A k \in 1..i - 1 : r[k] = q[k]
  /\ \A k \in i..Len(q) : r[k + 1] = q[k]

RemovedAt(q, i, r) ==
  /\ Len(r) = Len(q) - 1
  /\ \A k \in 1..Len(q) - 1 : r[k] = IF k < i THEN q[k] ELSE q[k + 1]

(* A sequence that differs from q by t at position i.                      *)
LEMMA InsertionProperties ==
  ASSUME NEW S, NEW q \in Seq(S), NEW t \in S, NEW i \in 1..Len(q) + 1,
         NEW r \in Seq(S), InsertedAt(q, t, i, r)
  PROVE  /\ ToSet(r) = ToSet(q) \union {t}
         /\ Distinct(q) /\ t \notin ToSet(q) => Distinct(r)
<1> USE DEF InsertedAt
<1> DEFINE n == Len(q)
<1>1. n \in Nat /\ i \in Nat
  BY Members
<1>2. ASSUME NEW k \in 1..n + 1
      PROVE  \/ k < i /\ k \in 1..n /\ r[k] = q[k]
             \/ k = i /\ r[k] = t
             \/ k > i /\ k - 1 \in 1..n /\ r[k] = q[k - 1]
  <2>1. CASE k < i BY <2>1, <1>1
  <2>2. CASE k = i BY <2>2
  <2>3. CASE k > i
    <3>1. k - 1 \in i..n /\ k - 1 \in 1..n /\ (k - 1) + 1 = k
      BY <2>3, <1>1
    <3> QED BY <3>1, <2>3
  <2> QED BY <2>1, <2>2, <2>3, <1>1
<1>3. ASSUME NEW x \in ToSet(r) PROVE x \in ToSet(q) \union {t}
  <2>1. PICK k \in 1..n + 1 : x = r[k] BY Members
  <2>2. \/ k \in 1..n /\ r[k] = q[k]
        \/ r[k] = t
        \/ k - 1 \in 1..n /\ r[k] = q[k - 1]
    BY <1>2
  <2> QED BY <2>1, <2>2, Members
<1>4. ASSUME NEW x \in ToSet(q) PROVE x \in ToSet(r)
  <2>1. PICK k \in 1..n : x = q[k] BY Members
  <2>2. CASE k < i
    <3>1. k \in 1..Len(r) /\ r[k] = q[k] BY <2>2, <1>1
    <3> QED BY <3>1, <2>1, Members
  <2>3. CASE ~ (k < i)
    <3>1. k \in i..n /\ k + 1 \in 1..Len(r) BY <2>3, <1>1
    <3>2. r[k + 1] = q[k] BY <3>1
    <3> QED BY <3>1, <3>2, <2>1, Members
  <2> QED BY <2>2, <2>3
<1>5. t \in ToSet(r)
  <2>1. i \in 1..Len(r) BY <1>1
  <2> QED BY <2>1, Members
<1>6. ASSUME Distinct(q), t \notin ToSet(q) PROVE Distinct(r)
  <2>1. \A k \in 1..n : q[k] # t BY <1>6, Members
  <2>2. ASSUME NEW j \in 1..n + 1, NEW k \in 1..n + 1, r[j] = r[k]
        PROVE  j = k
    <3>1. \A a, b \in 1..n : q[a] = q[b] => a = b BY <1>6 DEF Distinct
    <3>2. /\ \/ k < i /\ k \in 1..n /\ r[k] = q[k]
             \/ k = i /\ r[k] = t
             \/ k > i /\ k - 1 \in 1..n /\ r[k] = q[k - 1]
          /\ \/ j < i /\ j \in 1..n /\ r[j] = q[j]
             \/ j = i /\ r[j] = t
             \/ j > i /\ j - 1 \in 1..n /\ r[j] = q[j - 1]
      BY <1>2
    <3>3. CASE j < i BY <3>1, <3>2, <3>3, <2>1, <2>2, <1>1
    <3>4. CASE j = i BY <3>1, <3>2, <3>4, <2>1, <2>2, <1>1
    <3>5. CASE j > i
      <4>1. j - 1 \in 1..n /\ r[j] = q[j - 1] BY <3>2, <3>5, <1>1
      <4>2. ~ (k = i) BY <4>1, <3>2, <2>1, <2>2
      <4>3. CASE k < i
        <5>1. k \in 1..n /\ r[k] = q[k] BY <4>3, <3>2, <1>1
        <5>2. q[k] = q[j - 1] BY <5>1, <4>1, <2>2
        <5>3. k = j - 1 BY <5>1, <5>2, <4>1, <3>1
        <5> QED BY <5>3, <4>3, <3>5, <1>1
      <4>4. CASE k > i
        <5>1. k - 1 \in 1..n /\ r[k] = q[k - 1] BY <4>4, <3>2, <1>1
        <5>2. q[k - 1] = q[j - 1] BY <5>1, <4>1, <2>2
        <5>3. k - 1 = j - 1 BY <5>1, <5>2, <4>1, <3>1
        <5> QED BY <5>3, <1>1
      <4> QED BY <4>2, <4>3, <4>4, <1>1
    <3> QED BY <3>3, <3>4, <3>5, <1>1
  <2> QED BY <2>2 DEF Distinct
<1> QED BY <1>3, <1>4, <1>5, <1>6

(* Enqueueing puts the thread at one position and moves those behind it by *)
(* one; in a priority queue it is the position the search ends at.         *)
LEMMA EnqueueShape ==
  ASSUME NEW S, NEW q \in Seq(S), NEW t \in S, NEW prio \in [S -> Nat],
         NEW d, NEW r, r = Enqueue(q, t, d, prio)
  PROVE  /\ r \in Seq(S)
         /\ \E i \in 1..Len(q) + 1 :
              /\ d # "FIFO" => i = InsertPosition(q, t, prio)
              /\ InsertedAt(q, t, i, r)
<1> DEFINE n == Len(q)
<1>0. n \in Nat /\ \A k \in 1..n : q[k] \in S
  BY Members
<1>1. CASE d = "FIFO"
  <2> DEFINE i == n + 1
  <2>1. /\ r \in Seq(S) /\ Len(r) = n + 1
        /\ \A k \in 1..n : r[k] = q[k]
        /\ r[n + 1] = t
    BY <1>0, <1>1 DEF Enqueue
  <2>2. /\ i \in 1..n + 1 /\ r[i] = t
        /\ \A k \in 1..i - 1 : r[k] = q[k]
        /\ \A k \in i..n : r[k + 1] = q[k]
    BY <2>1, <1>0
  <2>3. InsertedAt(q, t, i, r) BY <2>1, <2>2 DEF InsertedAt
  <2> QED BY <2>1, <2>2, <2>3, <1>1
<1>2. CASE d # "FIFO"
  <2> DEFINE i == InsertPosition(q, t, prio)
             a == SubSeq(q, 1, i - 1)
             b == SubSeq(q, i, n)
             c == a \o <<t>>
             e == c \o b
  <2>0. r = e BY <1>2 DEF Enqueue, InsertAt
  <2>1. i \in 1..n + 1 BY InsertPositionInRange
  <2> HIDE DEF i
  <2>2. /\ a \in Seq(S) /\ Len(a) = i - 1
        /\ \A k \in 1..i - 1 : a[k] = q[k]
    BY <2>1, <1>0, SubSeqProperties
  <2>3. /\ b \in Seq(S) /\ Len(b) = n - i + 1
        /\ \A k \in 1..n - i + 1 : b[k] = q[i + k - 1]
    BY <2>1, <1>0, SubSeqProperties
  <2> HIDE DEF a, b
  <2>4. /\ c \in Seq(S) /\ Len(c) = i
        /\ \A k \in 1..i - 1 : c[k] = q[k]
        /\ c[i] = t
    <3>1. /\ <<t>> \in Seq(S) /\ Len(<<t>>) = 1 /\ <<t>>[1] = t
          /\ (i - 1) + 1 = i /\ i - (i - 1) = 1 /\ ~ (i <= i - 1)
      BY <2>1, <1>0
    <3> DEFINE u == <<t>>
    <3> HIDE DEF u
    <3>2. /\ c \in Seq(S) /\ Len(c) = Len(a) + Len(u)
          /\ \A k \in 1..Len(a) + Len(u) :
               c[k] = IF k <= Len(a) THEN a[k] ELSE u[k - Len(a)]
      BY <2>2, <3>1, ConcatProperties DEF u
    <3> HIDE DEF c
    <3>3. /\ u[1] = t /\ Len(u) = 1 BY <3>1 DEF u
    <3>4. \A k \in 1..i - 1 : k \in 1..i /\ k <= i - 1 BY <2>1, <1>0
    <3>5. i \in 1..i /\ 1 \in Nat BY <2>1, <1>0
    <3>6. Len(c) = i /\ Len(a) + Len(u) = i BY <3>1, <3>2, <3>3, <2>2
    <3>7. ASSUME NEW k \in 1..i - 1 PROVE c[k] = q[k]
      <4>1. c[k] = a[k] BY <3>2, <3>4, <3>6, <2>2
      <4> QED BY <4>1, <2>2
    <3>8. c[i] = u[i - Len(a)] BY <3>1, <3>2, <3>5, <3>6, <2>2
    <3>9. c[i] = t BY <3>1, <3>3, <3>8, <2>2
    <3> QED BY <3>2, <3>6, <3>7, <3>9
  <2> HIDE DEF c
  <2>5. /\ r \in Seq(S) /\ Len(r) = n + 1
        /\ \A k \in 1..n + 1 : r[k] = IF k <= i THEN c[k] ELSE b[k - i]
    <3>1. Len(c) = i /\ Len(b) = n - i + 1 /\ i + (n - i + 1) = n + 1
      BY <2>1, <2>3, <2>4, <1>0
    <3>2. /\ e \in Seq(S) /\ Len(e) = Len(c) + Len(b)
          /\ \A k \in 1..Len(c) + Len(b) :
               e[k] = IF k <= Len(c) THEN c[k] ELSE b[k - Len(c)]
      BY <2>3, <2>4, ConcatProperties
    <3> HIDE DEF e
    <3> QED BY <2>0, <3>1, <3>2
  <2>6. \A k \in 1..i - 1 : r[k] = q[k]
    BY <2>1, <2>4, <2>5, <1>0
  <2>7. r[i] = t
    BY <2>1, <2>4, <2>5, <1>0
  <2>8. ASSUME NEW k \in i..n PROVE r[k + 1] = q[k]
    <3>1. k + 1 \in 1..n + 1 /\ ~ (k + 1 <= i) /\ (k + 1) - i \in 1..n - i + 1
      BY <2>1, <1>0
    <3>2. r[k + 1] = b[(k + 1) - i] BY <3>1, <2>5
    <3>3. b[(k + 1) - i] = q[i + ((k + 1) - i) - 1] BY <3>1, <2>3
    <3>4. i + ((k + 1) - i) - 1 = k BY <2>1, <1>0
    <3> QED BY <3>2, <3>3, <3>4
  <2>9. i = InsertPosition(q, t, prio) BY DEF i
  <2>10. InsertedAt(q, t, i, r) BY <2>5, <2>6, <2>7, <2>8 DEF InsertedAt
  <2> QED BY <2>1, <2>5, <2>9, <2>10
<1> QED BY <1>1, <1>2

(* Enqueueing adds the thread, loses nobody and duplicates nobody.         *)
LEMMA EnqueueProperties ==
  ASSUME NEW S, NEW q \in Seq(S), NEW t \in S, NEW prio \in [S -> Nat],
         NEW d
  PROVE  /\ Enqueue(q, t, d, prio) \in Seq(S)
         /\ ToSet(Enqueue(q, t, d, prio)) = ToSet(q) \union {t}
         /\ Distinct(q) /\ t \notin ToSet(q) => Distinct(Enqueue(q, t, d, prio))
<1> DEFINE r == Enqueue(q, t, d, prio)
<1> HIDE DEF r
<1>1. r \in Seq(S) /\ \E i \in 1..Len(q) + 1 : InsertedAt(q, t, i, r)
  BY EnqueueShape DEF r
<1>2. /\ ToSet(r) = ToSet(q) \union {t}
      /\ Distinct(q) /\ t \notin ToSet(q) => Distinct(r)
  BY <1>1, InsertionProperties
<1> QED BY <1>1, <1>2 DEF r

(* Removing a thread that is queued takes out one position, and those      *)
(* behind it move up.                                                      *)
LEMMA RemoveShape ==
  ASSUME NEW S, NEW q \in Seq(S), NEW t, NEW r, r = RemoveThread(q, t)
  PROVE  \/ r = q /\ t \notin ToSet(q)
         \/ /\ r \in Seq(S)
            /\ \E i \in 1..Len(q) : q[i] = t /\ RemovedAt(q, i, r)
<1> DEFINE n == Len(q)
<1>0. n \in Nat /\ \A k \in 1..n : q[k] \in S
  BY Members
<1>1. CASE ~ \E k \in 1..n : q[k] = t
  <2>1. r = q BY <1>1 DEF RemoveThread, RemoveFirst
  <2>2. t \notin ToSet(q) BY <1>1, Members
  <2> QED BY <2>1, <2>2
<1>2. CASE \E k \in 1..n : q[k] = t
  <2> DEFINE I == {k \in 1..n : q[k] = t}
             i == Min(I)
             a == SubSeq(q, 1, i - 1)
             b == SubSeq(q, i + 1, n)
             e == a \o b
  <2>1. i \in I
    <3>1. I \subseteq Nat /\ I # {} BY <1>0, <1>2
    <3>2. \E x \in I : \A y \in I : x <= y BY <3>1, LeastElement
    <3> HIDE DEF I
    <3> QED BY <3>2 DEF Min
  <2>2. r = e
    BY <1>2, <2>1 DEF RemoveThread, RemoveFirst, RemoveAt, SelectInSeq
  <2> HIDE DEF i
  <2>3. i \in 1..n /\ q[i] = t BY <2>1
  <2>4. /\ a \in Seq(S) /\ Len(a) = i - 1
        /\ \A k \in 1..i - 1 : a[k] = q[k]
    BY <2>3, <1>0, SubSeqProperties
  <2>5. /\ b \in Seq(S) /\ Len(b) = n - i
        /\ \A k \in 1..n - i : b[k] = q[k + i]
    <3>1. \A k \in i + 1..n : q[k] \in S BY <2>3, <1>0
    <3>2. /\ b \in Seq(S)
          /\ Len(b) = IF i + 1 <= n THEN n - (i + 1) + 1 ELSE 0
          /\ \A k \in 1..n - (i + 1) + 1 : b[k] = q[(i + 1) + k - 1]
      BY <2>3, <1>0, <3>1, SubSeqProperties
    <3> HIDE DEF b
    <3> QED BY <3>2, <2>3, <1>0
  <2> HIDE DEF a, b
  <2>6. /\ r \in Seq(S) /\ Len(r) = n - 1
        /\ \A k \in 1..n - 1 : r[k] = IF k < i THEN q[k] ELSE q[k + 1]
    <3>0. /\ e \in Seq(S) /\ Len(e) = Len(a) + Len(b)
          /\ \A k \in 1..Len(a) + Len(b) :
               e[k] = IF k <= Len(a) THEN a[k] ELSE b[k - Len(a)]
      BY <2>4, <2>5, ConcatProperties
    <3> HIDE DEF e
    <3>1. /\ r \in Seq(S) /\ Len(r) = Len(a) + Len(b)
          /\ \A k \in 1..Len(a) + Len(b) :
               r[k] = IF k <= Len(a) THEN a[k] ELSE b[k - Len(a)]
      BY <2>2, <3>0
    <3>2. Len(a) + Len(b) = n - 1 BY <2>3, <2>4, <2>5, <1>0
    <3>3. ASSUME NEW k \in 1..n - 1
          PROVE  r[k] = IF k < i THEN q[k] ELSE q[k + 1]
      <4>1. CASE k < i
        <5>1. k \in 1..i - 1 /\ k <= Len(a) BY <4>1, <2>3, <2>4, <1>0
        <5> QED BY <5>1, <4>1, <3>1, <3>2, <2>4
      <4>2. CASE ~ (k < i)
        <5>1. ~ (k <= Len(a)) /\ k - Len(a) = k - (i - 1)
          BY <4>2, <2>3, <2>4, <1>0
        <5>2. k - (i - 1) \in 1..n - i /\ k - (i - 1) + i = k + 1
          BY <4>2, <2>3, <1>0
        <5> QED BY <5>1, <5>2, <4>2, <3>1, <3>2, <2>5
      <4> QED BY <4>1, <4>2
    <3> QED BY <3>1, <3>2, <3>3
  <2>7. RemovedAt(q, i, r) BY <2>6 DEF RemovedAt
  <2> QED BY <2>3, <2>6, <2>7
<1> QED BY <1>1, <1>2

(* Removing a thread takes out that thread and nobody else.                *)
LEMMA RemoveProperties ==
  ASSUME NEW S, NEW q \in Seq(S), NEW t
  PROVE  /\ RemoveThread(q, t) \in Seq(S)
         /\ ToSet(RemoveThread(q, t)) \subseteq ToSet(q)
         /\ ToSet(q) \subseteq ToSet(RemoveThread(q, t)) \union {t}
         /\ Distinct(q) => /\ Distinct(RemoveThread(q, t))
                           /\ t \notin ToSet(RemoveThread(q, t))
<1> DEFINE n == Len(q)
           r == RemoveThread(q, t)
<1> HIDE DEF r
<1>0. n \in Nat /\ \A k \in 1..n : q[k] \in S
  BY Members
<1>1. CASE r = q /\ t \notin ToSet(q)
  BY <1>1 DEF r
<1>2. ASSUME r \in Seq(S), NEW i \in 1..n, q[i] = t, RemovedAt(q, i, r)
      PROVE  /\ ToSet(r) \subseteq ToSet(q)
             /\ ToSet(q) \subseteq ToSet(r) \union {t}
             /\ Distinct(q) => Distinct(r) /\ t \notin ToSet(r)
  <2> USE DEF RemovedAt
  <2>7. ASSUME NEW k \in 1..n - 1
        PROVE  \/ k < i /\ k \in 1..n /\ r[k] = q[k]
               \/ k >= i /\ k + 1 \in 1..n /\ r[k] = q[k + 1]
    <3>1. r[k] = IF k < i THEN q[k] ELSE q[k + 1] BY <1>2
    <3>2. /\ k \in 1..n /\ k + 1 \in 1..n
          /\ k < i \/ (k >= i /\ ~ (k < i))
      BY <1>2, <1>0
    <3> QED BY <3>1, <3>2
  <2>8. ToSet(r) \subseteq ToSet(q)
    <3> SUFFICES ASSUME NEW x \in ToSet(r) PROVE x \in ToSet(q)
      OBVIOUS
    <3>1. PICK k \in 1..n - 1 : x = r[k] BY <1>2, Members
    <3> QED BY <3>1, <2>7, Members
  <2>9. ToSet(q) \subseteq ToSet(r) \union {t}
    <3> SUFFICES ASSUME NEW x \in ToSet(q), x # t PROVE x \in ToSet(r)
      OBVIOUS
    <3>1. PICK k \in 1..n : x = q[k] BY Members
    <3>2. k # i BY <3>1, <1>2
    <3>3. CASE k < i
      <4>1. k \in 1..n - 1 /\ r[k] = q[k] BY <3>3, <1>2, <1>2, <1>0
      <4> QED BY <4>1, <3>1, <1>2, Members
    <3>4. CASE k > i
      <4>1. k - 1 \in 1..n - 1 /\ ~ (k - 1 < i) /\ (k - 1) + 1 = k
        BY <3>4, <1>2, <1>0
      <4>2. r[k - 1] = q[k] BY <4>1, <1>2
      <4> QED BY <4>1, <4>2, <3>1, <1>2, Members
    <3> QED BY <3>2, <3>3, <3>4, <1>2, <1>0
  <2>10. ASSUME Distinct(q) PROVE Distinct(r) /\ t \notin ToSet(r)
    <3>1. \A x, y \in 1..n : q[x] = q[y] => x = y BY <2>10 DEF Distinct
    <3>2. ASSUME NEW x \in 1..n - 1, NEW y \in 1..n - 1, r[x] = r[y]
          PROVE  x = y
      <4>1. /\ \/ x < i /\ x \in 1..n /\ r[x] = q[x]
               \/ x >= i /\ x + 1 \in 1..n /\ r[x] = q[x + 1]
            /\ \/ y < i /\ y \in 1..n /\ r[y] = q[y]
               \/ y >= i /\ y + 1 \in 1..n /\ r[y] = q[y + 1]
        BY <2>7
      <4>2. CASE x < i /\ y < i BY <4>1, <4>2, <3>1, <3>2, <1>2
      <4>3. CASE x < i /\ ~ (y < i)
        <5>1. x = y + 1 BY <4>1, <4>3, <3>1, <3>2, <1>2
        <5> QED BY <5>1, <4>3, <1>2
      <4>4. CASE ~ (x < i) /\ y < i
        <5>1. x + 1 = y BY <4>1, <4>4, <3>1, <3>2, <1>2
        <5> QED BY <5>1, <4>4, <1>2
      <4>5. CASE ~ (x < i) /\ ~ (y < i)
        <5>1. x + 1 = y + 1 BY <4>1, <4>5, <3>1, <3>2, <1>2
        <5> QED BY <5>1
      <4> QED BY <4>2, <4>3, <4>4, <4>5
    <3>3. \A x \in 1..n - 1 : r[x] # t
      <4> SUFFICES ASSUME NEW x \in 1..n - 1, r[x] = t PROVE FALSE
        OBVIOUS
      <4>1. \/ x < i /\ x \in 1..n /\ r[x] = q[x]
            \/ x >= i /\ x + 1 \in 1..n /\ r[x] = q[x + 1]
        BY <2>7
      <4>2. (x = i /\ x < i) \/ (x + 1 = i /\ x >= i)
        BY <4>1, <3>1, <1>2
      <4> QED BY <4>2, <1>2
    <3>4. r \in Seq(S) /\ Len(r) = n - 1 BY <1>2
    <3>5. Distinct(r) BY <3>2, <3>4 DEF Distinct
    <3>6. t \notin ToSet(r)
      <4> SUFFICES ASSUME t \in ToSet(r) PROVE FALSE OBVIOUS
      <4>1. \E k \in 1..Len(r) : t = r[k] BY <3>4, Members
      <4> QED BY <3>3, <3>4, <4>1
    <3> QED BY <3>5, <3>6
  <2> QED BY <2>8, <2>9, <2>10
<1>3. \/ r = q /\ t \notin ToSet(q)
      \/ r \in Seq(S) /\ \E i \in 1..n : q[i] = t /\ RemovedAt(q, i, r)
  BY RemoveShape DEF r
<1> QED BY <1>1, <1>2, <1>3 DEF r

(* Dequeueing takes out the head and nobody else.                          *)
LEMMA DequeueProperties ==
  ASSUME NEW S, NEW q \in Seq(S), q # <<>>
  PROVE  /\ Head(q) \in S /\ Head(q) \in ToSet(q)
         /\ Tail(q) \in Seq(S)
         /\ ToSet(q) = ToSet(Tail(q)) \union {Head(q)}
         /\ Distinct(q) => Distinct(Tail(q)) /\ Head(q) \notin ToSet(Tail(q))
<1> DEFINE n == Len(q)
           r == Tail(q)
<1>1. n \in Nat /\ n >= 1 /\ Head(q) = q[1] /\ Head(q) \in S
  BY EmptySeq, HeadTailProperties, Members
<1>2. /\ r \in Seq(S) /\ Len(r) = n - 1
      /\ \A k \in 1..n - 1 : r[k] = q[k + 1]
  BY HeadTailProperties
<1> HIDE DEF r
<1>3. Head(q) \in ToSet(q)
  <2>1. 1 \in 1..n BY <1>1
  <2> QED BY <2>1, <1>1, Members
<1>4. ASSUME NEW x \in ToSet(r) PROVE x \in ToSet(q)
  <2>1. PICK k \in 1..n - 1 : x = r[k] BY <1>2, Members
  <2>2. k + 1 \in 1..n BY <1>1
  <2> QED BY <2>1, <2>2, <1>2, Members
<1>5. ASSUME NEW x \in ToSet(q), x # Head(q) PROVE x \in ToSet(r)
  <2>1. PICK k \in 1..n : x = q[k] BY Members
  <2>2. k # 1 BY <2>1, <1>1, <1>5
  <2>3. k - 1 \in 1..n - 1 /\ (k - 1) + 1 = k BY <2>2, <1>1
  <2>4. r[k - 1] = x BY <2>1, <2>3, <1>2
  <2> QED BY <2>3, <2>4, <1>2, Members
<1>6. ASSUME Distinct(q) PROVE Distinct(r) /\ Head(q) \notin ToSet(r)
  <2>1. \A x, y \in 1..n : q[x] = q[y] => x = y BY <1>6 DEF Distinct
  <2>2. ASSUME NEW x \in 1..n - 1, NEW y \in 1..n - 1, r[x] = r[y]
        PROVE  x = y
    <3>1. x + 1 \in 1..n /\ y + 1 \in 1..n /\ q[x + 1] = q[y + 1]
      BY <2>2, <1>1, <1>2
    <3>2. x + 1 = y + 1 BY <3>1, <2>1
    <3> QED BY <3>2
  <2>3. \A k \in 1..n - 1 : r[k] # q[1]
    <3> SUFFICES ASSUME NEW k \in 1..n - 1, r[k] = q[1] PROVE FALSE
      OBVIOUS
    <3>1. k + 1 \in 1..n /\ 1 \in 1..n /\ q[k + 1] = q[1] BY <1>1, <1>2
    <3>2. k + 1 = 1 BY <3>1, <2>1
    <3> QED BY <3>2
  <2> QED BY <2>2, <2>3, <1>1, <1>2, Members DEF Distinct
<1> QED BY <1>1, <1>2, <1>3, <1>4, <1>5, <1>6 DEF r

(* The empty queue.                                                        *)
LEMMA EmptyQueue ==
  /\ \A S : <<>> \in Seq(S)
  /\ ToSet(<<>>) = {} /\ Distinct(<<>>)
  /\ \A t : RemoveThread(<<>>, t) = <<>>
<1>1. /\ \A S : <<>> \in Seq(S)
      /\ Len(<<>>) = 0 /\ DOMAIN <<>> = 1..0
  BY EmptySeq, LenProperties
<1>2. 1..0 = {} OBVIOUS
<1> QED BY <1>1, <1>2 DEF ToSet, Distinct, RemoveThread, RemoveFirst

(* A thread that enters a priority queue keeps it sorted.                  *)
LEMMA EnqueueSorted ==
  ASSUME NEW S, NEW q \in Seq(S), NEW t \in S, NEW prio \in [S -> Nat],
         NEW d, d # "FIFO", SortedByPriority(q, prio)
  PROVE  SortedByPriority(Enqueue(q, t, d, prio), prio)
<1> DEFINE n == Len(q)
           r == Enqueue(q, t, d, prio)
           at == InsertPosition(q, t, prio)
<1> HIDE DEF r, at
<1>0. /\ n \in Nat /\ \A k \in 1..n : prio[q[k]] \in Nat
      /\ prio[t] \in Nat
  BY Members
<1>1. PICK i \in 1..n + 1 :
        /\ i = at /\ Len(r) = n + 1 /\ r[i] = t
        /\ \A k \in 1..i - 1 : r[k] = q[k]
        /\ \A k \in i..n : r[k + 1] = q[k]
  <2>1. \E i \in 1..n + 1 : i = at /\ InsertedAt(q, t, i, r)
    BY EnqueueShape DEF r, at
  <2> QED BY <2>1 DEF InsertedAt
<1>2. /\ \A j \in 1..i - 1 : prio[t] <= prio[q[j]]
      /\ i <= n => prio[q[i]] < prio[t]
  BY <1>1, InsertPositionInRange DEF at
<1>3. \A j, k \in 1..n : j <= k => prio[q[k]] <= prio[q[j]]
  BY DEF SortedByPriority
<1>4. \A k \in i..n : prio[q[k]] <= prio[t]
  <2> SUFFICES ASSUME NEW k \in i..n PROVE prio[q[k]] <= prio[t]
    OBVIOUS
  <2>1. i \in 1..n /\ k \in 1..n /\ i <= k BY <1>0
  <2> QED BY <2>1, <1>0, <1>2, <1>3
<1>5. ASSUME NEW k \in 1..n + 1
      PROVE  \/ k < i /\ k \in 1..n /\ r[k] = q[k]
             \/ k = i /\ r[k] = t
             \/ k > i /\ k - 1 \in i..n /\ k - 1 \in 1..n /\ r[k] = q[k - 1]
  <2>1. CASE k < i BY <2>1, <1>0, <1>1
  <2>2. CASE k = i BY <2>2, <1>1
  <2>3. CASE k > i
    <3>1. k - 1 \in i..n /\ k - 1 \in 1..n /\ (k - 1) + 1 = k
      BY <2>3, <1>0
    <3> QED BY <3>1, <2>3, <1>1
  <2> QED BY <2>1, <2>2, <2>3, <1>0
<1>6. ASSUME NEW j \in 1..n + 1, NEW k \in 1..n + 1, j <= k
      PROVE  prio[r[k]] <= prio[r[j]]
  <2>1. CASE j < i
    <3>1. j \in 1..i - 1 /\ j \in 1..n /\ r[j] = q[j] BY <2>1, <1>0, <1>5
    <3>2. CASE k < i
      <4>1. k \in 1..n /\ r[k] = q[k] BY <3>2, <1>5
      <4> QED BY <3>1, <4>1, <1>3, <1>6
    <3>3. CASE k = i BY <3>1, <3>3, <1>1, <1>2
    <3>4. CASE k > i
      <4>1. k - 1 \in 1..n /\ j <= k - 1 /\ r[k] = q[k - 1]
        BY <2>1, <3>4, <1>5
      <4> QED BY <3>1, <4>1, <1>3
    <3> QED BY <3>2, <3>3, <3>4
  <2>2. CASE j = i
    <3>1. CASE k = i
      <4>1. r[k] = t /\ r[j] = t BY <2>2, <3>1, <1>1
      <4>2. prio[t] <= prio[t] BY <1>0
      <4> QED BY <4>1, <4>2
    <3>2. CASE k > i
      <4>1. k - 1 \in i..n /\ r[k] = q[k - 1] BY <3>2, <1>5
      <4> QED BY <2>2, <4>1, <1>1, <1>4
    <3> QED BY <2>2, <3>1, <3>2, <1>6
  <2>3. CASE j > i
    <3>1. /\ j - 1 \in 1..n /\ r[j] = q[j - 1]
          /\ k - 1 \in 1..n /\ r[k] = q[k - 1]
      BY <2>3, <1>5, <1>6
    <3>2. j - 1 <= k - 1 BY <1>6
    <3> QED BY <3>1, <3>2, <1>3
  <2> QED BY <2>1, <2>2, <2>3
<1>7. SortedByPriority(r, prio) BY <1>1, <1>6 DEF SortedByPriority
<1> QED BY <1>7 DEF r

(* A thread that gives up leaves the others in their order.                *)
LEMMA RemoveSorted ==
  ASSUME NEW S, NEW q \in Seq(S), NEW t, NEW prio \in [S -> Nat],
         SortedByPriority(q, prio)
  PROVE  SortedByPriority(RemoveThread(q, t), prio)
<1> DEFINE n == Len(q)
           r == RemoveThread(q, t)
<1> HIDE DEF r
<1>0. n \in Nat /\ \A j, k \in 1..n : j <= k => prio[q[k]] <= prio[q[j]]
  BY Members DEF SortedByPriority
<1>1. \/ r = q
      \/ \E i \in 1..n : RemovedAt(q, i, r)
  BY RemoveShape DEF r
<1>2. CASE r = q BY <1>2 DEF r
<1>3. ASSUME NEW i \in 1..n, RemovedAt(q, i, r)
      PROVE  SortedByPriority(r, prio)
  <2> USE DEF RemovedAt
  <2>1. ASSUME NEW j \in 1..n - 1, NEW k \in 1..n - 1, j <= k
        PROVE  prio[r[k]] <= prio[r[j]]
    <3>1. /\ j \in 1..n /\ k \in 1..n /\ j + 1 \in 1..n /\ k + 1 \in 1..n
          /\ j <= k + 1 /\ j + 1 <= k + 1
      BY <1>0, <2>1
    <3>2. CASE k < i
      <4>1. r[k] = q[k] /\ r[j] = q[j] BY <3>2, <1>3, <2>1
      <4> QED BY <3>1, <4>1, <1>0, <2>1
    <3>3. CASE ~ (k < i)
      <4>1. r[k] = q[k + 1] /\ r[j] \in {q[j], q[j + 1]} BY <3>3, <1>3
      <4> QED BY <3>1, <4>1, <1>0
    <3> QED BY <3>2, <3>3
  <2> QED BY <1>3, <2>1 DEF SortedByPriority
<1> QED BY <1>1, <1>2, <1>3 DEF r

(* The head of a sorted queue has the highest priority, and what remains   *)
(* is sorted.                                                              *)
LEMMA DequeueSorted ==
  ASSUME NEW S, NEW q \in Seq(S), q # <<>>, NEW prio \in [S -> Nat],
         SortedByPriority(q, prio)
  PROVE  /\ SortedByPriority(Tail(q), prio)
         /\ \A u \in ToSet(q) : prio[u] <= prio[Head(q)]
<1> DEFINE n == Len(q)
           r == Tail(q)
<1>0. /\ n \in Nat /\ n >= 1 /\ Head(q) = q[1]
      /\ \A j, k \in 1..n : j <= k => prio[q[k]] <= prio[q[j]]
  BY EmptySeq, HeadTailProperties, Members DEF SortedByPriority
<1>1. Len(r) = n - 1 /\ \A k \in 1..n - 1 : r[k] = q[k + 1]
  BY HeadTailProperties
<1> HIDE DEF r
<1>2. ASSUME NEW j \in 1..n - 1, NEW k \in 1..n - 1, j <= k
      PROVE  prio[r[k]] <= prio[r[j]]
  <2>1. j + 1 \in 1..n /\ k + 1 \in 1..n /\ j + 1 <= k + 1 BY <1>0, <1>2
  <2> QED BY <2>1, <1>0, <1>1
<1>3. ASSUME NEW u \in ToSet(q) PROVE prio[u] <= prio[Head(q)]
  <2>1. PICK k \in 1..n : u = q[k] BY Members
  <2>2. 1 \in 1..n /\ 1 <= k BY <1>0
  <2> QED BY <2>1, <2>2, <1>0
<1> QED BY <1>1, <1>2, <1>3 DEF SortedByPriority, r

(* An empty queue is sorted.                                               *)
LEMMA EmptySorted == \A prio : SortedByPriority(<<>>, prio)
<1>1. Len(<<>>) = 0 /\ 1..0 = {} BY EmptySeq
<1> QED BY <1>1 DEF SortedByPriority
=============================================================================
