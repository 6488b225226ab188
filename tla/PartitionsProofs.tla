-------------------------- MODULE PartitionsProofs --------------------------
(***************************************************************************)
(* Theorems about Partitions, for any number of partitions and threads,    *)
(* any slots, the three global policies, and any services.                 *)
(*                                                                         *)
(* Parts: sums and extremes; the numbers of threads; what the elections    *)
(* keep of the tables; the clock; the steps; the theorems.                 *)
(***************************************************************************)
EXTENDS Partitions, FiniteSetTheorems, TLAPS

W == INSTANCE WaitQueueProofs
-----------------------------------------------------------------------------
(* Sums.                                                                   *)

(* The recursion that SumFunctionOnSet is defined by, for subsets of U.    *)
Pick(s)      == CHOOSE x \in s : TRUE
SumOf(f, g, s) == IF s = {} THEN 0 ELSE f[Pick(s)] + g[s \ {Pick(s)}]
Sums(f, U, g)  == g = [s \in SUBSET U |-> SumOf(f, g, s)]

LEMMA SumIsChosen ==
  ASSUME NEW f, NEW U
  PROVE  SumFunctionOnSet(f, U) = (CHOOSE g : Sums(f, U, g))[U]
BY DEF SumFunctionOnSet, FoldFunctionOnSet, MapThenFoldSet, Sums, SumOf, Pick

(* What is left of a finite set without one of its elements.               *)
LEMMA Smaller ==
  ASSUME NEW s, IsFiniteSet(s), s # {}
  PROVE  /\ Pick(s) \in s
         /\ \A x \in s : /\ IsFiniteSet(s \ {x})
                         /\ Cardinality(s \ {x}) = Cardinality(s) - 1
                         /\ Cardinality(s) \in Nat /\ Cardinality(s) > 0
                         /\ Cardinality(s \ {x}) \in Nat
<1>1. Pick(s) \in s BY DEF Pick
<1>2. Cardinality(s) \in Nat /\ Cardinality(s) # 0
  BY FS_CardinalityType, FS_EmptySet
<1>3. ASSUME NEW x \in s
      PROVE  /\ IsFiniteSet(s \ {x})
             /\ Cardinality(s \ {x}) = Cardinality(s) - 1
  BY FS_RemoveElement
<1> QED BY <1>1, <1>2, <1>3

(* By induction on the size of the sets.                                   *)
LEMMA SumsExist ==
  ASSUME NEW f, NEW U, IsFiniteSet(U), \A x \in U : f[x] \in Int
  PROVE  \E g \in [SUBSET U -> Int] : Sums(f, U, g)
<1> DEFINE E(k) == \E g \in [SUBSET U -> Int] :
                     \A s \in SUBSET U : Cardinality(s) <= k => g[s] = SumOf(f, g, s)
           Bad == {k \in Nat : ~ E(k)}
<1>0. \A s \in SUBSET U : IsFiniteSet(s) /\ Cardinality(s) \in Nat
                          /\ Cardinality(s) <= Cardinality(U)
  BY FS_Subset, FS_CardinalityType
<1>1. E(0)
  <2> DEFINE g == [s \in SUBSET U |-> 0]
  <2>1. g \in [SUBSET U -> Int] OBVIOUS
  <2>2. ASSUME NEW s \in SUBSET U, Cardinality(s) <= 0 PROVE g[s] = SumOf(f, g, s)
    <3>1. s = {} BY <1>0, <2>2, FS_EmptySet
    <3> QED BY <3>1 DEF SumOf
  <2> QED BY <2>1, <2>2
<1>2. ASSUME NEW k \in Nat, E(k) PROVE E(k + 1)
  <2>1. PICK g \in [SUBSET U -> Int] :
          \A s \in SUBSET U : Cardinality(s) <= k => g[s] = SumOf(f, g, s)
    BY <1>2
  <2> DEFINE h == [s \in SUBSET U |-> IF Cardinality(s) <= k THEN g[s]
                                      ELSE SumOf(f, g, s)]
  <2>2. ASSUME NEW s \in SUBSET U, s # {}
        PROVE  /\ Pick(s) \in U /\ s \ {Pick(s)} \in SUBSET U
               /\ Cardinality(s \ {Pick(s)}) = Cardinality(s) - 1
    BY <1>0, <2>2, Smaller
  <2>3. h \in [SUBSET U -> Int]
    <3>1. ASSUME NEW s \in SUBSET U PROVE SumOf(f, g, s) \in Int
      <4>1. CASE s = {} BY <4>1 DEF SumOf
      <4>2. CASE s # {}
        <5>1. f[Pick(s)] \in Int /\ g[s \ {Pick(s)}] \in Int
          BY <2>1, <2>2, <4>2
        <5> QED BY <4>2, <5>1 DEF SumOf
      <4> QED BY <4>1, <4>2
    <3> QED BY <3>1
  <2>4. ASSUME NEW s \in SUBSET U, Cardinality(s) <= k + 1
        PROVE  h[s] = SumOf(f, h, s)
    <3>1. CASE s = {}
      <4>1. Cardinality(s) = 0 BY <3>1, FS_EmptySet
      <4> QED BY <2>1, <3>1, <4>1 DEF SumOf
    <3>2. CASE s # {}
      <4>1. h[s \ {Pick(s)}] = g[s \ {Pick(s)}]
        BY <1>0, <2>2, <2>4, <3>2
      <4>2. SumOf(f, h, s) = SumOf(f, g, s) BY <4>1, <3>2 DEF SumOf
      <4> QED BY <2>1, <4>2
    <3> QED BY <3>1, <3>2
  <2> HIDE DEF h
  <2> QED BY <2>3, <2>4
<1>3. \A k \in Nat : E(k)
  <2>1. SUFFICES ASSUME Bad # {} PROVE FALSE OBVIOUS
  <2>2. PICK k \in Bad : \A j \in Bad : k <= j BY <2>1, W!LeastElement
  <2> HIDE DEF E
  <2>3. k \in Nat /\ k # 0 /\ ~ E(k) BY <1>1, <2>2
  <2>4. k - 1 \in Nat /\ k - 1 \notin Bad BY <2>2, <2>3
  <2>5. E(k - 1) BY <2>4
  <2>6. E((k - 1) + 1) BY <2>4, <2>5, <1>2
  <2> QED BY <2>3, <2>6
<1>4. Cardinality(U) \in Nat BY FS_CardinalityType
<1>5. PICK g \in [SUBSET U -> Int] :
        \A s \in SUBSET U : Cardinality(s) <= Cardinality(U) => g[s] = SumOf(f, g, s)
  BY <1>3, <1>4
<1>6. g = [s \in SUBSET U |-> SumOf(f, g, s)] BY <1>0, <1>5
<1> QED BY <1>5, <1>6 DEF Sums

(* A sum does not depend on the set that the recursion starts from.        *)
LEMMA SumsAgree ==
  ASSUME NEW f, NEW U, IsFiniteSet(U), NEW g, NEW h, NEW V \in SUBSET U,
         Sums(f, U, g), Sums(f, V, h)
  PROVE  \A s \in SUBSET V : h[s] = g[s]
<1> DEFINE Bad == {Cardinality(s) : s \in {v \in SUBSET V : h[v] # g[v]}}
<1>0. \A s \in SUBSET V : IsFiniteSet(s) /\ Cardinality(s) \in Nat
  BY FS_Subset, FS_CardinalityType
<1>1. SUFFICES ASSUME Bad # {} PROVE FALSE OBVIOUS
<1>2. PICK k \in Bad : \A j \in Bad : k <= j
  <2>1. Bad \subseteq Nat BY <1>0
  <2> HIDE DEF Bad
  <2> QED BY <1>1, <2>1, W!LeastElement
<1>3. PICK s \in SUBSET V : h[s] # g[s] /\ k = Cardinality(s) BY <1>2
<1>4. h[s] = SumOf(f, h, s) /\ g[s] = SumOf(f, g, s) BY DEF Sums
<1>5. s # {} BY <1>3, <1>4 DEF SumOf
<1> DEFINE r == s \ {Pick(s)}
<1>6. r \in SUBSET V /\ Cardinality(r) \in Nat /\ Cardinality(r) < k
  BY <1>0, <1>3, <1>5, Smaller
<1>7. h[r] = g[r]
  <2>1. SUFFICES ASSUME h[r] # g[r] PROVE FALSE OBVIOUS
  <2>2. Cardinality(r) \in Bad BY <1>6, <2>1
  <2> HIDE DEF Bad, r
  <2> QED BY <1>0, <1>2, <1>3, <1>6, <2>2
<1>8. /\ SumOf(f, h, s) = f[Pick(s)] + h[r]
      /\ SumOf(f, g, s) = f[Pick(s)] + g[r]
  BY <1>5 DEF SumOf
<1> QED BY <1>3, <1>4, <1>7, <1>8

(* A sum is a number, and one element less.                                *)
LEMMA SumStep ==
  ASSUME NEW f, NEW U, IsFiniteSet(U), \A x \in U : f[x] \in Int
  PROVE  /\ SumFunctionOnSet(f, U) \in Int
         /\ SumFunctionOnSet(f, {}) = 0
         /\ U # {} => SumFunctionOnSet(f, U)
                        = f[Pick(U)] + SumFunctionOnSet(f, U \ {Pick(U)})
<1> DEFINE C(V) == CHOOSE g : Sums(f, V, g)
<1>1. ASSUME NEW V \in SUBSET U
      PROVE  /\ Sums(f, V, C(V)) /\ IsFiniteSet(V)
             /\ SumFunctionOnSet(f, V) = C(V)[V]
  <2>1. IsFiniteSet(V) BY FS_Subset
  <2>2. \E g : Sums(f, V, g) BY <2>1, SumsExist
  <2>3. Sums(f, V, C(V)) BY <2>2
  <2> QED BY <2>1, <2>3, SumIsChosen
<1>2. PICK g \in [SUBSET U -> Int] : Sums(f, U, g) BY SumsExist
<1> HIDE DEF C
<1>3. ASSUME NEW V \in SUBSET U PROVE SumFunctionOnSet(f, V) = g[V]
  <2>0. PICK h : h = C(V) OBVIOUS
  <2>3. Sums(f, V, h) /\ Sums(f, U, g) BY <1>1, <1>2, <2>0
  <2>4. \A s \in SUBSET V : h[s] = g[s] BY <2>3, SumsAgree
  <2>1. \A s \in SUBSET V : C(V)[s] = g[s] BY <2>0, <2>4
  <2>2. V \in SUBSET V OBVIOUS
  <2> QED BY <1>1, <2>1, <2>2
<1>4. \A V \in SUBSET U : g[V] = SumOf(f, g, V) BY <1>2 DEF Sums
<1>5. U # {} => Pick(U) \in U BY DEF Pick
<1> QED BY <1>2, <1>3, <1>4, <1>5 DEF SumOf

(* Any element can be taken out first.                                     *)
LEMMA SumWithout ==
  ASSUME NEW f, NEW U, IsFiniteSet(U), \A x \in U : f[x] \in Int
  PROVE  \A x \in U : SumFunctionOnSet(f, U) = f[x] + SumFunctionOnSet(f, U \ {x})
<1> DEFINE S(V) == SumFunctionOnSet(f, V)
           Fine(V) == \A x \in V : S(V) = f[x] + S(V \ {x})
           Bad == {Cardinality(V) : V \in {v \in SUBSET U : ~ Fine(v)}}
<1>0. \A V \in SUBSET U : IsFiniteSet(V) /\ Cardinality(V) \in Nat
  BY FS_Subset, FS_CardinalityType
<1>1. SUFFICES ASSUME Bad # {} PROVE FALSE
  <2>1. ~ Fine(U) => Cardinality(U) \in Bad OBVIOUS
  <2> QED BY <2>1
<1>2. PICK k \in Bad : \A j \in Bad : k <= j
  <2>1. Bad \subseteq Nat BY <1>0
  <2> HIDE DEF Bad
  <2> QED BY <1>1, <2>1, W!LeastElement
<1>3. PICK V \in SUBSET U : ~ Fine(V) /\ k = Cardinality(V) BY <1>2
<1>4. PICK x \in V : S(V) # f[x] + S(V \ {x}) BY <1>3
<1> DEFINE p == Pick(V)
<1>5. p \in V BY <1>4, <1>0, Smaller
<1>6. ASSUME NEW X \in SUBSET U, X # {}
      PROVE  S(X) \in Int /\ S(X) = f[Pick(X)] + S(X \ {Pick(X)})
  BY <1>0, <1>6, SumStep
<1>7. S({}) \in Int
  BY <1>0, SumStep
<1>8. \A X \in SUBSET U : S(X) \in Int BY <1>6, <1>7
<1>9. ASSUME NEW X \in SUBSET U, Cardinality(X) < k PROVE Fine(X)
  <2>1. SUFFICES ASSUME ~ Fine(X) PROVE FALSE OBVIOUS
  <2>2. Cardinality(X) \in Bad BY <2>1
  <2> HIDE DEF Bad, Fine
  <2> QED BY <1>0, <1>2, <1>3, <1>9, <2>2
<1>10. /\ V \ {p} \in SUBSET U /\ Cardinality(V \ {p}) < k
       /\ V \ {x} \in SUBSET U /\ Cardinality(V \ {x}) < k
  BY <1>0, <1>3, <1>4, <1>5, Smaller
<1>11. Fine(V \ {p}) /\ Fine(V \ {x})
  <2> HIDE DEF Fine, p
  <2> QED BY <1>9, <1>10
<1>12. x # p BY <1>4, <1>6
<1>13. x \in V \ {p} /\ p \in V \ {x} BY <1>4, <1>5, <1>12
<1>14. (V \ {p}) \ {x} = (V \ {x}) \ {p} OBVIOUS
<1>15. S(V \ {p}) = f[x] + S((V \ {p}) \ {x}) BY <1>11, <1>13
<1>16. S(V \ {x}) = f[p] + S((V \ {x}) \ {p}) BY <1>11, <1>13
<1>17. S(V) = f[p] + S(V \ {p}) BY <1>5, <1>6
<1>18. f[x] \in Int /\ f[p] \in Int BY <1>4, <1>5
<1>19. PICK c \in Int : c = S((V \ {x}) \ {p}) BY <1>8
<1>20. S((V \ {p}) \ {x}) = c BY <1>14, <1>19
<1>21. PICK a, b : a = f[x] /\ b = f[p] OBVIOUS
<1>22. S(V \ {p}) = a + c BY <1>15, <1>20, <1>21
<1>23. S(V \ {x}) = b + c BY <1>16, <1>19, <1>21
<1>24. S(V) = b + (a + c) BY <1>17, <1>21, <1>22
<1>25. S(V) # a + (b + c) BY <1>4, <1>21, <1>23
<1> HIDE DEF S, p
<1> QED BY <1>18, <1>19, <1>21, <1>24, <1>25

(* Sums of natural numbers.                                                *)
LEMMA SumPositive ==
  ASSUME NEW f, NEW U, IsFiniteSet(U), \A x \in U : f[x] \in Nat
  PROVE  SumFunctionOnSet(f, U) \in Nat
<1> DEFINE S(V) == SumFunctionOnSet(f, V)
           Bad == {Cardinality(V) : V \in {v \in SUBSET U : S(v) \notin Nat}}
<1>0. \A V \in SUBSET U : IsFiniteSet(V) /\ Cardinality(V) \in Nat
  BY FS_Subset, FS_CardinalityType
<1>1. SUFFICES ASSUME Bad # {} PROVE FALSE
  <2>1. S(U) \notin Nat => Cardinality(U) \in Bad OBVIOUS
  <2> QED BY <2>1
<1>2. PICK k \in Bad : \A j \in Bad : k <= j
  <2>1. Bad \subseteq Nat BY <1>0
  <2> HIDE DEF Bad
  <2> QED BY <1>1, <2>1, W!LeastElement
<1>3. PICK V \in SUBSET U : S(V) \notin Nat /\ k = Cardinality(V) BY <1>2
<1>4. V # {}
  <2>1. S({}) = 0
    <3>1. \A x \in U : f[x] \in Int OBVIOUS
    <3> QED BY <3>1, SumStep
  <2> QED BY <1>3, <2>1
<1> DEFINE p == Pick(V)
<1>5. /\ p \in V /\ V \ {p} \in SUBSET U /\ Cardinality(V \ {p}) < k
  BY <1>0, <1>3, <1>4, Smaller
<1>6. S(V \ {p}) \in Nat
  <2>1. SUFFICES ASSUME S(V \ {p}) \notin Nat PROVE FALSE OBVIOUS
  <2>2. Cardinality(V \ {p}) \in Bad BY <1>5, <2>1
  <2> HIDE DEF Bad, p
  <2> QED BY <1>0, <1>2, <1>3, <1>5, <2>2
<1>7. S(V) = f[p] + S(V \ {p})
  BY <1>0, <1>4, SumStep
<1>8. f[p] \in Nat BY <1>5
<1> HIDE DEF S, p
<1> QED BY <1>3, <1>6, <1>7, <1>8
-----------------------------------------------------------------------------
(* Extremes.                                                               *)

LEMMA MinIsLeast ==
  ASSUME NEW S \in SUBSET Int, S # {}, NEW b \in Int, \A x \in S : b <= x
  PROVE  Min(S) \in S /\ \A x \in S : Min(S) <= x
<1> DEFINE D == {x - b : x \in S}
<1>1. D \subseteq Nat /\ D # {}
  <2>1. \A x \in S : x - b \in Nat OBVIOUS
  <2>2. PICK x \in S : TRUE OBVIOUS
  <2>3. x - b \in D OBVIOUS
  <2> QED BY <2>1, <2>3
<1>2. PICK d \in D : \A e \in D : d <= e
  <2> HIDE DEF D
  <2> QED BY <1>1, W!LeastElement
<1>3. PICK m \in S : d = m - b BY <1>2
<1>4. ASSUME NEW x \in S PROVE m <= x
  <2>1. x - b \in D OBVIOUS
  <2>2. d <= x - b BY <1>2, <2>1
  <2> QED BY <1>3, <2>2
<1> QED BY <1>3, <1>4 DEF Min

LEMMA MaxIsGreatest ==
  ASSUME NEW S \in SUBSET Int, S # {}, NEW b \in Int, \A x \in S : x <= b
  PROVE  Max(S) \in S /\ \A x \in S : x <= Max(S)
<1> DEFINE D == {b - x : x \in S}
<1>1. D \subseteq Nat /\ D # {}
  <2>1. \A x \in S : b - x \in Nat OBVIOUS
  <2>2. PICK x \in S : TRUE OBVIOUS
  <2>3. b - x \in D OBVIOUS
  <2> QED BY <2>1, <2>3
<1>2. PICK d \in D : \A e \in D : d <= e
  <2> HIDE DEF D
  <2> QED BY <1>1, W!LeastElement
<1>3. PICK m \in S : d = b - m BY <1>2
<1>4. ASSUME NEW x \in S PROVE m >= x
  <2>1. b - x \in D OBVIOUS
  <2>2. d <= b - x BY <1>2, <2>1
  <2> QED BY <1>3, <2>2
<1>5. m >= Max(S) /\ Max(S) \in S /\ \A x \in S : Max(S) >= x
  BY <1>3, <1>4 DEF Max
<1> QED BY <1>5
-----------------------------------------------------------------------------
(* The numbers of partitions and threads.                                  *)

LEMMA PartitionFacts ==
  ASSUME conf \in Configs
  PROVE  /\ Last \in Nat /\ Last > 0 /\ Partitions = 0..Last
         /\ IsFiniteSet(Partitions)
         /\ \A p \in Partitions : /\ Low(p) \in Nat /\ High(p) \in Nat
                                  /\ conf.nthreads[p] \in Nat
                                  /\ Low(p) < High(p)
                                  /\ p > 0 => Low(p) = High(p - 1)
         /\ Low(0) = 0
<1>1. Tables(conf) BY ConfigsAssumption DEF Consistent
<1> DEFINE n == Cardinality(Partitions)
<1>2. /\ n \in Nat /\ n > 1
      /\ conf.nthreads \in [0..(n - 1) -> Nat] /\ conf.low \in [0..(n - 1) -> Nat]
      /\ conf.low[0] = 0
      /\ \A p \in 1..(n - 1) : conf.low[p] = conf.low[p - 1] + conf.nthreads[p - 1]
      /\ \A p \in 0..(n - 1) : conf.nthreads[p] > 0
  BY <1>1 DEF Tables, Partitions
<1>3. Last = n - 1 /\ Partitions = DOMAIN conf.nthreads BY DEF Last, Partitions
<1> HIDE DEF n
<1>4. Partitions = 0..Last BY <1>2, <1>3
<1>5. IsFiniteSet(Partitions) BY <1>4, <1>3, <1>2, FS_Interval
<1>6. ASSUME NEW p \in Partitions
      PROVE  /\ Low(p) \in Nat /\ High(p) \in Nat /\ conf.nthreads[p] \in Nat
             /\ Low(p) < High(p)
             /\ p > 0 => Low(p) = High(p - 1)
  <2>1. /\ p \in 0..(n - 1) /\ conf.low[p] \in Nat /\ conf.nthreads[p] \in Nat
        /\ conf.nthreads[p] > 0
    BY <1>2, <1>3, <1>4
  <2>2. p > 0 => conf.low[p] = conf.low[p - 1] + conf.nthreads[p - 1]
    BY <1>2, <2>1
  <2> QED BY <2>1, <2>2 DEF Low, High
<1> QED BY <1>2, <1>3, <1>4, <1>5, <1>6 DEF Low

(* The threads of a partition are behind those of the ones before it.      *)
LEMMA LowGrows ==
  ASSUME conf \in Configs, NEW p \in Partitions, NEW q \in Partitions, p < q
  PROVE  High(p) <= Low(q)
<1> DEFINE Bad == {x \in Partitions : p < x /\ ~ (High(p) <= Low(x))}
<1>1. SUFFICES ASSUME Bad # {} PROVE FALSE OBVIOUS
<1>2. PICK x \in Bad : \A y \in Bad : x <= y
  <2>1. Bad \subseteq Nat BY PartitionFacts
  <2> HIDE DEF Bad
  <2> QED BY <1>1, <2>1, W!LeastElement
<1>3. /\ x \in Partitions /\ p < x /\ x > 0 /\ x - 1 \in Partitions /\ p <= x - 1
      /\ x \in Nat /\ p \in Nat
  BY <1>2, PartitionFacts
<1>4. Low(x) = High(x - 1) /\ Low(x - 1) < High(x - 1) BY <1>3, PartitionFacts
<1>5. /\ Low(x) \in Nat /\ High(p) \in Nat /\ Low(x - 1) \in Nat
      /\ High(x - 1) \in Nat
  BY <1>3, PartitionFacts
<1>6. CASE p = x - 1 BY <1>2, <1>4, <1>5, <1>6
<1>7. CASE p # x - 1
  <2>1. x - 1 \notin Bad BY <1>2, <1>3
  <2>2. High(p) <= Low(x - 1) BY <2>1, <1>3, <1>7
  <2> HIDE DEF Bad
  <2> QED BY <2>2, <1>2, <1>4, <1>5 DEF Bad
<1> QED BY <1>6, <1>7

(* Threads belong to one partition, whose first one is its main thread;    *)
(* idle belongs to none.                                                   *)
LEMMA ThreadFacts ==
  ASSUME conf \in Configs
  PROVE  /\ Idle \in Nat /\ Idle > 0
         /\ \A p \in Partitions :
              /\ Only(p) \subseteq 0..Idle /\ Idle \notin Only(p)
              /\ Main(p) \in Only(p)
              /\ \A t : t \in Only(p) <=> t \in Int /\ Low(p) <= t /\ t < High(p)
              /\ \A q \in Partitions : Only(p) \intersect Only(q) # {} => p = q
<1>1. Last \in Partitions /\ Partitions = 0..Last /\ Last \in Nat
  BY PartitionFacts
<1>2. Idle \in Nat /\ Idle > 0
  BY <1>1, PartitionFacts DEF Idle
<1>3. ASSUME NEW p \in Partitions PROVE High(p) <= Idle
  <2>1. CASE p = Last BY <2>1, <1>2 DEF Idle
  <2>2. CASE p # Last
    <3>1. p < Last BY <1>1, <2>2
    <3>2. High(p) <= Low(Last) BY <1>1, <3>1, LowGrows
    <3>3. Low(Last) < Idle /\ High(p) \in Nat /\ Low(Last) \in Nat
      BY <1>1, PartitionFacts DEF Idle
    <3> QED BY <3>2, <3>3, <1>2
  <2> QED BY <2>1, <2>2
<1>4. ASSUME NEW p \in Partitions
      PROVE  /\ Only(p) \subseteq 0..Idle /\ Idle \notin Only(p)
             /\ Main(p) \in Only(p)
             /\ \A t : t \in Only(p) <=> t \in Int /\ Low(p) <= t /\ t < High(p)
  <2>1. /\ Low(p) \in Nat /\ High(p) \in Nat /\ Low(p) < High(p)
        /\ High(p) <= Idle
    BY <1>3, PartitionFacts
  <2> QED BY <2>1, <1>2 DEF Only, Main
<1>5. ASSUME NEW p \in Partitions, NEW q \in Partitions,
             NEW t \in Only(p), t \in Only(q)
      PROVE  ~ p < q
  <2>1. SUFFICES ASSUME p < q PROVE FALSE OBVIOUS
  <2>2. High(p) <= Low(q) /\ High(p) \in Nat /\ Low(q) \in Nat
    BY <2>1, LowGrows, PartitionFacts
  <2>3. t \in Int /\ t < High(p) /\ Low(q) <= t BY <1>4, <1>5
  <2> QED BY <2>2, <2>3
<1>6. ASSUME NEW p \in Partitions, NEW q \in Partitions,
             Only(p) \intersect Only(q) # {}
      PROVE  p = q
  <2>1. PICK t \in Only(p) : t \in Only(q) BY <1>6
  <2>2. ~ p < q /\ ~ q < p BY <1>5, <2>1
  <2> QED BY <2>2, <1>1
<1> QED BY <1>2, <1>4, <1>6

LEMMA ConfFacts ==
  ASSUME conf \in Configs
  PROVE  /\ conf.lag \in Nat /\ conf.delays \subseteq Nat
         /\ conf.quantum \in Nat /\ conf.quantum > 0
         /\ conf.policy \in {"TIMESLICE", "PPS", "PEDF"}
         /\ NbSlots \in Nat /\ NbSlots > 0
         /\ \A s \in 1..NbSlots : /\ conf.slots[s] \in Nat
                                  /\ conf.slots[s] >= conf.quantum
                                  /\ Allocated(s) \in Partitions
<1>1. Consistent(conf) BY ConfigsAssumption
<1>2. conf.slots \in Seq(Nat) /\ conf.allocation \in Seq(Partitions)
  BY <1>1, PartitionFacts DEF Consistent, Tables, Last, Partitions
<1>3. /\ NbSlots \in Nat /\ NbSlots > 0 /\ Len(conf.allocation) = NbSlots
      /\ conf.lag \in Nat /\ conf.delays \subseteq Nat
      /\ conf.quantum \in Nat /\ conf.quantum > 0
      /\ conf.policy \in {"TIMESLICE", "PPS", "PEDF"}
  BY <1>1, <1>2 DEF Consistent, NbSlots
<1>4. DOMAIN conf.slots = 1..NbSlots /\ DOMAIN conf.allocation = 1..NbSlots
  BY <1>2, <1>3 DEF NbSlots
<1>5. \A s \in 1..NbSlots : /\ conf.slots[s] \in Nat
                            /\ conf.slots[s] >= conf.quantum
                            /\ conf.allocation[s] \in Partitions
  <2>1. \A s \in 1..NbSlots : conf.slots[s] >= conf.quantum
    BY <1>1, <1>4 DEF Consistent
  <2>2. \A s \in 1..NbSlots : conf.slots[s] \in Nat BY <1>2 DEF NbSlots
  <2>3. \A s \in 1..NbSlots : conf.allocation[s] \in Partitions BY <1>2, <1>3
  <2> QED BY <2>1, <2>2, <2>3
<1> QED BY <1>3, <1>5 DEF Allocated

LEMMA AttributeFacts ==
  ASSUME conf \in Configs
  PROVE  /\ \A t \in 0..Idle :
              /\ conf.period[t] = Infinite \/ conf.period[t] \in Nat \ {0}
              /\ conf.capacity[t] \in Int
              /\ conf.deadline[t] \in Nat /\ conf.priority[t] \in Nat
         /\ \A p \in Partitions : conf.capacity[Main(p)] = Infinite
<1>1. Tables(conf) BY ConfigsAssumption DEF Consistent
<1>2. /\ Partitions = 0..Last /\ Last = Cardinality(DOMAIN conf.nthreads) - 1
      /\ Idle = conf.low[Last] + conf.nthreads[Last]
  BY PartitionFacts DEF Last, Idle, High, Low, Partitions
<1> DEFINE n == Cardinality(DOMAIN conf.nthreads)
<1>3. /\ conf.period \in [0..(conf.low[n - 1] + conf.nthreads[n - 1])
                              -> {Infinite} \union (Nat \ {0})]
      /\ conf.capacity \in [0..(conf.low[n - 1] + conf.nthreads[n - 1])
                              -> {Infinite} \union Nat]
      /\ conf.deadline \in [0..(conf.low[n - 1] + conf.nthreads[n - 1]) -> Nat]
      /\ conf.priority \in [0..(conf.low[n - 1] + conf.nthreads[n - 1]) -> Nat]
      /\ \A p \in 0..(n - 1) :
           {conf.period[conf.low[p]], conf.capacity[conf.low[p]]} = {Infinite}
  BY <1>1 DEF Tables
<1> HIDE DEF n
<1>4. n - 1 = Last BY <1>2 DEF n
<1>5. /\ conf.period \in [0..Idle -> {Infinite} \union (Nat \ {0})]
      /\ conf.capacity \in [0..Idle -> {Infinite} \union Nat]
      /\ conf.deadline \in [0..Idle -> Nat] /\ conf.priority \in [0..Idle -> Nat]
  BY <1>2, <1>3, <1>4
<1>6. \A p \in Partitions : conf.capacity[Main(p)] = Infinite
  <2>1. ASSUME NEW p \in Partitions PROVE conf.capacity[conf.low[p]] = Infinite
    BY <1>2, <1>3, <1>4
  <2> QED BY <2>1 DEF Main, Low
<1>7. ASSUME NEW t \in 0..Idle
      PROVE  /\ conf.period[t] = Infinite \/ conf.period[t] \in Nat \ {0}
             /\ conf.capacity[t] \in Int
             /\ conf.deadline[t] \in Nat /\ conf.priority[t] \in Nat
  <2>1. conf.capacity[t] \in {Infinite} \union Nat BY <1>5
  <2>2. conf.capacity[t] \in Int BY <2>1 DEF Infinite
  <2>3. conf.deadline[t] \in Nat /\ conf.priority[t] \in Nat BY <1>5
  <2>4. conf.period[t] \in {Infinite} \union (Nat \ {0}) BY <1>5
  <2> QED BY <2>2, <2>3, <2>4
<1> QED BY <1>6, <1>7
-----------------------------------------------------------------------------
(* The tables.                                                             *)

Times   == {x \in Int : x >= Zero}
Row     == [state : States, left : Int, next : Times, wake : Nat, ddl : Times]
Rows(T) == T \in [0..Idle -> Row]

PartsTyped(P) ==
  /\ P \in [Partitions -> PartitionType]
  /\ \A p \in Partitions : P[p].index >= 1 /\ P[p].index <= conf.nthreads[p]

Handlers(p) == (Only(p) \ {Main(p)}) \union {NoHandler}

(* Partitions run threads of their own and have handlers of their own, and *)
(* "main thread is disabled": in NORMAL mode it stays stopped.             *)
Proper(P, T) ==
  \A p \in Partitions : /\ P[p].current \in Only(p) \union {Idle}
                        /\ P[p].error \in Handlers(p)
                        /\ P[p].mode = "NORMAL" => T[Main(p)].state = "STOPPED"

(* An election leaves stopped threads alone.                               *)
Gentle(T, A) ==
  \A t \in 0..Idle : T[t].state = "STOPPED" => A[t].state = "STOPPED"

(* Thread t is one of partition p, whose mode lets it run.                 *)
Fits(P, p, t) ==
  /\ t \in Only(p) \union {Idle}
  /\ P[p].mode \in InitModes => t \in {Main(p), P[p].error, Idle}
  /\ P[p].mode = "NORMAL" => t # Main(p)
  /\ P[p].mode = "STOPPED" => t = Idle

LEMMA ZeroFacts ==
  ASSUME conf \in Configs
  PROVE  Zero \in Int /\ Zero < -conf.lag /\ Zero < 0 /\ -conf.lag \in Int
BY ConfFacts DEF Zero

LEMMA RowsKept ==
  ASSUME conf \in Configs, NEW t \in 0..Idle, NEW r \in Row
  PROVE  /\ Woken(r) \in Row /\ Dated(t, r) \in Row /\ Released(t, r) \in Row
         /\ Charged(r) \in Row
         /\ r.state = "STOPPED" =>
              Woken(r) = r /\ Dated(t, r) = r /\ Released(t, r) = r
<1>1. /\ r = [state |-> r.state, left |-> r.left, next |-> r.next,
              wake |-> r.wake, ddl |-> r.ddl]
      /\ r.state \in States /\ r.left \in Int /\ r.next \in Times
      /\ r.wake \in Nat /\ r.ddl \in Times
  BY DEF Row
<1>2. {"RUNNABLE", "WAIT_NEXT_ACTIVATION", "STOPPED"} \subseteq States BY DEF States
<1>3. Woken(r) \in Row
  <2>1. [r EXCEPT !.state = "RUNNABLE"] \in Row BY <1>2 DEF Row
  <2> QED BY <2>1 DEF Woken
<1>4. Dated(t, r) \in Row
  <2>1. r.next + conf.deadline[t] \in Times
    <3>1. conf.deadline[t] \in Nat BY AttributeFacts
    <3> QED BY <1>1, <3>1, ZeroFacts DEF Times
  <2>2. [r EXCEPT !.ddl = r.next + conf.deadline[t]] \in Row BY <2>1 DEF Row
  <2> QED BY <2>2 DEF Dated
<1>5. Released(t, r) \in Row
  <2> DEFINE n == IF Aperiodic(t) THEN r.next ELSE r.next + conf.period[t]
             c == conf.capacity[t]
  <2>1. n \in Times
    <3>1. conf.period[t] = Infinite \/ conf.period[t] \in Nat BY AttributeFacts
    <3> QED BY <1>1, <3>1, ZeroFacts DEF Times, Aperiodic
  <2>2. c \in Int BY AttributeFacts
  <2>3. Released(t, r) = IF DueToStart(r)
          THEN [r EXCEPT !.state = "RUNNABLE", !.left = c, !.next = n] ELSE r
    BY DEF Released
  <2> HIDE DEF n, c
  <2>4. [r EXCEPT !.state = "RUNNABLE", !.left = c, !.next = n] \in Row
    BY <1>2, <2>1, <2>2 DEF Row
  <2> QED BY <2>3, <2>4
<1>6. Charged(r) \in Row
  <2> DEFINE s == IF r.left <= 1 THEN "WAIT_NEXT_ACTIVATION" ELSE r.state
             n == r.left - 1
  <2>1. s \in States /\ n \in Int BY <1>1, <1>2
  <2>2. Charged(r) = [r EXCEPT !.left = n, !.state = s] BY DEF Charged
  <2> HIDE DEF s, n
  <2>3. [r EXCEPT !.left = n, !.state = s] \in Row BY <2>1 DEF Row
  <2> QED BY <2>2, <2>3
<1> QED BY <1>3, <1>4, <1>5, <1>6 DEF Woken, Dated, Released, DueToStart

LEMMA ActivateKeeps ==
  ASSUME conf \in Configs, NEW T, Rows(T), NEW p
  PROVE  Rows(Activate(T, p)) /\ Gentle(T, Activate(T, p))
<1> DEFINE f(t) == Released(t, Dated(t, Woken(T[t])))
<1>1. DOMAIN T = 0..Idle BY DEF Rows
<1>2. ASSUME NEW t \in 0..Idle
      PROVE  /\ T[t] \in Row /\ f(t) \in Row
             /\ T[t].state = "STOPPED" => f(t) = T[t]
  <2>1. T[t] \in Row BY DEF Rows
  <2>2. Woken(T[t]) \in Row /\ (T[t].state = "STOPPED" => Woken(T[t]) = T[t])
    BY <2>1, RowsKept
  <2>3. Dated(t, Woken(T[t])) \in Row
        /\ (T[t].state = "STOPPED" => Dated(t, Woken(T[t])) = T[t])
    BY <2>1, <2>2, RowsKept
  <2> QED BY <2>1, <2>3, RowsKept
<1> HIDE DEF f
<1>3. Activate(T, p) = [t \in 0..Idle |-> IF t \in Only(p) THEN f(t) ELSE T[t]]
  BY <1>1 DEF Activate, f
<1> QED BY <1>2, <1>3 DEF Rows, Gentle

LEMMA ActivateWaitingKeeps ==
  ASSUME conf \in Configs, NEW T, Rows(T)
  PROVE  Rows(ActivateWaiting(T)) /\ Gentle(T, ActivateWaiting(T))
<1> DEFINE f(t) == Released(t, Woken(T[t]))
<1>1. DOMAIN T = 0..Idle BY DEF Rows
<1>2. ASSUME NEW t \in 0..Idle
      PROVE  /\ T[t] \in Row /\ f(t) \in Row
             /\ T[t].state = "STOPPED" => f(t) = T[t]
  <2>1. T[t] \in Row BY DEF Rows
  <2>2. Woken(T[t]) \in Row /\ (T[t].state = "STOPPED" => Woken(T[t]) = T[t])
    BY <2>1, RowsKept
  <2> QED BY <2>1, <2>2, RowsKept
<1> HIDE DEF f
<1>3. ActivateWaiting(T) = [t \in 0..Idle |-> IF t \in Seen THEN f(t) ELSE T[t]]
  BY <1>1 DEF ActivateWaiting, f
<1> QED BY <1>2, <1>3 DEF Rows, Gentle

(* The thread that is charged has a budget, so it is no main thread.       *)
LEMMA ChargeKeeps ==
  ASSUME conf \in Configs, NEW P, NEW T, Rows(T), NEW p, run \in 0..Idle
  PROVE  /\ Rows(Charge(P, T, p))
         /\ Proper(P, T) => Proper(P, Charge(P, T, p))
<1>1. CASE run \in {Idle, Main(p), P[p].error} \/ conf.capacity[run] <= 0
  BY <1>1 DEF Charge
<1>2. CASE ~ (run \in {Idle, Main(p), P[p].error} \/ conf.capacity[run] <= 0)
  <2> DEFINE C == [T EXCEPT ![run] = Charged(T[run])]
  <2>1. Charge(P, T, p) = C BY <1>2 DEF Charge
  <2>2. T[run] \in Row BY DEF Rows
  <2>3. Charged(T[run]) \in Row BY <2>2, RowsKept
  <2>4. Rows(C) BY <2>3 DEF Rows
  <2>5. ASSUME NEW q \in Partitions PROVE C[Main(q)] = T[Main(q)]
    <3>1. Main(q) # run
      <4>1. conf.capacity[Main(q)] <= 0 BY AttributeFacts DEF Infinite
      <4> QED BY <4>1, <1>2
    <3>2. Main(q) \in 0..Idle BY ThreadFacts
    <3> QED BY <3>1, <3>2 DEF Rows
  <2> HIDE DEF C
  <2> QED BY <2>1, <2>4, <2>5 DEF Proper
<1> QED BY <1>1, <1>2

LEMMA GentleKeeps ==
  ASSUME conf \in Configs, NEW P, NEW T, NEW A, Gentle(T, A), Proper(P, T)
  PROVE  Proper(P, A)
BY ThreadFacts DEF Gentle, Proper

(* What pok_elect_thread elects, and what it leaves.                       *)
Elected(p, r) ==
  Rows(r.table) /\ r.elected \in 0..Idle

LEMMA ElectThreadKeeps ==
  ASSUME conf \in Configs, NEW P, PartsTyped(P), NEW T, Rows(T),
         NEW p \in Partitions, run \in 0..Idle, NEW r \in ElectThread(P, T, p)
  PROVE  /\ Elected(p, r)
         /\ Proper(P, T) => Proper(P, r.table) /\ Fits(P, p, r.elected)
<1> DEFINE A == Activate(T, p)
           C == Charge(P, A, p)
<1>1. Rows(A) /\ Gentle(T, A) BY ActivateKeeps
<1>2. Proper(P, T) => Proper(P, A) BY <1>1, GentleKeeps
<1>3. Rows(C) /\ (Proper(P, A) => Proper(P, C)) BY <1>1, ChargeKeeps
<1>4. P[p].mode \in InitModes \union {"NORMAL", "STOPPED"}
  BY DEF PartsTyped, PartitionType, Modes
<1>5. /\ Main(p) \in Only(p) /\ Idle \notin Only(p)
      /\ Only(p) \union {Idle} \subseteq 0..Idle /\ P[p].error \in 0..Idle
  BY ThreadFacts DEF PartsTyped, PartitionType
<1>6. ASSUME NEW M, Rows(M), Proper(P, T) => Proper(P, M),
             NEW S \in SUBSET (0..Idle),
             Proper(P, M) => \A t \in S : Fits(P, p, t),
             r \in Results(M, S)
      PROVE  /\ Elected(p, r)
             /\ Proper(P, T) => Proper(P, r.table) /\ Fits(P, p, r.elected)
  <2>1. PICK t \in S : r = [elected |-> t, table |-> M] BY <1>6 DEF Results
  <2>2. r.elected = t /\ r.table = M BY <2>1
  <2> QED BY <2>2, <1>6 DEF Elected
<1>7. CASE P[p].mode \in InitModes
  <2>1. r \in Results(A, {Main(p)}) BY <1>7 DEF ElectThread, InitModes
  <2>2. Fits(P, p, Main(p)) BY <1>5, <1>7 DEF Fits, InitModes
  <2> HIDE DEF A
  <2>3. {Main(p)} \in SUBSET (0..Idle) BY <1>5
  <2> QED BY <2>1, <2>2, <2>3, <1>1, <1>2, <1>6
<1>8. CASE P[p].mode = "NORMAL"
  <2>1. P[p].mode \notin InitModes BY <1>8 DEF InitModes
  <2>2. CASE HandlerStays(P, A, p)
    <3>1. r \in Results(A, {P[p].error}) BY <1>8, <2>1, <2>2 DEF ElectThread
    <3>2. /\ P[p].current = P[p].error /\ A[P[p].error].state = "RUNNABLE"
      BY <2>2 DEF HandlerStays
    <3>3. ASSUME Proper(P, A) PROVE Fits(P, p, P[p].error)
      <4>1. A[Main(p)].state = "STOPPED" BY <1>8, <3>3 DEF Proper
      <4>2. P[p].error # Main(p) BY <3>2, <4>1
      <4>3. P[p].error \in Only(p) \union {Idle} BY <3>2, <3>3 DEF Proper
      <4> QED BY <4>2, <4>3, <1>8 DEF Fits, InitModes
    <3> HIDE DEF A
    <3>4. {P[p].error} \in SUBSET (0..Idle) BY <1>5
    <3> QED BY <3>1, <3>3, <3>4, <1>1, <1>2, <1>6
  <2>3. CASE ~ HandlerStays(P, A, p)
    <3> DEFINE S == Candidates(C, p)
    <3>1. r \in Results(C, S) BY <1>8, <2>1, <2>3 DEF ElectThread
    <3> HIDE DEF C, A
    <3>2. S \in SUBSET (Only(p) \union {Idle})
      BY DEF Candidates, Ready
    <3>3. ASSUME Proper(P, C), NEW t \in S PROVE Fits(P, p, t)
      <4>1. C[Main(p)].state = "STOPPED" BY <1>8, <3>3 DEF Proper
      <4>2. t = Idle \/ C[t].state = "RUNNABLE" BY DEF Candidates, Ready
      <4>3. t # Main(p) BY <4>1, <4>2, <1>5
      <4> QED BY <4>3, <3>2, <1>8 DEF Fits, InitModes
    <3> HIDE DEF S
    <3>5. S \in SUBSET (0..Idle) BY <3>2, <1>5
    <3>4. Proper(P, T) => Proper(P, C) BY <1>2, <1>3
    <3> QED BY <3>1, <3>3, <3>4, <3>5, <1>3, <1>6
  <2> QED BY <2>2, <2>3
<1>9. CASE P[p].mode = "STOPPED"
  <2>1. r \in Results(A, {Idle}) BY <1>9 DEF ElectThread, InitModes
  <2>2. Fits(P, p, Idle) BY <1>9 DEF Fits, InitModes
  <2> HIDE DEF A
  <2>3. {Idle} \in SUBSET (0..Idle) BY <1>5
  <2> QED BY <2>1, <2>2, <2>3, <1>1, <1>2, <1>6
<1> QED BY <1>4, <1>7, <1>8, <1>9
-----------------------------------------------------------------------------
(* The election of a partition.                                            *)

LEMMA NextSlotInRange ==
  ASSUME conf \in Configs, NEW s \in 1..NbSlots
  PROVE  /\ NextSlot(s) \in 1..NbSlots
         /\ s < NbSlots => NextSlot(s) = s + 1
         /\ s = NbSlots => NextSlot(s) = 1
<1>1. NbSlots \in Nat /\ NbSlots > 0 BY ConfFacts
<1>2. CASE s < NbSlots
  <2>1. s % NbSlots = s BY <1>1, <1>2
  <2> QED BY <1>1, <1>2, <2>1 DEF NextSlot
<1>3. CASE s = NbSlots
  <2>1. s % NbSlots = 0 BY <1>1, <1>3
  <2> QED BY <1>1, <1>3, <2>1 DEF NextSlot
<1> QED BY <1>1, <1>2, <1>3

LEMMA PpsChooses ==
  ASSUME conf \in Configs, NEW T, cur \in Partitions
  PROVE  PpsChoice(T) \in Partitions
<1> DEFINE S    == {PriorityOf(T, p) : p \in Partitions}
           best == Max(S)
           B    == {p \in Partitions : PriorityOf(T, p) = best}
<1>1. ASSUME NEW p \in Partitions
      PROVE  PriorityOf(T, p) \in Int /\ PriorityOf(T, p) <= 255
  <2>1. Ready(T, p) \subseteq 0..Idle /\ Idle \in Nat
    BY ThreadFacts DEF Ready
  <2>2. IsFiniteSet(Ready(T, p))
    <3>1. IsFiniteSet(0..Idle) BY <2>1, FS_Interval
    <3> QED BY <2>1, <3>1, FS_Subset
  <2>3. \A t \in Ready(T, p) : conf.priority[t] \in Int
    BY <2>1, AttributeFacts
  <2>4. PICK n \in Int : n = SumFunctionOnSet(conf.priority, Ready(T, p))
    BY <2>2, <2>3, SumStep
  <2>5. n % 256 \in 0..255 OBVIOUS
  <2> QED BY <2>4, <2>5 DEF PriorityOf
<1>2. S \in SUBSET Int /\ \A x \in S : x <= 255 BY <1>1
<1>3. S # {} BY <1>1
<1>4. best \in S
  <2> HIDE DEF S
  <2> QED BY <1>2, <1>3, MaxIsGreatest
<1>5. B # {} BY <1>4
<1>6. B \in SUBSET Int /\ \A p \in B : 0 <= p BY PartitionFacts
<1>7. Min(B) \in B
  <2> HIDE DEF B
  <2> QED BY <1>5, <1>6, MinIsLeast
<1>8. PpsChoice(T) = IF best = 0 THEN cur ELSE Min(B) BY DEF PpsChoice
<1> HIDE DEF best
<1> QED BY <1>7, <1>8

LEMMA PedfChooses ==
  ASSUME conf \in Configs, NEW T, Rows(T), cur \in Partitions
  PROVE  PedfChoice(T) \in Partitions
<1> DEFINE S    == {DeadlineOf(T, p) : p \in Partitions}
           best == Min(S)
           B    == {p \in Partitions : DeadlineOf(T, p) = best}
<1>1. ASSUME NEW p \in Partitions
      PROVE  DeadlineOf(T, p) \in Int /\ Zero <= DeadlineOf(T, p)
  <2> DEFINE D == {T[t].ddl : t \in Ready(T, p)} \union {Never}
  <2>1. ASSUME NEW t \in Ready(T, p) PROVE T[t].ddl \in Int /\ Zero <= T[t].ddl
    <3>1. t \in 0..Idle BY ThreadFacts DEF Ready
    <3>2. T[t] \in Row BY <3>1 DEF Rows
    <3> QED BY <3>2, ZeroFacts DEF Row, Times
  <2>2. Never \in Int /\ Zero <= Never BY ZeroFacts DEF Never
  <2>3. D \in SUBSET Int /\ D # {} /\ \A x \in D : Zero <= x BY <2>1, <2>2
  <2>4. Min(D) \in D
    <3> HIDE DEF D
    <3> QED BY <2>3, ZeroFacts, MinIsLeast
  <2>5. DeadlineOf(T, p) = Min(D) BY DEF DeadlineOf
  <2> HIDE DEF D
  <2> QED BY <2>3, <2>4, <2>5
<1>2. S \in SUBSET Int /\ \A x \in S : Zero <= x BY <1>1
<1>3. S # {} BY <1>1
<1>4. best \in S
  <2> HIDE DEF S
  <2> QED BY <1>2, <1>3, ZeroFacts, MinIsLeast
<1>5. B # {} BY <1>4
<1>6. B \in SUBSET Int /\ \A p \in B : 0 <= p BY PartitionFacts
<1>7. Min(B) \in B
  <2> HIDE DEF B
  <2> QED BY <1>5, <1>6, MinIsLeast
<1>8. PedfChoice(T) = IF best = Never THEN cur ELSE Min(B) BY DEF PedfChoice
<1> HIDE DEF best
<1> QED BY <1>7, <1>8

LEMMA ElectPartitionKeeps ==
  ASSUME conf \in Configs, NEW P, NEW T, Rows(T), NEW s \in 1..NbSlots,
         cur \in Partitions
  PROVE  /\ ElectPartition(P, T, s).partition \in Partitions
         /\ Rows(ElectPartition(P, T, s).table)
         /\ Gentle(T, ElectPartition(P, T, s).table)
<1> DEFINE A == IF conf.policy = "TIMESLICE" THEN T ELSE ActivateWaiting(T)
<1>1. Rows(T) /\ Gentle(T, T) BY DEF Gentle
<1>2. Rows(A) /\ Gentle(T, A) BY <1>1, ActivateWaitingKeeps
<1>3. ElectPartition(P, T, s) = IF P[Allocated(s)].mode \in InitModes
        THEN [partition |-> Allocated(s), table |-> T]
        ELSE [partition |-> PolicyChoice(A, s), table |-> A]
  BY DEF ElectPartition
<1> HIDE DEF A
<1>4. Allocated(s) \in Partitions BY ConfFacts
<1>5. PolicyChoice(A, s) \in Partitions
  <2>1. conf.policy \in {"TIMESLICE", "PPS", "PEDF"} BY ConfFacts
  <2>2. PpsChoice(A) \in Partitions BY PpsChooses
  <2>3. PedfChoice(A) \in Partitions BY <1>2, PedfChooses
  <2> QED BY <2>1, <2>2, <2>3, <1>4 DEF PolicyChoice
<1> QED BY <1>1, <1>2, <1>3, <1>4, <1>5
-----------------------------------------------------------------------------
(* Steps that elect.                                                       *)

Good(P, T, p, t) ==
  /\ Rows(T) /\ PartsTyped(P)
  /\ p \in Partitions /\ t \in 0..Idle

Moded(P, T, p, t) == Proper(P, T) /\ Fits(P, p, t)

SameModes(P, Q) == \A p \in Partitions : Q[p].mode = P[p].mode

LEMMA CurrentSet ==
  ASSUME conf \in Configs, NEW P, PartsTyped(P), NEW p \in Partitions,
         NEW t \in 0..Idle
  PROVE  LET Q == [P EXCEPT ![p].current = t]
         IN  /\ PartsTyped(Q) /\ SameModes(P, Q)
             /\ t \in Only(p) \union {Idle} =>
                  \A T : Proper(P, T) => Proper(Q, T)
             /\ \A u : Fits(P, p, u) => Fits(Q, p, u)
<1> DEFINE row == [P[p] EXCEPT !.current = t]
           Q == [P EXCEPT ![p] = row]
<1>1. P[p] \in PartitionType /\ t \in 0..Idle
  BY ThreadFacts DEF PartsTyped
<1>2. /\ row \in PartitionType /\ row.mode = P[p].mode /\ row.index = P[p].index
      /\ row.error = P[p].error /\ row.current = t
  BY <1>1 DEF PartitionType
<1>3. P \in [Partitions -> PartitionType] BY DEF PartsTyped
<1> HIDE DEF row
<1>4. /\ Q \in [Partitions -> PartitionType] /\ Q[p] = row
      /\ \A q \in Partitions \ {p} : Q[q] = P[q]
  BY <1>2, <1>3
<1>5. Q = [P EXCEPT ![p].current = t] BY DEF row
<1> HIDE DEF Q
<1>6. PartsTyped(Q)
  <2>1. ASSUME NEW q \in Partitions
        PROVE  Q[q].index >= 1 /\ Q[q].index <= conf.nthreads[q]
    <3>1. CASE q = p BY <3>1, <1>2, <1>4 DEF PartsTyped
    <3>2. CASE q # p BY <3>2, <1>4 DEF PartsTyped
    <3> QED BY <3>1, <3>2
  <2> QED BY <2>1, <1>4 DEF PartsTyped
<1>7. SameModes(P, Q) BY <1>2, <1>4 DEF SameModes
<1>8. ASSUME t \in Only(p) \union {Idle}, NEW T, Proper(P, T) PROVE Proper(Q, T)
  <2>1. ASSUME NEW q \in Partitions
        PROVE  /\ Q[q].current \in Only(q) \union {Idle}
               /\ Q[q].error \in Handlers(q)
               /\ Q[q].mode = "NORMAL" => T[Main(q)].state = "STOPPED"
    <3>1. CASE q = p BY <3>1, <1>2, <1>4, <1>8 DEF Proper
    <3>2. CASE q # p BY <3>2, <1>4, <1>8 DEF Proper
    <3> QED BY <3>1, <3>2
  <2> QED BY <2>1 DEF Proper
<1>9. \A u : Fits(P, p, u) => Fits(Q, p, u) BY <1>2, <1>4 DEF Fits
<1> QED BY <1>5, <1>6, <1>7, <1>8, <1>9

LEMMA DispatchKeeps ==
  ASSUME conf \in Configs, run \in 0..Idle, NEW P, PartsTyped(P), NEW T, Rows(T),
         NEW p \in Partitions, Dispatch(P, T, p)
  PROVE  /\ Good(parts', th', p, run') /\ SameModes(P, parts')
         /\ Proper(P, T) => Moded(parts', th', p, run')
<1>1. PICK r \in ElectThread(P, T, p) :
        /\ th' = r.table /\ run' = r.elected
        /\ parts' = [P EXCEPT ![p].current = r.elected]
  BY DEF Dispatch
<1>2. /\ Elected(p, r)
      /\ Proper(P, T) => Proper(P, r.table) /\ Fits(P, p, r.elected)
  BY ElectThreadKeeps
<1>3. /\ r.elected \in 0..Idle /\ Rows(r.table)
      /\ Fits(P, p, r.elected) => r.elected \in Only(p) \union {Idle}
  BY <1>2 DEF Elected, Fits
<1> DEFINE Q == [P EXCEPT ![p].current = r.elected]
<1>4. /\ PartsTyped(Q) /\ SameModes(P, Q)
      /\ r.elected \in Only(p) \union {Idle} =>
           \A U : Proper(P, U) => Proper(Q, U)
      /\ \A u : Fits(P, p, u) => Fits(Q, p, u)
  BY <1>3, CurrentSet
<1>5. parts' = Q BY <1>1
<1> HIDE DEF Q
<1> QED BY <1>1, <1>2, <1>3, <1>4, <1>5 DEF Good, Moded

LEMMA GlobalKeeps ==
  ASSUME conf \in Configs, cur \in Partitions, run \in 0..Idle, slot \in 1..NbSlots,
         NEW P, PartsTyped(P), NEW T, Rows(T), NEW a, NEW b, GlobalSched(P, T, a, b)
  PROVE  /\ Good(parts', th', cur', run') /\ SameModes(P, parts')
         /\ Proper(P, T) => Moded(parts', th', cur', run')
<1> DEFINE s == NextSlot(slot)
           choice == IF a <= 0 THEN ElectPartition(P, T, s)
                               ELSE [partition |-> cur, table |-> T]
<1>1. s \in 1..NbSlots BY NextSlotInRange
<1>2. /\ choice.partition \in Partitions /\ Rows(choice.table)
      /\ Gentle(T, choice.table)
  <2>1. CASE a <= 0
    <3> HIDE DEF s
    <3> QED BY <1>1, <2>1, ElectPartitionKeeps
  <2>2. CASE ~ (a <= 0) BY <2>2 DEF Gentle
  <2> QED BY <2>1, <2>2
<1>3. cur' = choice.partition /\ Dispatch(P, choice.table, choice.partition)
  BY DEF GlobalSched
<1> HIDE DEF choice
<1>4. Proper(P, T) => Proper(P, choice.table) BY <1>2, GentleKeeps
<1> QED BY <1>2, <1>3, <1>4, DispatchKeeps
-----------------------------------------------------------------------------
(* Changes of one thread.                                                  *)

Differs(T, t, U) == Rows(U) /\ \A u \in 0..Idle : u # t => U[u] = T[u]

LEMMA RowSet ==
  ASSUME NEW T, Rows(T), NEW t \in 0..Idle, NEW r \in Row
  PROVE  Differs(T, t, [T EXCEPT ![t] = r])
BY DEF Rows, Differs

LEMMA StateSet ==
  ASSUME NEW T, Rows(T), NEW t \in 0..Idle, NEW s \in States
  PROVE  Differs(T, t, [T EXCEPT ![t].state = s])
<1> DEFINE r == [T[t] EXCEPT !.state = s]
<1>1. T[t] \in Row BY DEF Rows
<1>2. r \in Row BY <1>1 DEF Row
<1> QED BY <1>2, RowSet

LEMMA WakeSet ==
  ASSUME NEW T, Rows(T), NEW t \in 0..Idle, NEW s \in States, NEW w \in Nat
  PROVE  Differs(T, t, [T EXCEPT ![t].state = s, ![t].wake = w])
<1> DEFINE r == [T[t] EXCEPT !.state = s, !.wake = w]
<1>1. T[t] \in Row BY DEF Rows
<1>2. r \in Row BY <1>1 DEF Row
<1>3. [T EXCEPT ![t].state = s, ![t].wake = w] = [T EXCEPT ![t] = r]
  BY DEF Rows
<1> HIDE DEF r
<1> QED BY <1>2, <1>3, RowSet

LEMMA LeftSet ==
  ASSUME NEW T, Rows(T), NEW t \in 0..Idle, NEW s \in States, NEW n \in Int
  PROVE  Differs(T, t, [T EXCEPT ![t].state = s, ![t].left = n])
<1> DEFINE r == [T[t] EXCEPT !.state = s, !.left = n]
<1>1. T[t] \in Row BY DEF Rows
<1>2. r \in Row BY <1>1 DEF Row
<1>3. [T EXCEPT ![t].state = s, ![t].left = n] = [T EXCEPT ![t] = r]
  BY DEF Rows
<1> HIDE DEF r
<1> QED BY <1>2, <1>3, RowSet

LEMMA NextSet ==
  ASSUME NEW T, Rows(T), NEW t \in 0..Idle, NEW s \in States, NEW n \in Times
  PROVE  /\ Differs(T, t, [T EXCEPT ![t].state = s, ![t].next = n])
         /\ Differs(T, t, [T EXCEPT ![t].next = n])
<1> DEFINE r == [T[t] EXCEPT !.state = s, !.next = n]
           q == [T[t] EXCEPT !.next = n]
<1>1. T[t] \in Row BY DEF Rows
<1>2. r \in Row /\ q \in Row BY <1>1 DEF Row
<1>3. [T EXCEPT ![t].state = s, ![t].next = n] = [T EXCEPT ![t] = r]
  BY DEF Rows
<1>4. [T EXCEPT ![t].next = n] = [T EXCEPT ![t] = q] OBVIOUS
<1> HIDE DEF r, q
<1> QED BY <1>2, <1>3, <1>4, RowSet

LEMMA AgainSet ==
  ASSUME NEW T, Rows(T), NEW t \in 0..Idle, NEW s \in States, NEW w \in Nat,
         NEW n \in Int
  PROVE  Differs(T, t, [T EXCEPT ![t].state = s, ![t].wake = w, ![t].left = n])
<1> DEFINE r == [T[t] EXCEPT !.state = s, !.wake = w, !.left = n]
<1>1. T[t] \in Row BY DEF Rows
<1>2. r \in Row BY <1>1 DEF Row
<1>3. [T EXCEPT ![t].state = s, ![t].wake = w, ![t].left = n] = [T EXCEPT ![t] = r]
  BY DEF Rows
<1> HIDE DEF r
<1> QED BY <1>2, <1>3, RowSet

LEMMA CreatedRow ==
  ASSUME conf \in Configs, NEW t \in 0..Idle
  PROVE  /\ Created(t) \in Row
         /\ \A s \in States : [Created(t) EXCEPT !.state = s] \in Row
         /\ [Created(t) EXCEPT !.next = 0] \in Row
<1> DEFINE n == IF Aperiodic(t) THEN -conf.lag ELSE conf.period[t]
           d == IF conf.deadline[t] > 0 THEN conf.deadline[t] ELSE Zero
           c == conf.capacity[t]
<1>1. c \in Int BY AttributeFacts
<1>2. n \in Times
  <2>1. conf.period[t] = Infinite \/ conf.period[t] \in Nat BY AttributeFacts
  <2> QED BY <2>1, ZeroFacts DEF Times, Aperiodic
<1>3. d \in Times
  <2>1. conf.deadline[t] \in Nat BY AttributeFacts
  <2> QED BY <2>1, ZeroFacts DEF Times
<1>4. Created(t) = [state |-> "RUNNABLE", left |-> c, wake |-> 0, next |-> n, ddl |-> d]
  BY DEF Created
<1>5. 0 \in Times /\ "RUNNABLE" \in States BY ZeroFacts DEF Times, States
<1> HIDE DEF n, d, c
<1>6. Created(t) \in Row BY <1>1, <1>2, <1>3, <1>4, <1>5 DEF Row
<1> QED BY <1>5, <1>6 DEF Row
-----------------------------------------------------------------------------
(* The clock.                                                              *)

Rest(s) == SumFunctionOnSet(conf.slots, (s + 1)..NbSlots)

Clocked(s, l, f, q) ==
  /\ s \in 1..NbSlots /\ l \in Int /\ f \in Int
  /\ q \in 0..(conf.quantum - 1)
  /\ l > -q
  /\ f = l + Rest(s)

LEMMA RestFacts ==
  ASSUME conf \in Configs
  PROVE  /\ Rest(NbSlots) = 0
         /\ MajorFrame = Rest(0)
         /\ \A s \in 0..NbSlots : Rest(s) \in Nat
         /\ \A s \in 0..(NbSlots - 1) : Rest(s) = conf.slots[s + 1] + Rest(s + 1)
<1> DEFINE U(s) == (s + 1)..NbSlots
<1>1. /\ NbSlots \in Nat /\ NbSlots > 0
      /\ \A s \in 1..NbSlots : conf.slots[s] \in Nat
  BY ConfFacts
<1>2. ASSUME NEW s \in 0..NbSlots
      PROVE  /\ IsFiniteSet(U(s)) /\ \A x \in U(s) : conf.slots[x] \in Nat
             /\ \A x \in U(s) : conf.slots[x] \in Int
  <2>1. U(s) \subseteq 1..NbSlots BY <1>1
  <2>2. IsFiniteSet(U(s)) BY <1>1, FS_Interval
  <2> QED BY <1>1, <2>1, <2>2
<1>3. ASSUME NEW s \in 0..NbSlots PROVE Rest(s) \in Nat
  <2> HIDE DEF U
  <2>1. SumFunctionOnSet(conf.slots, U(s)) \in Nat BY <1>2, SumPositive
  <2> QED BY <2>1 DEF Rest, U
<1>4. ASSUME NEW s \in 0..(NbSlots - 1)
      PROVE  Rest(s) = conf.slots[s + 1] + Rest(s + 1)
  <2>1. s + 1 \in U(s) /\ U(s) \ {s + 1} = U(s + 1) BY <1>1
  <2>2. s \in 0..NbSlots BY <1>1
  <2> HIDE DEF U
  <2>3. SumFunctionOnSet(conf.slots, U(s))
          = conf.slots[s + 1] + SumFunctionOnSet(conf.slots, U(s) \ {s + 1})
    BY <1>2, <2>1, <2>2, SumWithout
  <2> QED BY <2>1, <2>3 DEF Rest, U
<1>5. Rest(NbSlots) = 0
  <2>1. U(NbSlots) = {} BY <1>1
  <2>2. SumFunctionOnSet(conf.slots, {}) = 0 BY FS_EmptySet, SumStep
  <2> QED BY <2>1, <2>2 DEF Rest
<1>6. MajorFrame = Rest(0)
  <2>1. conf.slots \in Seq(Nat)
    BY ConfigsAssumption DEF Consistent, Tables
  <2>2. DOMAIN conf.slots = 1..NbSlots BY <2>1 DEF NbSlots
  <2> QED BY <2>2 DEF MajorFrame, Rest, SumFunction
<1> QED BY <1>3, <1>4, <1>5, <1>6

(* A boundary that is noticed within a quantum is followed by the next one *)
(* at its distance, and the frame ends with the last slot.                 *)
LEMMA GlobalClock ==
  ASSUME conf \in Configs, slot \in 1..NbSlots, NEW P, NEW T,
         NEW a \in Int, a > -conf.quantum, NEW b, b = a + Rest(slot),
         GlobalSched(P, T, a, b), NEW q \in 0..(conf.quantum - 1)
  PROVE  Clocked(slot', left', frame', q)
<1> DEFINE s == NextSlot(slot)
<1>1. /\ slot' = IF a <= 0 THEN s ELSE slot
      /\ left' = IF a <= 0 THEN a + conf.slots[s] ELSE a
      /\ frame' = IF a <= 0 /\ b <= 0 THEN b + MajorFrame ELSE b
  BY DEF GlobalSched
<1>2. /\ s \in 1..NbSlots
      /\ slot < NbSlots => s = slot + 1
      /\ slot = NbSlots => s = 1
  BY NextSlotInRange
<1>3. /\ NbSlots \in Nat /\ conf.quantum \in Nat
      /\ conf.slots[s] \in Nat /\ conf.slots[s] >= conf.quantum
  BY <1>2, ConfFacts
<1>4. Rest(slot) \in Nat /\ Rest(s) \in Nat BY <1>2, <1>3, RestFacts
<1> HIDE DEF s
<1>5. CASE ~ (a <= 0)
  <2>1. slot' = slot /\ left' = a /\ frame' = b BY <1>1, <1>5
  <2> QED BY <2>1, <1>3, <1>4, <1>5 DEF Clocked
<1>6. CASE a <= 0 /\ slot < NbSlots
  <2>1. Rest(slot) = conf.slots[s] + Rest(s)
    <3>1. slot \in 0..(NbSlots - 1) BY <1>3, <1>6
    <3> QED BY <3>1, <1>2, <1>6, RestFacts
  <2>2. b > 0 BY <2>1, <1>3, <1>4, <1>6
  <2>3. slot' = s /\ left' = a + conf.slots[s] /\ frame' = b BY <1>1, <1>6, <2>2
  <2> QED BY <2>1, <2>3, <1>2, <1>3, <1>4, <1>6 DEF Clocked
<1>7. CASE a <= 0 /\ slot = NbSlots
  <2>1. Rest(slot) = 0 /\ MajorFrame = conf.slots[s] + Rest(s)
    <3>1. 0 \in 0..(NbSlots - 1) BY <1>3, <1>7
    <3>2. s = 0 + 1 BY <1>2, <1>7
    <3> QED BY <3>1, <3>2, <1>7, RestFacts
  <2>2. slot' = s /\ left' = a + conf.slots[s] /\ frame' = b + MajorFrame
    BY <1>1, <1>7, <2>1
  <2> QED BY <2>1, <2>2, <1>2, <1>3, <1>4, <1>7 DEF Clocked
<1>8. slot < NbSlots \/ slot = NbSlots BY <1>3
<1> QED BY <1>5, <1>6, <1>7, <1>8
-----------------------------------------------------------------------------
(* The steps.                                                              *)

(* Programs do not name main threads, and no handler is undefined.         *)
Tame == MainsSpared(conf) /\ ~refused

Decided == Tame => Moded(parts, th, cur, run)

Steady ==
  /\ conf \in Configs
  /\ refused \in BOOLEAN
  /\ Good(parts, th, cur, run)
  /\ Clocked(slot, left, frame, quantum)

LegalStep ==
  \A p \in Partitions :
    parts'[p].mode # parts[p].mode => cur = p /\ Legal(parts[p].mode, parts'[p].mode)

(* What a step leads to.                                                   *)
SteadyStep ==
  /\ conf' = conf
  /\ Good(parts', th', cur', run')
  /\ Clocked(slot', left', frame', quantum')

Outcome ==
  /\ SteadyStep
  /\ Tame => Moded(parts', th', cur', run') /\ LegalStep

(* Thread t is no main thread of a partition in NORMAL mode.               *)
MainFree(t) == \A p \in Partitions : parts[p].mode = "NORMAL" => t # Main(p)

LEMMA RunFacts ==
  ASSUME Steady
  PROVE  /\ conf \in Configs /\ Rows(th) /\ PartsTyped(parts) /\ cur \in Partitions
         /\ run \in 0..Idle /\ slot \in 1..NbSlots
         /\ \A t \in 0..Idle : th[t] \in Row
<1>1. /\ conf \in Configs /\ Rows(th) /\ PartsTyped(parts) /\ cur \in Partitions
      /\ run \in 0..Idle /\ slot \in 1..NbSlots
  BY DEF Steady, Good, Clocked
<1> QED BY <1>1 DEF Rows

LEMMA OwnFree ==
  ASSUME Steady, NEW t \in Only(cur), t # Main(cur)
  PROVE  MainFree(t)
<1>1. ASSUME NEW p \in Partitions, t = Main(p) PROVE FALSE
  <2>1. Main(p) \in Only(p) BY RunFacts, ThreadFacts
  <2>2. p = cur BY <1>1, <2>1, RunFacts, ThreadFacts
  <2> QED BY <1>1, <2>2
<1> QED BY <1>1 DEF MainFree

LEMMA CallerFree ==
  ASSUME Steady, Moded(parts, th, cur, run), run # Idle
  PROVE  MainFree(run)
<1>1. run \in Only(cur) BY DEF Moded, Fits
<1>2. CASE run # Main(cur) BY <1>1, <1>2, OwnFree
<1>3. CASE run = Main(cur)
  <2>1. parts[cur].mode # "NORMAL" BY <1>3 DEF Moded, Fits
  <2>2. ASSUME NEW p \in Partitions, run = Main(p) PROVE p = cur
    <3>1. Main(p) \in Only(p) BY RunFacts, ThreadFacts
    <3> QED BY <1>1, <2>2, <3>1, RunFacts, ThreadFacts
  <2> QED BY <2>1, <2>2 DEF MainFree
<1> QED BY <1>2, <1>3

LEMMA TargetFree ==
  ASSUME Steady, MainsSpared(conf), NEW t, Target(t)
  PROVE  MainFree(t)
<1>1. cur \in DOMAIN conf.nthreads BY RunFacts DEF Partitions
<1>2. t \in conf.targets[cur] BY DEF Target
<1>3. ASSUME NEW p \in Partitions PROVE conf.low[p] # t
  BY <1>1, <1>2 DEF MainsSpared, Partitions
<1> QED BY <1>3 DEF MainFree, Main, Low

LEMMA StillProper ==
  ASSUME Steady, NEW t, NEW T, Differs(th, t, T), MainFree(t), Proper(parts, th)
  PROVE  Proper(parts, T)
<1>1. ASSUME NEW p \in Partitions, parts[p].mode = "NORMAL"
      PROVE  T[Main(p)].state = "STOPPED"
  <2>1. Main(p) \in 0..Idle BY RunFacts, ThreadFacts
  <2>2. Main(p) # t BY <1>1 DEF MainFree
  <2>3. T[Main(p)] = th[Main(p)] BY <2>1, <2>2 DEF Differs
  <2> QED BY <1>1, <2>3 DEF Proper
<1> QED BY <1>1 DEF Proper

(* A service that ends with an election, after table T replaced th and P   *)
(* replaced parts.                                                         *)
LEMMA ElectingStep ==
  ASSUME Steady, NEW P, PartsTyped(P), NEW T, Rows(T),
         Tame =>
           /\ Proper(P, T)
           /\ \A p \in Partitions : P[p].mode # parts[p].mode =>
                cur = p /\ Legal(parts[p].mode, P[p].mode),
         Reschedule(P, T) \/ (P = parts /\ LocalSched(T))
  PROVE  Outcome
<1> DEFINE Fine == /\ Good(parts', th', cur', run') /\ SameModes(P, parts')
                   /\ Proper(P, T) => Moded(parts', th', cur', run')
<1>1. CASE Reschedule(P, T)
  <2>1. GlobalSched(P, T, left, frame) /\ conf' = conf /\ quantum' = quantum
    BY <1>1 DEF Reschedule
  <2>2. Fine BY <2>1, RunFacts, GlobalKeeps
  <2>3. /\ left \in Int /\ left > -conf.quantum /\ frame = left + Rest(slot)
        /\ quantum \in 0..(conf.quantum - 1)
    <3>1. conf.quantum \in Nat BY RunFacts, ConfFacts
    <3> QED BY <3>1 DEF Steady, Clocked
  <2>4. Clocked(slot', left', frame', quantum) BY <2>1, <2>3, RunFacts, GlobalClock
  <2>5. Tame => LegalStep BY <2>2 DEF SameModes, LegalStep
  <2> HIDE DEF Fine
  <2> QED BY <2>1, <2>2, <2>4, <2>5 DEF Outcome, SteadyStep, Fine
<1>2. CASE P = parts /\ LocalSched(T)
  <2>1. /\ Dispatch(P, T, cur) /\ conf' = conf /\ cur' = cur
        /\ slot' = slot /\ left' = left /\ frame' = frame /\ quantum' = quantum
    BY <1>2 DEF LocalSched, clock
  <2>2. Fine BY <2>1, RunFacts, DispatchKeeps
  <2>3. Clocked(slot', left', frame', quantum') BY <2>1 DEF Steady
  <2>4. Tame => LegalStep BY <2>2 DEF SameModes, LegalStep
  <2> HIDE DEF Fine
  <2> QED BY <2>1, <2>2, <2>3, <2>4 DEF Outcome, SteadyStep, Fine
<1> QED BY <1>1, <1>2

(* Such a service that acts on one thread.                                 *)
LEMMA ActingStep ==
  ASSUME Steady, Decided, NEW t, NEW T, Differs(th, t, T),
         Tame => MainFree(t),
         Reschedule(parts, T) \/ LocalSched(T)
  PROVE  Outcome
<1>1. Rows(T) BY DEF Differs
<1>2. Tame => Proper(parts, T)
  BY StillProper DEF Decided, Moded
<1> QED BY <1>1, <1>2, RunFacts, ElectingStep

(* A service that returns to its caller, without an election.              *)
LEMMA QuietStep ==
  ASSUME Steady, Decided, NEW t, NEW T, Differs(th, t, T),
         Tame => MainFree(t),
         th' = T, UNCHANGED <<conf, parts, cur, run, clock>>
  PROVE  Outcome
<1>1. Rows(T) BY DEF Differs
<1>2. Tame => Proper(parts, T)
  BY StillProper DEF Decided, Moded
<1>3. Clocked(slot', left', frame', quantum') BY DEF Steady, clock
<1>4. Good(parts', th', cur', run') BY <1>1 DEF Steady, Good
<1>5. Tame => Moded(parts', th', cur', run')
  BY <1>2 DEF Decided, Moded
<1>6. LegalStep BY DEF LegalStep
<1> QED BY <1>3, <1>4, <1>5, <1>6 DEF Outcome, SteadyStep

LEMMA LaterKeeps ==
  ASSUME Steady
  PROVE  Rows(Later) /\ Gentle(th, Later)
<1>1. ASSUME NEW n \in Times PROVE Earlier(n) \in Times
  BY RunFacts, ConfFacts, ZeroFacts DEF Earlier, Times, Zero
<1>2. ASSUME NEW t \in 0..Idle
      PROVE  Later[t] \in Row /\ Later[t].state = th[t].state
  <2>1. th[t] \in Row BY RunFacts
  <2>2. CASE t = Idle BY <2>1, <2>2 DEF Later
  <2>3. CASE t # Idle
    <3> DEFINE w == IF th[t].wake > 0 /\ th[t].state # "DELAYED_START"
                    THEN th[t].wake - 1 ELSE th[t].wake
               n == Earlier(th[t].next)
               d == Earlier(th[t].ddl)
               r == [th[t] EXCEPT !.wake = w, !.next = n, !.ddl = d]
    <3>1. w \in Nat BY <2>1 DEF Row
    <3>2. n \in Times /\ d \in Times BY <2>1, <1>1 DEF Row
    <3>3. Later[t] = r BY <2>3 DEF Later
    <3> HIDE DEF w, n, d
    <3>4. r \in Row /\ r.state = th[t].state BY <2>1, <3>1, <3>2 DEF Row
    <3> QED BY <3>3, <3>4
  <2> QED BY <2>2, <2>3
<1>3. Later = [t \in 0..Idle |-> Later[t]] BY DEF Later
<1> QED BY <1>2, <1>3 DEF Rows, Gentle

LEMMA TickStep ==
  ASSUME Steady, Decided, Tick
  PROVE  Outcome
<1>1. Rows(Later) /\ Gentle(th, Later) BY LaterKeeps
<1>2. Proper(parts, th) => Proper(parts, Later)
  BY <1>1, RunFacts, GentleKeeps
<1>3. Tame => Proper(parts, Later)
  BY <1>2 DEF Decided, Moded
<1>4. /\ conf.quantum \in Nat /\ conf.quantum > 0
      /\ quantum \in 0..(conf.quantum - 1)
      /\ left \in Int /\ left > -quantum /\ frame \in Int /\ frame = left + Rest(slot)
  BY RunFacts, ConfFacts DEF Steady, Clocked
<1>5. /\ quantum' \in 0..(conf.quantum - 1)
      /\ quantum' > 0 => quantum' = quantum + 1
  <2>1. quantum' = (quantum + 1) % conf.quantum BY DEF Tick, Count
  <2>2. CASE quantum + 1 < conf.quantum
    <3>1. (quantum + 1) % conf.quantum = quantum + 1 BY <1>4, <2>2
    <3> QED BY <1>4, <2>1, <2>2, <3>1
  <2>3. CASE quantum + 1 = conf.quantum
    <3>1. (quantum + 1) % conf.quantum = 0 BY <1>4, <2>3
    <3> QED BY <1>4, <2>1, <3>1
  <2> QED BY <1>4, <2>2, <2>3
<1> HIDE DEF Later
<1>6. Rest(slot) \in Nat
  BY RunFacts, RestFacts, ConfFacts
<1>7. CASE quantum' > 0
  <2>1. /\ left' = left - 1 /\ frame' = frame - 1 /\ th' = Later
        /\ UNCHANGED <<conf, parts, cur, run, slot>>
    BY <1>7 DEF Tick
  <2>2. Clocked(slot', left', frame', quantum')
    BY <2>1, <1>4, <1>5, <1>6, <1>7, RunFacts DEF Clocked
  <2>3. Good(parts', th', cur', run') BY <2>1, <1>1 DEF Steady, Good
  <2>4. Tame => Moded(parts', th', cur', run')
    BY <2>1, <1>3 DEF Decided, Moded
  <2>5. LegalStep BY <2>1 DEF LegalStep
  <2> QED BY <2>1, <2>2, <2>3, <2>4, <2>5 DEF Outcome, SteadyStep
<1>8. CASE ~ (quantum' > 0)
  <2>1. GlobalSched(parts, Later, left - 1, frame - 1) /\ conf' = conf
    BY <1>8 DEF Tick
  <2>2. /\ Good(parts', th', cur', run') /\ SameModes(parts, parts')
        /\ Proper(parts, Later) => Moded(parts', th', cur', run')
    BY <2>1, <1>1, RunFacts, GlobalKeeps
  <2>3. /\ left - 1 \in Int /\ left - 1 > -conf.quantum
        /\ frame - 1 = (left - 1) + Rest(slot)
    BY <1>4, <1>6
  <2>4. Clocked(slot', left', frame', quantum')
    BY <2>1, <2>3, <1>5, RunFacts, GlobalClock
  <2>5. LegalStep BY <2>2 DEF SameModes, LegalStep
  <2> QED BY <2>1, <2>2, <2>4, <2>5, <1>3 DEF Outcome, SteadyStep
<1> QED BY <1>7, <1>8
-----------------------------------------------------------------------------
(* The services.                                                           *)

LEMMA StateNames ==
  {"STOPPED", "RUNNABLE", "WAITING", "WAIT_NEXT_ACTIVATION", "DELAYED_START"}
    \subseteq States
BY DEF States

(* A field of the row of the partition that owns the processor.            *)
LEMMA MeFacts ==
  ASSUME Steady
  PROVE  /\ Me \in PartitionType /\ Me.mode \in Modes
         /\ Me.index \in Nat /\ Me.index >= 1 /\ Me.index <= conf.nthreads[cur]
         /\ Me.current \in 0..Idle /\ Me.error \in 0..Idle
<1>1. PartsTyped(parts) /\ cur \in Partitions BY RunFacts
<1>2. Me \in PartitionType BY <1>1 DEF PartsTyped, Me
<1>3. /\ Me.mode \in Modes /\ Me.index \in Nat
      /\ Me.current \in 0..Idle /\ Me.error \in 0..Idle
  BY <1>2 DEF PartitionType
<1> QED BY <1>1, <1>2, <1>3 DEF PartsTyped, Me

LEMMA MeProper ==
  ASSUME Steady, NEW T, Proper(parts, T)
  PROVE  /\ Me.current \in Only(cur) \union {Idle}
         /\ Me.error \in Handlers(cur)
BY RunFacts DEF Proper, Me

LEMMA NewThreadFacts ==
  ASSUME Steady, NewThread < High(cur)
  PROVE  /\ NewThread \in Only(cur) /\ NewThread # Main(cur) /\ NewThread \in 0..Idle
         /\ Me.index + 1 \in Nat /\ Me.index + 1 <= conf.nthreads[cur]
<1>1. /\ Me.index \in Nat /\ Me.index >= 1 BY MeFacts
<1>2. /\ Low(cur) \in Nat /\ High(cur) \in Nat /\ conf.nthreads[cur] \in Nat
      /\ High(cur) = Low(cur) + conf.nthreads[cur]
  BY RunFacts, PartitionFacts DEF High
<1>3. NewThread = Low(cur) + Me.index /\ NewThread < High(cur)
  BY DEF NewThread
<1>4. NewThread \in Only(cur) /\ NewThread # Main(cur)
  BY <1>1, <1>2, <1>3 DEF Only, Main
<1>5. NewThread \in 0..Idle BY <1>4, RunFacts, ThreadFacts
<1> QED BY <1>1, <1>2, <1>3, <1>4, <1>5

(* A row of the partition that owns the processor is replaced.             *)
LEMMA PartSet ==
  ASSUME Steady, NEW r \in PartitionType,
         r.index >= 1 /\ r.index <= conf.nthreads[cur]
  PROVE  LET Q == [parts EXCEPT ![cur] = r]
         IN  /\ PartsTyped(Q) /\ Q[cur] = r
             /\ \A p \in Partitions : p # cur => Q[p] = parts[p]
<1> DEFINE Q == [parts EXCEPT ![cur] = r]
<1>1. PartsTyped(parts) /\ cur \in Partitions BY RunFacts
<1>2. parts \in [Partitions -> PartitionType] BY <1>1 DEF PartsTyped
<1>3. /\ Q \in [Partitions -> PartitionType] /\ Q[cur] = r
      /\ \A p \in Partitions : p # cur => Q[p] = parts[p]
  BY <1>1, <1>2
<1> HIDE DEF Q
<1>4. ASSUME NEW p \in Partitions
      PROVE  Q[p].index >= 1 /\ Q[p].index <= conf.nthreads[p]
  <2>1. CASE p = cur BY <2>1, <1>3
  <2>2. CASE p # cur BY <2>2, <1>1, <1>3 DEF PartsTyped
  <2> QED BY <2>1, <2>2
<1>5. PartsTyped(Q) BY <1>3, <1>4 DEF PartsTyped
<1> QED BY <1>3, <1>5 DEF Q

LEMMA ProperSet ==
  ASSUME NEW Q, \A p \in Partitions : p # cur => Q[p] = parts[p],
         Q[cur].current \in Only(cur) \union {Idle}, Q[cur].error \in Handlers(cur),
         NEW T, Proper(parts, th),
         \A p \in Partitions : Q[p].mode = "NORMAL" => T[Main(p)].state = "STOPPED"
  PROVE  Proper(Q, T)
BY DEF Proper

LEMMA CreateStep ==
  ASSUME Steady, Decided, CreateThread
  PROVE  Outcome
<1> DEFINE row == [Created(NewThread) EXCEPT !.state = FirstState]
           T   == [th EXCEPT ![NewThread] = row]
           r   == [parts[cur] EXCEPT !.index = Me.index + 1]
           Q   == [parts EXCEPT ![cur] = r]
<1>1. /\ MayCreate /\ th' = T /\ parts' = [parts EXCEPT ![cur].index = @ + 1]
      /\ UNCHANGED <<conf, cur, run, clock>>
  BY DEF CreateThread
<1>2. /\ NewThread \in Only(cur) /\ NewThread # Main(cur) /\ NewThread \in 0..Idle
      /\ Me.index + 1 \in Nat /\ Me.index + 1 <= conf.nthreads[cur]
  BY <1>1, NewThreadFacts DEF MayCreate
<1>3. row \in Row
  <2>1. FirstState \in States BY StateNames DEF FirstState
  <2> QED BY <2>1, <1>2, RunFacts, CreatedRow
<1> HIDE DEF row
<1>4. Differs(th, NewThread, T) BY <1>2, <1>3, RunFacts, RowSet
<1>5. parts' = Q BY <1>1 DEF Me
<1>6. /\ r \in PartitionType /\ r.index = Me.index + 1
      /\ r.mode = Me.mode /\ r.current = Me.current /\ r.error = Me.error
  BY <1>2, MeFacts DEF PartitionType, Me
<1> HIDE DEF r, T
<1>7. /\ PartsTyped(Q) /\ Q[cur] = r
      /\ \A p \in Partitions : p # cur => Q[p] = parts[p]
  <2>1. r.index >= 1 /\ r.index <= conf.nthreads[cur] BY <1>2, <1>6, MeFacts
  <2> QED BY <2>1, <1>6, PartSet
<1> HIDE DEF Q
<1>8. \A p \in Partitions : Q[p].mode = parts[p].mode /\ Q[p].error = parts[p].error
  BY <1>6, <1>7 DEF Me
<1>9. Tame => Proper(Q, T) /\ Fits(Q, cur, run)
  <2>1. SUFFICES ASSUME Tame PROVE Proper(Q, T) /\ Fits(Q, cur, run)
    OBVIOUS
  <2>2. Proper(parts, th) /\ Fits(parts, cur, run) BY <2>1 DEF Decided, Moded
  <2>3. MainFree(NewThread) BY <1>2, OwnFree
  <2>4. Proper(parts, T) BY <1>4, <2>2, <2>3, StillProper
  <2>5. \A p \in Partitions : Q[p].mode = "NORMAL" => T[Main(p)].state = "STOPPED"
    BY <2>4, <1>8 DEF Proper
  <2>6. Q[cur].current \in Only(cur) \union {Idle} /\ Q[cur].error \in Handlers(cur)
    BY <2>2, <1>6, <1>7, MeProper
  <2>7. Proper(Q, T) BY <2>2, <2>5, <2>6, <1>7, ProperSet
  <2>8. Fits(Q, cur, run) BY <2>2, <1>8, RunFacts DEF Fits
  <2> QED BY <2>7, <2>8
<1>10. LegalStep BY <1>5, <1>8 DEF LegalStep
<1>11. Good(parts', th', cur', run')
  <2>1. Rows(T) BY <1>4 DEF Differs
  <2> QED BY <2>1, <1>1, <1>5, <1>7 DEF Steady, Good
<1>12. Clocked(slot', left', frame', quantum') BY <1>1 DEF Steady, clock
<1> QED BY <1>1, <1>5, <1>9, <1>10, <1>11, <1>12 DEF Outcome, SteadyStep, Moded

LEMMA CreateErrorStep ==
  ASSUME Steady, Decided, CreateErrorThread
  PROVE  Outcome
<1> DEFINE row == [Created(NewThread) EXCEPT !.next = 0]
           T   == [th EXCEPT ![NewThread] = row]
           r   == [parts[cur] EXCEPT !.index = Me.index + 1, !.error = NewThread]
           Q   == [parts EXCEPT ![cur] = r]
<1>1. /\ NewThread < High(cur) /\ th' = T /\ run' = NewThread /\ run # Idle
      /\ parts' = [parts EXCEPT ![cur].index = @ + 1, ![cur].error = NewThread]
      /\ UNCHANGED <<conf, cur, clock>>
  BY DEF CreateErrorThread, Caller
<1>2. /\ NewThread \in Only(cur) /\ NewThread # Main(cur) /\ NewThread \in 0..Idle
      /\ Me.index + 1 \in Nat /\ Me.index + 1 <= conf.nthreads[cur]
  BY <1>1, NewThreadFacts
<1>3. row \in Row BY <1>2, RunFacts, CreatedRow
<1> HIDE DEF row
<1>4. Differs(th, NewThread, T) BY <1>2, <1>3, RunFacts, RowSet
<1>5. parts' = Q BY <1>1, RunFacts DEF Me, PartsTyped
<1>6. /\ r \in PartitionType /\ r.index = Me.index + 1
      /\ r.mode = Me.mode /\ r.current = Me.current /\ r.error = NewThread
  BY <1>2, MeFacts DEF PartitionType, Me
<1> HIDE DEF r, T
<1>7. /\ PartsTyped(Q) /\ Q[cur] = r
      /\ \A p \in Partitions : p # cur => Q[p] = parts[p]
  <2>1. r.index >= 1 /\ r.index <= conf.nthreads[cur] BY <1>2, <1>6, MeFacts
  <2> QED BY <2>1, <1>6, PartSet
<1> HIDE DEF Q
<1>8. \A p \in Partitions : Q[p].mode = parts[p].mode
  BY <1>6, <1>7 DEF Me
<1>9. Tame => Proper(Q, T) /\ Fits(Q, cur, NewThread)
  <2>1. SUFFICES ASSUME Tame
                 PROVE  Proper(Q, T) /\ Fits(Q, cur, NewThread)
    OBVIOUS
  <2>2. Proper(parts, th) /\ Fits(parts, cur, run) BY <2>1 DEF Decided, Moded
  <2>3. MainFree(NewThread) BY <1>2, OwnFree
  <2>4. Proper(parts, T) BY <1>4, <2>2, <2>3, StillProper
  <2>5. \A p \in Partitions : Q[p].mode = "NORMAL" => T[Main(p)].state = "STOPPED"
    BY <2>4, <1>8 DEF Proper
  <2>6. /\ Q[cur].current \in Only(cur) \union {Idle}
        /\ Q[cur].error = NewThread /\ Q[cur].error \in Handlers(cur)
    BY <2>2, <1>2, <1>6, <1>7, MeProper DEF Handlers
  <2>7. Proper(Q, T) BY <2>2, <2>5, <2>6, <1>7, ProperSet
  <2>8. Fits(Q, cur, NewThread)
    <3>1. parts[cur].mode # "STOPPED" BY <2>2, <1>1 DEF Fits
    <3> QED BY <3>1, <2>6, <1>2, <1>8, RunFacts DEF Fits
  <2> QED BY <2>7, <2>8
<1>10. LegalStep BY <1>5, <1>8 DEF LegalStep
<1>11. Good(parts', th', cur', run')
  <2>1. Rows(T) BY <1>4 DEF Differs
  <2> QED BY <2>1, <1>1, <1>2, <1>5, <1>7 DEF Steady, Good
<1>12. Clocked(slot', left', frame', quantum') BY <1>1 DEF Steady, clock
<1> QED BY <1>1, <1>5, <1>9, <1>10, <1>11, <1>12 DEF Outcome, SteadyStep, Moded

LEMMA ActivatedDiffers ==
  ASSUME Steady, NEW t \in 0..Idle
  PROVE  Differs(th, t, Activated(t))
<1>1. 0 \in Times BY RunFacts, ZeroFacts DEF Times
<1>2. "RUNNABLE" \in States BY StateNames
<1> QED BY <1>1, <1>2, RunFacts, NextSet DEF Activated

LEMMA RaiseStep ==
  ASSUME Steady, Decided, RaiseError
  PROVE  Outcome
<1> DEFINE e == Me.error
           T == Activated(e)
<1>1. /\ Caller("raise") /\ HasHandler /\ th' = T /\ run' = e
      /\ UNCHANGED <<conf, cur, parts, clock>>
  BY DEF RaiseError
<1>2. e # NoHandler /\ run # Idle BY <1>1 DEF HasHandler, Caller
<1>3. e \in 0..Idle BY MeFacts
<1>4. Differs(th, e, T) BY <1>3, ActivatedDiffers
<1>9. ASSUME Proper(parts, th) PROVE e \in Only(cur) /\ e # Main(cur)
  BY <1>2, <1>9, MeProper DEF Handlers
<1> HIDE DEF e
<1> HIDE DEF T
<1>5. Tame => Moded(parts, T, cur, e)
  <2>1. SUFFICES ASSUME Tame PROVE Moded(parts, T, cur, e) OBVIOUS
  <2>2. Proper(parts, th) /\ Fits(parts, cur, run) BY <2>1 DEF Decided, Moded
  <2>3. Proper(parts, T) BY <1>4, <1>9, <2>2, OwnFree, StillProper
  <2>4. Fits(parts, cur, e) BY <1>2, <1>9, <2>2 DEF Fits, e, Me
  <2> QED BY <2>3, <2>4 DEF Moded
<1>6. Good(parts', th', cur', run')
  <2>1. Rows(T) BY <1>4 DEF Differs
  <2> QED BY <2>1, <1>1, <1>3 DEF Steady, Good
<1>7. LegalStep BY <1>1 DEF LegalStep
<1>8. Clocked(slot', left', frame', quantum') BY <1>1 DEF Steady, clock
<1> QED BY <1>1, <1>5, <1>6, <1>7, <1>8 DEF Outcome, SteadyStep

(* Services on the thread that calls.                                      *)
LEMMA SelfStep ==
  ASSUME Steady, Decided,
         \/ Suspend \/ EndPeriod
         \/ \E delay \in conf.delays : Sleep(delay)
  PROVE  Outcome
<1>1. ASSUME NEW s, Caller(s)
      PROVE  run \in 0..Idle /\ (Tame => MainFree(run))
  BY <1>1, RunFacts, CallerFree DEF Caller, Decided
<1>2. CASE Suspend
  <2> DEFINE T == SetState(run, "STOPPED")
  <2>1. Caller("suspend") /\ LocalSched(T) BY <1>2 DEF Suspend
  <2>2. Differs(th, run, T)
    BY <1>1, <2>1, RunFacts, StateNames, StateSet DEF SetState
  <2> HIDE DEF T
  <2> QED BY <1>1, <2>1, <2>2, ActingStep
<1>3. CASE EndPeriod
  <2> DEFINE T == [th EXCEPT ![run].state = "WAIT_NEXT_ACTIVATION", ![run].left = 0]
  <2>1. Caller("end_period") /\ LocalSched(T) BY <1>3 DEF EndPeriod
  <2>2. Differs(th, run, T)
    BY <1>1, <2>1, RunFacts, StateNames, LeftSet
  <2> HIDE DEF T
  <2> QED BY <1>1, <2>1, <2>2, ActingStep
<1>4. ASSUME NEW delay \in conf.delays, Sleep(delay) PROVE Outcome
  <2> DEFINE T == [th EXCEPT ![run].state = "WAITING", ![run].wake = delay]
  <2>1. Caller("sleep") /\ LocalSched(T) BY <1>4 DEF Sleep
  <2>2. delay \in Nat BY RunFacts, ConfFacts
  <2>3. Differs(th, run, T)
    BY <1>1, <2>1, <2>2, RunFacts, StateNames, WakeSet
  <2> HIDE DEF T
  <2> QED BY <1>1, <2>1, <2>3, ActingStep
<1> QED BY <1>2, <1>3, <1>4

(* Services on a thread that the caller names.                             *)
LEMMA TargetStep ==
  ASSUME Steady, Decided, NEW id \in 0..Idle,
         \/ Resume(id) \/ SuspendTarget(id) \/ StopThread(id) \/ RestartThread(id)
  PROVE  Outcome
<1>1. Target(id)
  BY DEF Resume, SuspendTarget, StopThread, RestartThread
<1>2. Tame => MainFree(id) BY <1>1, TargetFree DEF Tame
<1>3. CASE Resume(id)
  <2> DEFINE T == [th EXCEPT ![id].state = "RUNNABLE", ![id].wake = 0]
  <2>1. Reschedule(parts, T) BY <1>3 DEF Resume
  <2>2. Differs(th, id, T) BY RunFacts, StateNames, WakeSet
  <2> HIDE DEF T
  <2> QED BY <1>2, <2>1, <2>2, ActingStep
<1>4. CASE SuspendTarget(id)
  <2> DEFINE T == SetState(id, "STOPPED")
  <2>1. th' = T /\ UNCHANGED <<conf, parts, cur, run, clock>>
    BY <1>4 DEF SuspendTarget
  <2>2. Differs(th, id, T) BY RunFacts, StateNames, StateSet DEF SetState
  <2> HIDE DEF T
  <2> QED BY <1>2, <2>1, <2>2, QuietStep
<1>5. CASE StopThread(id)
  <2> DEFINE T == SetState(id, "STOPPED")
  <2>1. Reschedule(parts, T) BY <1>5 DEF StopThread
  <2>2. Differs(th, id, T) BY RunFacts, StateNames, StateSet DEF SetState
  <2> HIDE DEF T
  <2> QED BY <1>2, <2>1, <2>2, ActingStep
<1>6. CASE RestartThread(id)
  <2> DEFINE T == Restarted(id)
  <2>1. Reschedule(parts, T) BY <1>6 DEF RestartThread
  <2>2. conf.capacity[id] \in Int BY RunFacts, AttributeFacts
  <2>3. Differs(th, id, T)
    <3>1. "WAIT_NEXT_ACTIVATION" \in States BY StateNames
    <3>2. T = [th EXCEPT ![id].state = "WAIT_NEXT_ACTIVATION", ![id].wake = 0,
                         ![id].left = conf.capacity[id]]
      BY DEF Restarted
    <3> HIDE DEF T
    <3> QED BY <2>2, <3>1, <3>2, RunFacts, AgainSet
  <2> HIDE DEF T
  <2> QED BY <1>2, <2>1, <2>3, ActingStep
<1> QED BY <1>3, <1>4, <1>5, <1>6

LEMMA DelayedStep ==
  ASSUME Steady, Decided, NEW id \in 0..Idle, NEW delay \in conf.delays,
         DelayedStart(id, delay)
  PROVE  Outcome
<1>1. Target(id) BY DEF DelayedStart
<1>2. Tame => MainFree(id) BY <1>1, TargetFree DEF Tame
<1>3. delay \in Nat /\ delay \in Times
  BY RunFacts, ConfFacts, ZeroFacts DEF Times
<1>4. th[id] \in Row BY RunFacts
<1> DEFINE s == IF delay = 0 THEN "RUNNABLE" ELSE "WAITING"
           w == IF delay = 0 THEN th[id].wake ELSE delay
           A == [th EXCEPT ![id].state = s, ![id].wake = w]
           B == [th EXCEPT ![id].next = delay]
           C == [th EXCEPT ![id].state = "DELAYED_START", ![id].wake = delay]
<1>5. s \in States /\ w \in Nat BY <1>3, <1>4, StateNames DEF Row
<1>6. \/ Reschedule(parts, A)
      \/ th' = B /\ UNCHANGED <<conf, parts, cur, run, clock>>
      \/ th' = C /\ UNCHANGED <<conf, parts, cur, run, clock>>
  BY DEF DelayedStart
<1> HIDE DEF s, w
<1>7. Differs(th, id, A) BY <1>5, RunFacts, WakeSet
<1>8. Differs(th, id, B)
  <2>1. "RUNNABLE" \in States BY StateNames
  <2> QED BY <2>1, <1>3, RunFacts, NextSet
<1>9. Differs(th, id, C) BY <1>3, RunFacts, StateNames, WakeSet
<1> HIDE DEF A, B, C
<1>10. CASE Reschedule(parts, A) BY <1>2, <1>7, <1>10, ActingStep
<1>11. CASE th' = B /\ UNCHANGED <<conf, parts, cur, run, clock>>
  BY <1>2, <1>8, <1>11, QuietStep
<1>12. CASE th' = C /\ UNCHANGED <<conf, parts, cur, run, clock>>
  BY <1>2, <1>9, <1>12, QuietStep
<1> QED BY <1>6, <1>10, <1>11, <1>12

LEMMA NormalStep ==
  ASSUME Steady, Decided, SetNormal
  PROVE  Outcome
<1> DEFINE r == [parts[cur] EXCEPT !.mode = "NORMAL"]
           Q == [parts EXCEPT ![cur] = r]
           T == AllStarted
<1>1. /\ run # Idle /\ run = Main(cur) /\ Reschedule(Q, T)
  BY DEF SetNormal, Caller, IsMain
<1>2. /\ r \in PartitionType /\ r.mode = "NORMAL"
      /\ r.index = Me.index /\ r.current = Me.current /\ r.error = Me.error
  BY MeFacts DEF PartitionType, Modes, Me
<1> HIDE DEF r
<1>3. /\ PartsTyped(Q) /\ Q[cur] = r
      /\ \A p \in Partitions : p # cur => Q[p] = parts[p]
  BY <1>2, MeFacts, PartSet
<1> HIDE DEF Q
<1>4. ASSUME NEW t \in 0..Idle
      PROVE  /\ T[t] \in Row
             /\ t = run => T[t].state = "STOPPED"
             /\ t \notin Only(cur) => T[t] = th[t]
  <2>1. th[t] \in Row BY RunFacts
  <2>2. Started(th[t]) \in Row
    <3> DEFINE s == IF th[t].wake = 0 THEN "RUNNABLE" ELSE "WAITING"
    <3>1. s \in States BY StateNames
    <3>2. Started(th[t]) = IF th[t].state # "DELAYED_START" THEN th[t]
                           ELSE [th[t] EXCEPT !.state = s]
      BY DEF Started
    <3> HIDE DEF s
    <3>3. [th[t] EXCEPT !.state = s] \in Row BY <2>1, <3>1 DEF Row
    <3> QED BY <2>1, <3>2, <3>3
  <2>3. /\ [Started(th[t]) EXCEPT !.state = "STOPPED"] \in Row
        /\ [Started(th[t]) EXCEPT !.state = "STOPPED"].state = "STOPPED"
    BY <2>2, StateNames DEF Row
  <2>4. T[t] = IF t = run THEN [Started(th[t]) EXCEPT !.state = "STOPPED"]
               ELSE IF t \in Only(cur) THEN Started(th[t]) ELSE th[t]
    BY DEF AllStarted
  <2>5. run \in Only(cur) BY <1>1, RunFacts, ThreadFacts
  <2> HIDE DEF T
  <2> QED BY <2>1, <2>2, <2>3, <2>4, <2>5
<1>5. Rows(T)
  <2>1. T = [t \in 0..Idle |-> T[t]] BY DEF AllStarted
  <2> HIDE DEF T
  <2> QED BY <2>1, <1>4 DEF Rows
<1> HIDE DEF T
<1>6. ASSUME Tame
      PROVE  /\ Proper(Q, T)
             /\ \A p \in Partitions : Q[p].mode # parts[p].mode =>
                  cur = p /\ Legal(parts[p].mode, Q[p].mode)
  <2>1. Proper(parts, th) /\ Fits(parts, cur, run) BY <1>6 DEF Decided, Moded
  <2>2. ASSUME NEW p \in Partitions, Q[p].mode = "NORMAL"
        PROVE  T[Main(p)].state = "STOPPED"
    <3>1. Main(p) \in Only(p) /\ Main(p) \in 0..Idle BY RunFacts, ThreadFacts
    <3>2. CASE p = cur BY <3>1, <3>2, <1>1, <1>4
    <3>3. CASE p # cur
      <4>1. Main(p) \notin Only(cur) BY <3>1, <3>3, RunFacts, ThreadFacts
      <4>2. T[Main(p)] = th[Main(p)] BY <3>1, <4>1, <1>4
      <4> QED BY <4>2, <3>3, <2>1, <2>2, <1>3 DEF Proper
    <3> QED BY <3>2, <3>3
  <2>3. parts[cur].mode \in InitModes
    <3>1. parts[cur].mode \in InitModes \union {"NORMAL", "STOPPED"}
      BY MeFacts DEF Me, Modes
    <3> QED BY <3>1, <2>1, <1>1 DEF Fits
  <2>4. Legal(parts[cur].mode, Q[cur].mode) BY <2>3, <1>2, <1>3 DEF Legal
  <2>5. Q[cur].current \in Only(cur) \union {Idle} /\ Q[cur].error \in Handlers(cur)
    BY <2>1, <1>2, <1>3, MeProper
  <2>6. Proper(Q, T) BY <2>1, <2>2, <2>5, <1>3, ProperSet
  <2> QED BY <2>4, <2>6, <1>3
<1> QED BY <1>1, <1>3, <1>5, <1>6, ElectingStep

LEMMA StoppedStep ==
  ASSUME Steady, Decided, SetStopped
  PROVE  Outcome
<1> DEFINE r == [parts[cur] EXCEPT !.mode = "STOPPED"]
           Q == [parts EXCEPT ![cur] = r]
<1>1. /\ run # Idle /\ Reschedule(Q, th)
  BY DEF SetStopped, Caller
<1>2. /\ r \in PartitionType /\ r.mode = "STOPPED"
      /\ r.index = Me.index /\ r.current = Me.current /\ r.error = Me.error
  BY MeFacts DEF PartitionType, Modes, Me
<1> HIDE DEF r
<1>3. /\ PartsTyped(Q) /\ Q[cur] = r
      /\ \A p \in Partitions : p # cur => Q[p] = parts[p]
  BY <1>2, MeFacts, PartSet
<1> HIDE DEF Q
<1>4. ASSUME Tame
      PROVE  /\ Proper(Q, th)
             /\ \A p \in Partitions : Q[p].mode # parts[p].mode =>
                  cur = p /\ Legal(parts[p].mode, Q[p].mode)
  <2>1. Proper(parts, th) /\ Fits(parts, cur, run) BY <1>4 DEF Decided, Moded
  <2>2. Proper(Q, th)
    <3>1. ASSUME NEW p \in Partitions, Q[p].mode = "NORMAL"
          PROVE  parts[p].mode = "NORMAL"
      BY <3>1, <1>2, <1>3
    <3>2. \A p \in Partitions : Q[p].mode = "NORMAL" => th[Main(p)].state = "STOPPED"
      BY <3>1, <2>1 DEF Proper
    <3>3. Q[cur].current \in Only(cur) \union {Idle} /\ Q[cur].error \in Handlers(cur)
      BY <2>1, <1>2, <1>3, MeProper
    <3> QED BY <3>2, <3>3, <2>1, <1>3, ProperSet
  <2>3. parts[cur].mode \in InitModes \union {"NORMAL"}
    <3>1. parts[cur].mode \in InitModes \union {"NORMAL", "STOPPED"}
      BY MeFacts DEF Me, Modes
    <3> QED BY <3>1, <2>1, <1>1 DEF Fits
  <2>4. Legal(parts[cur].mode, Q[cur].mode) BY <2>3, <1>2, <1>3 DEF Legal
  <2> QED BY <2>2, <2>4, <1>3
<1> QED BY <1>1, <1>3, <1>4, RunFacts, ElectingStep

LEMMA InitStep ==
  ASSUME Steady, Decided, NEW m \in InitModes, SetInit(m)
  PROVE  Outcome
<1> DEFINE r == [mode |-> m, index |-> 1, current |-> Low(cur), error |-> NoHandler]
           Q == [parts EXCEPT ![cur] = r]
           T == [th EXCEPT ![Main(cur)] = Created(Main(cur))]
<1>1. /\ run # Idle /\ Reschedule(Q, T)
      /\ ~(parts[cur].mode = "INIT_COLD" /\ m = "INIT_WARM")
  BY DEF SetInit, Caller, Me
<1>2. Low(cur) \in Only(cur) /\ Low(cur) \in 0..Idle /\ Main(cur) = Low(cur)
  BY RunFacts, ThreadFacts DEF Main
<1>3. 0 \in 0..Idle BY RunFacts, ThreadFacts
<1>4. r \in PartitionType /\ r.mode = m
  BY <1>2, <1>3 DEF PartitionType, Modes, NoHandler
<1>5. /\ PartsTyped(Q) /\ Q[cur] = r
      /\ \A p \in Partitions : p # cur => Q[p] = parts[p]
  <2>1. 1 <= conf.nthreads[cur]
    <3>1. /\ Low(cur) \in Nat /\ conf.nthreads[cur] \in Nat /\ Low(cur) < High(cur)
          /\ High(cur) = Low(cur) + conf.nthreads[cur]
      BY RunFacts, PartitionFacts DEF High
    <3> QED BY <3>1
  <2>2. /\ r.index = 1 /\ r.current = Low(cur) /\ r.error = NoHandler OBVIOUS
  <2> HIDE DEF r
  <2> QED BY <2>1, <2>2, <1>2, <1>4, PartSet
<1>6. Differs(th, Main(cur), T)
  BY <1>2, RunFacts, CreatedRow, RowSet
<1>9. r.current = Low(cur) /\ r.error = NoHandler OBVIOUS
<1> HIDE DEF r, Q, T
<1>7. ASSUME Tame
      PROVE  /\ Proper(Q, T)
             /\ \A p \in Partitions : Q[p].mode # parts[p].mode =>
                  cur = p /\ Legal(parts[p].mode, Q[p].mode)
  <2>1. Proper(parts, th) /\ Fits(parts, cur, run) BY <1>7 DEF Decided, Moded
  <2>2. ASSUME NEW p \in Partitions, Q[p].mode = "NORMAL"
        PROVE  T[Main(p)].state = "STOPPED"
    <3>1. p # cur BY <2>2, <1>4, <1>5 DEF InitModes
    <3>2. /\ Main(p) \in 0..Idle /\ Main(p) \in Only(p)
      BY RunFacts, ThreadFacts
    <3>3. Main(p) # Main(cur)
      BY <1>2, <3>1, <3>2, RunFacts, ThreadFacts
    <3>4. T[Main(p)] = th[Main(p)] BY <3>2, <3>3, <1>6 DEF Differs
    <3> QED BY <3>1, <3>4, <2>1, <2>2, <1>5 DEF Proper
  <2>3. parts[cur].mode \in InitModes \union {"NORMAL"}
    <3>1. parts[cur].mode \in InitModes \union {"NORMAL", "STOPPED"}
      BY MeFacts DEF Me, Modes
    <3> QED BY <3>1, <2>1, <1>1 DEF Fits
  <2>4. parts[cur].mode # Q[cur].mode => Legal(parts[cur].mode, Q[cur].mode)
    BY <2>3, <1>1, <1>4, <1>5 DEF Legal, InitModes
  <2>5. Q[cur].current \in Only(cur) \union {Idle} /\ Q[cur].error \in Handlers(cur)
    BY <1>2, <1>5, <1>9 DEF Handlers
  <2>6. Proper(Q, T) BY <2>1, <2>2, <2>5, <1>5, ProperSet
  <2> QED BY <2>4, <2>6, <1>5
<1>8. Rows(T) BY <1>6 DEF Differs
<1> QED BY <1>1, <1>5, <1>7, <1>8, ElectingStep
-----------------------------------------------------------------------------
(* The theorems.                                                           *)

IInv == Steady /\ Decided

LEMMA InitHolds == Init => IInv
<1> SUFFICES ASSUME Init PROVE IInv OBVIOUS
<1>0. conf \in Configs BY DEF Init
<1>1. Rows(th)
  <2>1. Unused \in Row /\ [Unused EXCEPT !.state = "RUNNABLE"] \in Row
    <3>1. Zero \in Times /\ Infinite \in Int
      BY <1>0, ZeroFacts DEF Times, Infinite
    <3> QED BY <3>1, StateNames DEF Unused, Row
  <2> QED BY <2>1 DEF Init, Rows
<1> DEFINE r == [mode |-> "INIT_WARM", index |-> 1, current |-> Idle, error |-> NoHandler]
<1>2. /\ parts = [p \in Partitions |-> r] /\ cur = Allocated(1) /\ run = Idle
      /\ slot = 1 /\ left = conf.slots[1] /\ frame = MajorFrame /\ quantum = 0
  BY DEF Init
<1>3. /\ r \in PartitionType /\ r.mode = "INIT_WARM" /\ r.index = 1
      /\ r.current = Idle /\ r.error = NoHandler
  <2>1. Idle \in 0..Idle /\ 0 \in 0..Idle BY <1>0, ThreadFacts
  <2> QED BY <2>1 DEF PartitionType, Modes, InitModes, NoHandler
<1> HIDE DEF r
<1>4. ASSUME NEW p \in Partitions PROVE 1 <= conf.nthreads[p]
  <2>1. /\ Low(p) \in Nat /\ conf.nthreads[p] \in Nat /\ Low(p) < High(p)
        /\ High(p) = Low(p) + conf.nthreads[p]
    BY <1>0, PartitionFacts DEF High
  <2> QED BY <2>1
<1>5. PartsTyped(parts) BY <1>2, <1>3, <1>4 DEF PartsTyped
<1>6. /\ NbSlots \in Nat /\ NbSlots > 0 /\ 1 \in 1..NbSlots
      /\ conf.slots[1] \in Nat /\ conf.slots[1] >= conf.quantum
      /\ conf.quantum \in Nat /\ conf.quantum > 0
      /\ Allocated(1) \in Partitions
  BY <1>0, ConfFacts
<1>7. Good(parts, th, cur, run)
  BY <1>0, <1>1, <1>2, <1>5, <1>6, ThreadFacts DEF Good
<1>8. Clocked(slot, left, frame, quantum)
  <2>1. Rest(0) = conf.slots[1] + Rest(1) /\ Rest(1) \in Nat /\ MajorFrame = Rest(0)
    <3>1. 0 \in 0..(NbSlots - 1) /\ 1 = 0 + 1 /\ 1 \in 0..NbSlots BY <1>6
    <3> QED BY <3>1, <1>0, RestFacts
  <2> QED BY <2>1, <1>2, <1>6 DEF Clocked
<1>9. Proper(parts, th) /\ Fits(parts, cur, run)
  <2>1. \A p \in Partitions : /\ parts[p].mode = "INIT_WARM"
                              /\ parts[p].current = Idle /\ parts[p].error = NoHandler
    BY <1>2, <1>3
  <2> QED BY <2>1, <1>2, <1>6 DEF Proper, Fits, Handlers, InitModes
<1>10. refused \in BOOLEAN BY DEF Init
<1> QED BY <1>0, <1>7, <1>8, <1>9, <1>10 DEF IInv, Steady, Decided, Moded

LEMMA StepLeads ==
  ASSUME Steady, Decided, Orderly
  PROVE  Outcome
<1>1. CASE Tick BY <1>1, TickStep
<1>2. CASE CreateThread BY <1>2, CreateStep
<1>3. CASE CreateErrorThread BY <1>3, CreateErrorStep
<1>4. CASE RaiseError BY <1>4, RaiseStep
<1>5. CASE Suspend \/ EndPeriod BY <1>5, SelfStep
<1>6. ASSUME NEW delay \in conf.delays,
             Sleep(delay) \/ \E id \in 0..Idle : DelayedStart(id, delay)
      PROVE  Outcome
  BY <1>6, SelfStep, DelayedStep
<1>7. ASSUME NEW id \in 0..Idle,
             \/ Resume(id) \/ SuspendTarget(id)
             \/ StopThread(id) \/ RestartThread(id)
      PROVE  Outcome
  BY <1>7, TargetStep
<1>8. CASE SetNormal BY <1>8, NormalStep
<1>9. CASE SetStopped BY <1>9, StoppedStep
<1>10. ASSUME NEW m \in InitModes, SetInit(m) PROVE Outcome BY <1>10, InitStep
<1> QED BY <1>1, <1>2, <1>3, <1>4, <1>5, <1>6, <1>7, <1>8, <1>9, <1>10 DEF Orderly

(* A refused creation makes any thread the handler: what is left are types *)
(* and the clock.                                                          *)
LEMMA RefuseStep ==
  ASSUME Steady, RefuseErrorThread
  PROVE  SteadyStep /\ LegalStep
<1>1. PICK tid \in 0..Idle :
        /\ parts' = [parts EXCEPT ![cur].error = tid]
        /\ th' = IF tid = NoHandler THEN th ELSE Activated(tid)
        /\ run' = IF tid = NoHandler THEN run ELSE tid
  BY DEF RefuseErrorThread
<1>2. UNCHANGED <<conf, cur, clock>> BY DEF RefuseErrorThread
<1> DEFINE r == [parts[cur] EXCEPT !.error = tid]
           Q == [parts EXCEPT ![cur] = r]
<1>3. /\ r \in PartitionType /\ r.index = Me.index /\ r.mode = Me.mode
  BY MeFacts DEF PartitionType, Me
<1>4. parts' = Q BY <1>1
<1> HIDE DEF r
<1>5. /\ PartsTyped(Q) /\ Q[cur] = r
      /\ \A p \in Partitions : p # cur => Q[p] = parts[p]
  BY <1>3, MeFacts, PartSet
<1>6. Rows(th') /\ run' \in 0..Idle
  BY <1>1, RunFacts, ActivatedDiffers DEF Differs
<1> HIDE DEF Q
<1>7. Good(parts', th', cur', run') BY <1>2, <1>4, <1>5, <1>6, RunFacts DEF Good
<1>8. Clocked(slot', left', frame', quantum') BY <1>2 DEF Steady, clock
<1>9. LegalStep BY <1>3, <1>4, <1>5 DEF LegalStep, Me
<1> QED BY <1>2, <1>7, <1>8, <1>9 DEF SteadyStep

(* The invariant is about the configuration, which does not change.        *)
LEMMA SteadyKeeps ==
  ASSUME Steady, SteadyStep, refused' \in BOOLEAN
  PROVE  Steady' /\ Tame' = (MainsSpared(conf) /\ ~refused')
<1>1. conf' = conf BY DEF SteadyStep
<1>2. Partitions' = Partitions /\ Idle' = Idle /\ NbSlots' = NbSlots /\ Zero' = Zero
  BY <1>1 DEF Partitions, Idle, High, Low, Last, NbSlots, Zero
<1>3. Row' = Row BY <1>2 DEF Row, Times
<1>4. PartitionType' = PartitionType BY <1>2 DEF PartitionType
<1>5. Good(parts, th, cur, run)'
  <2>1. Good(parts', th', cur', run') BY DEF SteadyStep
  <2>2. Rows(th)' BY <2>1, <1>2, <1>3 DEF Good, Rows
  <2>3. PartsTyped(parts)' BY <2>1, <1>1, <1>2, <1>4 DEF Good, PartsTyped
  <2>4. cur' \in Partitions' /\ (run \in 0..Idle)' BY <2>1, <1>2 DEF Good
  <2> QED BY <2>2, <2>3, <2>4 DEF Good
<1>6. Clocked(slot, left, frame, quantum)'
  BY <1>1, <1>2 DEF SteadyStep, Clocked, Rest
<1>7. MainsSpared(conf)' = MainsSpared(conf) BY <1>1 DEF MainsSpared
<1>8. (conf \in Configs)' BY <1>1 DEF Steady
<1> QED BY <1>5, <1>6, <1>7, <1>8 DEF Steady, Tame

LEMMA OutcomeKeeps ==
  ASSUME Steady, Decided, Outcome, refused' = refused
  PROVE  IInv'
<1>1. conf' = conf /\ SteadyStep BY DEF Outcome, SteadyStep
<1>2. Partitions' = Partitions /\ Idle' = Idle
  BY <1>1 DEF Partitions, Idle, High, Low, Last
<1>3. Steady' /\ Tame' = Tame
  <2>1. refused' \in BOOLEAN BY DEF Steady
  <2> QED BY <2>1, <1>1, SteadyKeeps DEF Tame
<1>4. ASSUME Tame PROVE Moded(parts, th, cur, run)'
  <2>1. Proper(parts', th') /\ Fits(parts', cur', run')
    BY <1>4 DEF Outcome, Moded
  <2>2. Proper(parts, th)'
    BY <2>1, <1>1, <1>2 DEF Proper, Handlers, Only, Main, High, Low
  <2>3. Fits(parts, cur, run)' BY <2>1, <1>1, <1>2 DEF Fits, Only, Main, High, Low
  <2> QED BY <2>2, <2>3 DEF Moded
<1> QED BY <1>3, <1>4 DEF IInv, Decided

LEMMA RefusalKeeps ==
  ASSUME Steady, RefuseErrorThread
  PROVE  IInv'
<1>1. refused' = TRUE BY DEF RefuseErrorThread
<1>2. Steady' /\ Tame' = (MainsSpared(conf) /\ ~refused')
  BY <1>1, RefuseStep, SteadyKeeps
<1> QED BY <1>1, <1>2 DEF IInv, Decided

LEMMA StutterKeeps ==
  ASSUME IInv, UNCHANGED vars
  PROVE  IInv'
<1>1. Outcome
  BY DEF IInv, Steady, Decided, Outcome, SteadyStep, vars, clock, LegalStep
<1> QED BY <1>1, OutcomeKeeps DEF IInv, vars

(* The inductive invariant: the tables are in order, the clock is aligned, *)
(* main threads are stopped in NORMAL mode and the mode fits what runs     *)
(* (pok_elect_partition, pok_elect_thread, pok_partition_set_mode).        *)
THEOREM ScheduleInvariant == Spec => []IInv
<1>1. Init => IInv BY InitHolds
<1>2. IInv /\ [Next]_vars => IInv'
  <2>1. ASSUME IInv, Next PROVE IInv'
    <3>1. CASE RefuseErrorThread BY <2>1, <3>1, RefusalKeeps DEF IInv
    <3>2. CASE Orderly /\ UNCHANGED refused
      BY <2>1, <3>2, StepLeads, OutcomeKeeps DEF IInv
    <3> QED BY <2>1, <3>1, <3>2 DEF Next
  <2>2. IInv /\ UNCHANGED vars => IInv' BY StutterKeeps
  <2> QED BY <2>1, <2>2
<1> QED BY <1>1, <1>2, PTL DEF Spec

(* The tables stay within their types, and no creation leaves the threads  *)
(* of its partition, whatever number a refused creation of an error thread *)
(* leaves behind (pok_partition_thread_create, pok_error_thread_create).   *)
THEOREM TablesTyped == Spec => []TypeOK
<1>1. IInv => TypeOK
  <2> SUFFICES ASSUME IInv PROVE TypeOK OBVIOUS
  <2>0. Steady BY DEF IInv
  <2>1. parts \in [Partitions -> PartitionType] BY <2>0, RunFacts DEF PartsTyped
  <2>2. th \in [0..Idle -> ThreadType]
    <3>1. ASSUME NEW r \in Row PROVE r \in ThreadType
      BY DEF Row, ThreadType, Times
    <3> QED BY <3>1, <2>0, RunFacts DEF Rows
  <2>3. /\ slot \in 1..NbSlots /\ left \in Int /\ frame \in Int
        /\ quantum \in 0..(conf.quantum - 1)
    BY <2>0 DEF Steady, Clocked
  <2>4. \A p \in Partitions : parts[p].index <= conf.nthreads[p]
    BY <2>0, RunFacts DEF PartsTyped
  <2>5. cur \in Partitions /\ run \in 0..Idle BY <2>0, RunFacts
  <2>6. refused \in BOOLEAN BY <2>0 DEF Steady
  <2> QED BY <2>1, <2>2, <2>3, <2>4, <2>5, <2>6 DEF TypeOK
<1> QED BY <1>1, ScheduleInvariant, PTL

(* The schedule does not drift: whatever calls reschedule between two      *)
(* interrupts, a boundary is noticed within a quantum and the major frame  *)
(* ends with its last slot (pok_elect_partition).                          *)
THEOREM ScheduleAligned == Spec => []FrameAligned
<1>1. IInv => FrameAligned
  <2> SUFFICES ASSUME IInv PROVE FrameAligned OBVIOUS
  <2>1. conf \in Configs /\ Clocked(slot, left, frame, quantum)
    BY DEF IInv, Steady
  <2>2. conf.quantum \in Nat BY <2>1, ConfFacts
  <2> QED BY <2>1, <2>2 DEF FrameAligned, RestOfFrame, Rest, Clocked
<1> QED BY <1>1, ScheduleInvariant, PTL

(* Until a creation of an error thread is refused, the mode of the         *)
(* partition that has the processor decides whose thread runs, as long as  *)
(* programs do not name main threads (pok_elect_thread).                   *)
THEOREM ModeRules ==
  ASSUME \A c \in Configs : MainsSpared(c)
  PROVE  Spec => []ModeDecides
<1>1. IInv => ModeDecides
  <2> SUFFICES ASSUME IInv, ~refused PROVE ModeDecides BY DEF ModeDecides
  <2>1. /\ conf \in Configs /\ Good(parts, th, cur, run)
        /\ Moded(parts, th, cur, run)
    BY DEF IInv, Steady, Decided, Tame
  <2> QED BY <2>1 DEF Moded, Fits, ModeDecides, Me
<1> QED BY <1>1, ScheduleInvariant, PTL

(* Until then, modes change along the life of a partition, and by the      *)
(* partition that has the processor (pok_partition_set_mode_current).      *)
THEOREM ModesLegal ==
  ASSUME \A c \in Configs : MainsSpared(c)
  PROVE  Spec => ModesMoveLegally
<1> DEFINE A == \A p \in Partitions :
                  ~refused /\ parts'[p].mode # parts[p].mode =>
                    cur = p /\ Legal(parts[p].mode, parts'[p].mode)
<1>1. ASSUME IInv, Next PROVE A
  <2>1. ~refused => Tame BY <1>1 DEF IInv, Steady, Tame
  <2>2. ~refused => LegalStep
    <3>1. CASE RefuseErrorThread BY <1>1, <3>1, RefuseStep DEF IInv
    <3>2. CASE Orderly BY <1>1, <2>1, <3>2, StepLeads DEF IInv, Outcome
    <3> QED BY <1>1, <3>1, <3>2 DEF Next
  <2> QED BY <2>2 DEF LegalStep
<1>2. IInv /\ [Next]_vars => [A]_vars BY <1>1
<1> QED BY <1>2, ScheduleInvariant, PTL DEF Spec, ModesMoveLegally
=============================================================================
