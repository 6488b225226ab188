------------------------- MODULE ThreadSchedProofs -------------------------
(***************************************************************************)
(* The threads of a partition under every policy, for any number of        *)
(* threads and processors and any configurations: what an election gives,  *)
(* and what the services of other processors may not undo.                 *)
(***************************************************************************)
EXTENDS ThreadSched, TLAPS

Numbers == INSTANCE WaitQueueProofs

(* A table of threads the kernel can have: times that have passed are at   *)
(* most lag ago, and the main thread has stopped itself for good.          *)
Table(T) ==
  /\ T \in [Threads -> ThreadType]
  /\ \A t \in Threads : T[t].next >= -conf.lag /\ T[t].ddl >= -conf.lag
  /\ T[MainThread].state = "STOPPED"

(* D is T but for slices and levels.                                       *)
Alike(T, D) ==
  \A t \in Threads :
    /\ D[t].state = T[t].state /\ D[t].priority = T[t].priority
    /\ D[t].remaining = T[t].remaining /\ D[t].next = T[t].next
    /\ D[t].wakeup = T[t].wakeup /\ D[t].ddl = T[t].ddl
    /\ D[t].dated = T[t].dated

LEMMA ThreadsAreNumbers ==
  /\ NbThreads \in Nat /\ NbThreads >= 2 /\ Threads = 0..NbThreads - 1
  /\ MainThread \in Threads /\ 1 \in Threads /\ 0 \in Threads
  /\ Idle \notin Threads
BY TableAssumption DEF Threads, MainThread

LEMMA TableFields ==
  ASSUME NEW T \in [Threads -> ThreadType], NEW t \in Threads
  PROVE  /\ T[t] \in ThreadType /\ T[t].state \in States
         /\ T[t].priority \in Nat /\ T[t].priority <= 255
         /\ T[t].remaining \in Int /\ T[t].next \in Int
         /\ T[t].wakeup \in Nat /\ T[t].ddl \in Int /\ T[t].dated \in BOOLEAN
         /\ T[t].slice \in Nat /\ T[t].level \in Nat /\ T[t].level <= 255
<1>1. T[t] \in ThreadType OBVIOUS
<1> QED BY <1>1 DEF ThreadType, MaxPriority

LEMMA ReadyThreads ==
  ASSUME NEW T, NEW p
  PROVE  Ready(T, p) \subseteq Threads
BY DEF Ready

LEMMA MainNotReady ==
  ASSUME NEW T, Table(T), NEW p
  PROVE  MainThread \notin Ready(T, p)
BY DEF Table, Ready
-----------------------------------------------------------------------------
(* Scans.                                                                  *)

LEMMA FirstFromFinds ==
  ASSUME NEW from \in Threads, NEW S \in SUBSET Threads, S # {}
  PROVE  /\ FirstFrom(from, S) \in S
         /\ \A j \in S : Distance(from, FirstFrom(from, S)) <= Distance(from, j)
<1> DEFINE D == {Distance(from, i) : i \in S}
<1>1. D \subseteq Nat /\ D # {}
  <2>1. ASSUME NEW i \in S PROVE Distance(from, i) \in Nat
    BY ThreadsAreNumbers DEF Distance
  <2> QED BY <2>1
<1>2. \E x \in D : \A y \in D : x <= y
  <2> HIDE DEF D
  <2> QED BY <1>1, Numbers!LeastElement
<1>3. \E i \in S : \A j \in S : Distance(from, i) <= Distance(from, j)
  BY <1>2
<1> QED BY <1>3 DEF FirstFrom

LEMMA FirstOrIdleFinds ==
  ASSUME NEW from \in Threads, NEW S \in SUBSET Threads
  PROVE  /\ S = {} => FirstOrIdle(from, S) = Idle
         /\ S # {} => FirstOrIdle(from, S) \in S
BY FirstFromFinds DEF FirstOrIdle

LEMMA ScansStartAtThreads ==
  ASSUME NEW prv \in Threads \union {Idle}, NEW cur \in Threads \union {Idle}
  PROVE  ScanStart(prv, cur) \in Threads
BY ThreadsAreNumbers DEF ScanStart

LEMMA AfterIsThread == \A t \in Threads : After(t) \in Threads
BY ThreadsAreNumbers DEF After

(* Among finitely many ranks with a bound one is the greatest.             *)
LEMMA GreatestExists ==
  ASSUME NEW S \in SUBSET Threads, S # {}, NEW rank, NEW b \in Int,
         \A i \in S : rank[i] \in Int /\ rank[i] <= b
  PROVE  Greatest(S, rank) # {}
<1> DEFINE D == {b - rank[i] : i \in S}
<1>1. D \subseteq Nat /\ D # {} OBVIOUS
<1>2. \E x \in D : \A y \in D : x <= y
  <2> HIDE DEF D
  <2> QED BY <1>1, Numbers!LeastElement
<1>3. \E i \in S : \A j \in S : b - rank[i] <= b - rank[j]
  BY <1>2
<1>4. \E i \in S : \A j \in S : rank[j] <= rank[i]
  BY <1>3
<1> QED BY <1>4 DEF Greatest

LEMMA GreatestPriority ==
  ASSUME conf \in ConfType, NEW T, Table(T), NEW S \in SUBSET Threads, S # {}
  PROVE  Greatest(S, Priorities(T)) # {}
<1>1. \A i \in S : Priorities(T)[i] \in Int /\ Priorities(T)[i] <= 255
  BY TableFields DEF Table, Priorities
<1> QED BY <1>1, GreatestExists

LEMMA GreatestLevel ==
  ASSUME NEW T \in [Threads -> ThreadType], NEW S \in SUBSET Threads, S # {}
  PROVE  Greatest(S, Levels(T)) # {}
<1>1. \A i \in S : Levels(T)[i] \in Int /\ Levels(T)[i] <= 255
  BY TableFields DEF Levels
<1> QED BY <1>1, GreatestExists

LEMMA GreatestUrgency ==
  ASSUME conf \in ConfType, NEW T, Table(T), NEW S \in SUBSET Threads, S # {}
  PROVE  Greatest(S, Urgencies(T)) # {}
<1>1. conf.lag \in Nat BY DEF ConfType
<1>2. \A i \in S : Urgencies(T)[i] \in Int /\ Urgencies(T)[i] <= conf.lag
  BY <1>1, TableFields DEF Table, Urgencies
<1> QED BY <1>1, <1>2, GreatestExists
-----------------------------------------------------------------------------
(* Slices and levels.                                                      *)

LEMMA SliceLeftType ==
  ASSUME NEW T \in [Threads -> ThreadType], NEW cur \in Threads \union {Idle}
  PROVE  SliceLeft(T, cur) \in Nat
<1>1. CASE cur = Idle BY <1>1 DEF SliceLeft
<1>2. CASE cur # Idle
  <2>1. T[cur].slice \in Nat BY <1>2 DEF ThreadType
  <2> QED BY <2>1, <1>2 DEF SliceLeft
<1> QED BY <1>1, <1>2

LEMMA SetSliceKeeps ==
  ASSUME NEW T, Table(T), NEW cur \in Threads \union {Idle}, NEW n \in Nat
  PROVE  Table(SetSlice(T, cur, n)) /\ Alike(T, SetSlice(T, cur, n))
<1>1. CASE cur = Idle BY <1>1 DEF SetSlice, Alike
<1>2. CASE cur # Idle
  <2> DEFINE D == [T EXCEPT ![cur].slice = n]
  <2>1. T \in [Threads -> ThreadType] /\ T[cur] \in ThreadType
    BY <1>2 DEF Table
  <2>2. [T[cur] EXCEPT !.slice = n] \in ThreadType BY <2>1 DEF ThreadType
  <2>3. D \in [Threads -> ThreadType] BY <2>1, <2>2
  <2>4. Alike(T, D) BY <2>1 DEF Alike, ThreadType
  <2>5. Table(D) BY <2>3, <2>4, ThreadsAreNumbers DEF Table, Alike
  <2> QED BY <2>4, <2>5, <1>2 DEF SetSlice
<1> QED BY <1>1, <1>2

LEMMA ShiftedType == \A n \in Nat : Shifted(n) \in Nat
<1> SUFFICES ASSUME NEW n \in Nat PROVE Shifted(n) \in Nat
  OBVIOUS
<1>1. CASE n >= 8 BY <1>1 DEF Shifted
<1>2. /\ 128 \div 2^0 \in Nat /\ 128 \div 2^1 \in Nat
      /\ 128 \div 2^2 \in Nat /\ 128 \div 2^3 \in Nat
  OBVIOUS
<1>3. /\ 128 \div 2^4 \in Nat /\ 128 \div 2^5 \in Nat
      /\ 128 \div 2^6 \in Nat /\ 128 \div 2^7 \in Nat
  OBVIOUS
<1>4. CASE n < 8
  <2>1. n \in {0, 1, 2, 3, 4, 5, 6, 7} BY <1>4
  <2>2. 128 \div 2^n \in Nat BY <2>1, <1>2, <1>3
  <2> QED BY <2>2, <1>4 DEF Shifted
<1> QED BY <1>1, <1>4

LEMMA DemotionKeeps ==
  ASSUME NEW T, Table(T), NEW cur \in Threads, NEW D \in Demotions(T, cur)
  PROVE  Table(D) /\ Alike(T, D)
<1> DEFINE v == NextLevel(T[cur].level)
<1>1. T \in [Threads -> ThreadType] /\ T[cur] \in ThreadType
  BY DEF Table
<1>2. v \in 0..255
  <2>1. T[cur].level \in 0..255 BY <1>1 DEF ThreadType
  <2> QED BY <2>1 DEF NextLevel
<1>3. PICK n \in LevelSlices(v) :
        D = [T EXCEPT ![cur] = [@ EXCEPT !.level = v, !.slice = n]]
  BY DEF Demotions
<1> HIDE DEF v
<1>4. n \in Nat
  <2>1. v % 32 \in Nat BY <1>2
  <2> QED BY <2>1, <1>2, ShiftedType DEF LevelSlices
<1>5. [T[cur] EXCEPT !.level = v, !.slice = n] \in ThreadType
  <2> DEFINE u == [T[cur] EXCEPT !.level = v]
  <2>1. u \in ThreadType BY <1>1, <1>2 DEF ThreadType
  <2>2. [T[cur] EXCEPT !.level = v, !.slice = n] = [u EXCEPT !.slice = n]
    OBVIOUS
  <2> HIDE DEF u
  <2>3. [u EXCEPT !.slice = n] \in ThreadType BY <1>4, <2>1 DEF ThreadType
  <2> QED BY <2>2, <2>3
<1>6. D \in [Threads -> ThreadType] BY <1>1, <1>3, <1>5
<1>7. Alike(T, D) BY <1>1, <1>3 DEF Alike, ThreadType
<1>8. Table(D) BY <1>6, <1>7, ThreadsAreNumbers DEF Table, Alike
<1> QED BY <1>7, <1>8
-----------------------------------------------------------------------------
(* The choices of the policies.                                            *)

(* t should run before u, by the attributes in T.                          *)
Above(T, t, u) ==
  CASE conf.policy \in PriorityPolicies \union {"PWRR"} ->
         T[t].priority > T[u].priority
    [] conf.policy = "RMS"  -> Shorter(conf.period[t], conf.period[u])
    [] conf.policy = "PEDF" -> T[t].ddl < T[u].ddl
    [] OTHER -> FALSE

(* Every thread has a deadline, where the scan of PEDF needs one.          *)
Dated(T) ==
  conf.policy = "PEDF" => \A t \in Threads \ {MainThread} : T[t].dated

(* No priority is 0, which the scan of PWRR takes for "nothing found".     *)
Positive(T) ==
  conf.policy = "PWRR" => \A t \in Threads \ {MainThread} : T[t].priority > 0

(* The table stays one, and the elected thread can run.                    *)
Valid(T, p, c) ==
  /\ Table(c.th) /\ Alike(T, c.th)
  /\ c.elected \in Ready(T, p) \union {Idle}

(* Idle only if nobody can run.                                            *)
Busy(T, p, c) ==
  conf.policy # "WRR" /\ c.elected = Idle => Ready(T, p) = {}

(* Nobody who can run outranks the elected thread.                         *)
Best(T, p, c) ==
  c.elected \in Ready(T, p) =>
    \A t \in Ready(T, p) : ~ Above(T, t, c.elected)

(* A thread with capacity is replaced when its slice is used up, or by a   *)
(* higher priority.                                                        *)
FullTurn(T, p, cur, c) ==
  cur \in Ready(T, p) /\ T[cur].remaining > 0 /\ c.elected # cur =>
    \/ T[cur].slice <= 1
    \/ /\ conf.policy = "PWRR" /\ c.elected \in Threads
       /\ T[c.elected].priority > T[cur].priority

LEMMA AboveByPriority ==
  ASSUME conf.policy \in PriorityPolicies \union {"PWRR"}, NEW T, NEW t, NEW u,
         ~ (T[t].priority > T[u].priority)
  PROVE  ~ Above(T, t, u)
<1>1. conf.policy # "RMS" /\ conf.policy # "PEDF" BY DEF PriorityPolicies
<1> QED BY <1>1 DEF Above

LEMMA AlikeReflexive == \A T : Alike(T, T)
BY DEF Alike

LEMMA RmsElects ==
  ASSUME conf \in ConfType, conf.policy = "RMS", NEW T, Table(T), NEW p,
         NEW prv, NEW cur, NEW c \in RmsChoice(T, p, prv, cur)
  PROVE  /\ Valid(T, p, c) /\ Busy(T, p, c)
         /\ PeriodsSorted(conf) => Best(T, p, c)
<1> DEFINE R == Ready(T, p)
<1>0. R \in SUBSET Threads /\ MainThread \notin R
  BY ReadyThreads, MainNotReady
<1>1. c = [th |-> T, elected |-> FirstOrIdle(1, R)]
  BY DEF RmsChoice, Only
<1>2. c.th = T /\ c.elected = FirstOrIdle(1, R) BY <1>1
<1> HIDE DEF R
<1>3. /\ R = {} => c.elected = Idle
      /\ R # {} => /\ c.elected \in R
                   /\ \A t \in R : Distance(1, c.elected) <= Distance(1, t)
  BY <1>0, <1>2, ThreadsAreNumbers, FirstFromFinds DEF FirstOrIdle
<1>4. Valid(T, p, c)
  BY <1>2, <1>3, AlikeReflexive DEF Valid, R
<1>5. ASSUME PeriodsSorted(conf), c.elected \in R, NEW t \in R
      PROVE  ~ Above(T, t, c.elected)
  <2>1. c.elected \in Threads \ {MainThread} /\ t \in Threads \ {MainThread}
    BY <1>0, <1>5
  <2>2. Distance(1, c.elected) <= Distance(1, t) BY <1>3, <1>5
  <2>3. c.elected <= t
    BY <2>1, <2>2, ThreadsAreNumbers DEF Distance, MainThread
  <2>4. ~ Shorter(conf.period[t], conf.period[c.elected])
    <3>1. CASE c.elected = t
      <4>1. conf.period[t] \in Times BY <2>1 DEF ConfType
      <4> QED BY <4>1, <3>1 DEF Shorter, Times, Infinite
    <3>2. CASE c.elected # t
      BY <3>2, <2>1, <2>3, <1>5, ThreadsAreNumbers DEF PeriodsSorted
    <3> QED BY <3>1, <3>2
  <2> QED BY <2>4 DEF Above, PriorityPolicies
<1>6. c.elected = Idle => R = {}
  BY <1>0, <1>3, ThreadsAreNumbers
<1> QED BY <1>4, <1>5, <1>6 DEF Busy, Best, R

LEMMA PriorityElects ==
  ASSUME conf \in ConfType, conf.policy \in PriorityPolicies,
         NEW T, Table(T), NEW p,
         NEW prv \in Threads \union {Idle}, NEW cur \in Threads \union {Idle},
         NEW c \in PriorityChoice(T, p, prv, cur)
  PROVE  Valid(T, p, c) /\ Busy(T, p, c) /\ Best(T, p, c)
<1> DEFINE R == Ready(T, p)
           G == Greatest(R, Priorities(T))
<1>0. R \in SUBSET Threads BY ReadyThreads
<1>1. c.th = T /\ c.elected = FirstOrIdle(ScanStart(prv, cur), G)
  BY DEF PriorityChoice, Only
<1>2. G \in SUBSET R /\ \A i \in G : \A j \in R : Priorities(T)[j] <= Priorities(T)[i]
  BY DEF Greatest
<1>3. R # {} => G # {} BY <1>0, GreatestPriority
<1> HIDE DEF R, G
<1>4. /\ G = {} => c.elected = Idle
      /\ G # {} => c.elected \in G
  BY <1>0, <1>1, <1>2, ScansStartAtThreads, FirstOrIdleFinds
<1>5. Valid(T, p, c)
  BY <1>1, <1>2, <1>4, AlikeReflexive DEF Valid, R
<1>6. ASSUME c.elected \in R, NEW t \in R PROVE ~ Above(T, t, c.elected)
  <2>1. c.elected \in G /\ c.elected \in Threads /\ t \in Threads
    BY <1>0, <1>4, <1>6, ThreadsAreNumbers
  <2>2. T[t].priority <= T[c.elected].priority
    BY <2>1, <1>2, <1>6 DEF Priorities
  <2>3. T[t].priority \in Nat /\ T[c.elected].priority \in Nat
    BY <2>1, TableFields DEF Table
  <2>4. ~ (T[t].priority > T[c.elected].priority) BY <2>2, <2>3
  <2> QED BY <2>4, AboveByPriority
<1>7. c.elected = Idle => R = {}
  BY <1>0, <1>2, <1>3, <1>4, ThreadsAreNumbers
<1> QED BY <1>5, <1>6, <1>7 DEF Busy, Best, R

LEMMA PedfElects ==
  ASSUME conf \in ConfType, conf.policy = "PEDF", NEW T, Table(T), NEW p,
         NEW prv \in Threads \union {Idle}, NEW cur \in Threads \union {Idle},
         NEW c \in PedfChoice(T, p, prv, cur)
  PROVE  Valid(T, p, c) /\ (Dated(T) => Busy(T, p, c) /\ Best(T, p, c))
<1> DEFINE R == Ready(T, p)
           from == ScanStart(prv, cur)
           undated == {t \in R : ~ T[t].dated}
           kept == {t \in R :
                      \A u \in undated : Distance(from, u) < Distance(from, t)}
           G == Greatest(kept, Urgencies(T))
<1>0. R \in SUBSET Threads /\ MainThread \notin R /\ from \in Threads
  BY ReadyThreads, MainNotReady, ScansStartAtThreads
<1>1. c.th = T /\ c.elected = FirstOrIdle(from, G)
  BY DEF PedfChoice, Only
<1>2. /\ G \in SUBSET kept /\ kept \in SUBSET R
      /\ \A i \in G : \A j \in kept : Urgencies(T)[j] <= Urgencies(T)[i]
  BY DEF Greatest
<1>3. kept # {} => G # {}
  <2>1. kept \in SUBSET Threads BY <1>0
  <2> HIDE DEF kept
  <2> QED BY <2>1, GreatestUrgency
<1>4. Dated(T) => kept = R
  <2>1. Dated(T) => undated = {} BY <1>0 DEF Dated
  <2> QED BY <2>1
<1> HIDE DEF R, from, kept, G
<1>5. /\ G = {} => c.elected = Idle
      /\ G # {} => c.elected \in G
  BY <1>0, <1>1, <1>2, FirstOrIdleFinds
<1>6. Valid(T, p, c)
  BY <1>1, <1>2, <1>5, AlikeReflexive DEF Valid, R
<1>7. ASSUME Dated(T), c.elected \in R, NEW t \in R
      PROVE  ~ Above(T, t, c.elected)
  <2>1. c.elected \in G /\ c.elected \in Threads /\ t \in Threads
    BY <1>0, <1>5, <1>7, ThreadsAreNumbers
  <2>2. -T[t].ddl <= -T[c.elected].ddl
    BY <2>1, <1>2, <1>4, <1>7 DEF Urgencies
  <2>3. T[t].ddl \in Int /\ T[c.elected].ddl \in Int
    BY <2>1, TableFields DEF Table
  <2>4. ~ (T[t].ddl < T[c.elected].ddl) BY <2>2, <2>3
  <2> QED BY <2>4 DEF Above, PriorityPolicies
<1>8. Dated(T) /\ c.elected = Idle => R = {}
  BY <1>0, <1>2, <1>3, <1>4, <1>5, ThreadsAreNumbers
<1> QED BY <1>6, <1>7, <1>8 DEF Busy, Best, R

LEMMA RrElects ==
  ASSUME conf \in ConfType, conf.policy = "RR", NEW T, Table(T), NEW p,
         NEW prv \in Threads \union {Idle}, NEW cur \in Threads \union {Idle},
         NEW c \in RrChoice(T, p, prv, cur)
  PROVE  Valid(T, p, c) /\ Busy(T, p, c) /\ Best(T, p, c)
<1> DEFINE R == Ready(T, p)
           from == IF cur # Idle THEN cur ELSE IF prv # Idle THEN prv ELSE 0
<1>0. R \in SUBSET Threads /\ After(from) \in Threads
  BY ReadyThreads, AfterIsThread, ThreadsAreNumbers
<1>1. /\ c.th = T
      /\ c.elected = IF HasBudget(T, p, cur) THEN cur
                     ELSE FirstOrIdle(After(from), R)
  BY DEF RrChoice, Only
<1>2. HasBudget(T, p, cur) => cur \in R BY DEF HasBudget
<1> HIDE DEF R, from
<1>3. /\ c.elected \in R \union {Idle}
      /\ c.elected = Idle => R = {}
  <2>1. CASE HasBudget(T, p, cur)
    <3>1. c.elected \in R BY <1>1, <1>2, <2>1
    <3> QED BY <3>1, <1>0, ThreadsAreNumbers
  <2>2. CASE ~ HasBudget(T, p, cur)
    <3>1. c.elected = FirstOrIdle(After(from), R) BY <1>1, <2>2
    <3>2. /\ R = {} => FirstOrIdle(After(from), R) = Idle
          /\ R # {} => FirstOrIdle(After(from), R) \in R
      BY <1>0, FirstOrIdleFinds
    <3> QED BY <3>1, <3>2, <1>0, ThreadsAreNumbers
  <2> QED BY <2>1, <2>2
<1>4. \A t, u : ~ Above(T, t, u) BY DEF Above, PriorityPolicies
<1> QED BY <1>1, <1>3, <1>4, AlikeReflexive DEF Valid, Busy, Best, R

LEMMA WrrElects ==
  ASSUME conf \in ConfType, conf.policy = "WRR", NEW T, Table(T), NEW p,
         NEW prv \in Threads \union {Idle}, NEW cur \in Threads \union {Idle},
         NEW c \in WrrChoice(T, p, prv, cur)
  PROVE  /\ Valid(T, p, c) /\ Busy(T, p, c) /\ Best(T, p, c)
         /\ FullTurn(T, p, cur, c)
<1> DEFINE from == IF cur # Idle THEN cur ELSE prv
           R == Ready(T, p)
           others == R \ {from}
<1>0. /\ R \in SUBSET Threads /\ others \in SUBSET R
      /\ SliceLeft(T, cur) \in Nat
  BY ReadyThreads, SliceLeftType DEF Table
<1>1. CASE Continues(T, p, cur)
  <2>1. c.th = SetSlice(T, cur, SliceLeft(T, cur)) /\ c.elected = cur
    BY <1>1 DEF WrrChoice, Only
  <2>2. cur \in R BY <1>1 DEF Continues
  <2>3. Valid(T, p, c) BY <2>1, <2>2, <1>0, SetSliceKeeps DEF Valid
  <2> QED BY <2>1, <2>3 DEF Busy, Best, FullTurn, Above, PriorityPolicies
<1>2. CASE ~ Continues(T, p, cur) /\ from = Idle
  <2>1. others # {} /\ c.th = T /\ c.elected = FirstFrom(0, others)
    BY <1>2 DEF WrrChoice
  <2> HIDE DEF others, R
  <2>2. c.elected \in R BY <2>1, <1>0, FirstFromFinds, ThreadsAreNumbers
  <2>3. Valid(T, p, c) BY <2>1, <2>2, AlikeReflexive DEF Valid, R
  <2>4. cur = Idle /\ cur \notin R BY <1>0, <1>2, ThreadsAreNumbers
  <2> QED BY <2>3, <2>4 DEF Busy, Best, FullTurn, Above, PriorityPolicies, R
<1>3. CASE ~ Continues(T, p, cur) /\ from # Idle
  <2>0. from \in Threads BY <1>3
  <2>1. /\ c.th = SetSlice(T, cur, conf.weight[from])
        /\ c.elected = IF others # {} THEN FirstFrom(After(from), others)
                       ELSE IF cur \in R THEN cur ELSE Idle
    BY <1>3 DEF WrrChoice, Only
  <2> HIDE DEF others, R, from
  <2>2. conf.weight[from] \in Nat BY <2>0 DEF ConfType
  <2>3. others # {} => FirstFrom(After(from), others) \in R
    BY <2>0, <1>0, FirstFromFinds, AfterIsThread
  <2>4. c.elected \in R \union {Idle} BY <2>1, <2>3
  <2>5. Valid(T, p, c)
    BY <2>1, <2>2, <2>4, SetSliceKeeps DEF Valid, R
  <2>6. FullTurn(T, p, cur, c)
    <3>1. SUFFICES ASSUME cur \in R, T[cur].remaining > 0
                   PROVE  T[cur].slice <= 1
      BY DEF FullTurn, R
    <3>2. ~ (SliceLeft(T, cur) > 0) BY <3>1, <1>3 DEF Continues, R
    <3>3. cur # Idle /\ cur \in Threads BY <3>1, <1>0, ThreadsAreNumbers
    <3>4. T[cur].slice \in Nat BY <3>3, TableFields DEF Table
    <3> QED BY <3>2, <3>3, <3>4 DEF SliceLeft
  <2> QED BY <2>5, <2>6 DEF Busy, Best, Above, PriorityPolicies
<1> QED BY <1>1, <1>2, <1>3

LEMMA PwrrElects ==
  ASSUME conf \in ConfType, conf.policy = "PWRR", NEW T, Table(T), NEW p,
         NEW prv \in Threads \union {Idle}, NEW cur \in Threads \union {Idle},
         NEW c \in PwrrChoice(T, p, prv, cur)
  PROVE  /\ Valid(T, p, c) /\ (Positive(T) => Busy(T, p, c)) /\ Best(T, p, c)
         /\ FullTurn(T, p, cur, c)
<1> DEFINE from == ScanStart(prv, cur)
           R == Ready(T, p)
           G == Greatest(R, Priorities(T))
           best == FirstOrIdle(from, G)
           peers == {t \in R \ {from} : T[t].priority = PriorityOf(T, cur)}
           refill == IF cur = Idle THEN T ELSE SetSlice(T, cur, conf.weight[cur])
           least == PriorityOf(T, cur)
<1>0. /\ R \in SUBSET Threads /\ MainThread \notin R /\ from \in Threads
      /\ SliceLeft(T, cur) \in Nat
  BY ReadyThreads, MainNotReady, ScansStartAtThreads, SliceLeftType DEF Table
<1>1. /\ \A t \in Threads : T[t].priority \in Nat
      /\ least \in Nat
      /\ cur \in Threads => least = T[cur].priority
  <2>1. \A t \in Threads : T[t].priority \in Nat BY TableFields DEF Table
  <2> QED BY <2>1, ThreadsAreNumbers DEF PriorityOf
<1>2. Table(refill) /\ Alike(T, refill)
  <2>1. CASE cur = Idle BY <2>1, AlikeReflexive
  <2>2. CASE cur # Idle
    <3>1. cur \in Threads /\ conf.weight[cur] \in Nat BY <2>2 DEF ConfType
    <3> QED BY <3>1, <2>2, SetSliceKeeps
  <2> QED BY <2>1, <2>2
<1>3. /\ R = {} => best = Idle
      /\ R # {} => best \in R /\ \A t \in R : T[t].priority <= T[best].priority
  <2>1. /\ G \in SUBSET R
        /\ \A i \in G : \A j \in R : Priorities(T)[j] <= Priorities(T)[i]
    BY DEF Greatest
  <2>2. R # {} => G # {} BY <1>0, GreatestPriority
  <2> HIDE DEF R, G
  <2>3. /\ G = {} => best = Idle
        /\ G # {} => best \in G
    BY <2>1, <1>0, FirstOrIdleFinds
  <2> HIDE DEF best
  <2>4. \A i, j \in R : Priorities(T)[j] <= Priorities(T)[i] =>
                          T[j].priority <= T[i].priority
    BY <1>0 DEF Priorities
  <2> QED BY <2>1, <2>2, <2>3, <2>4
<1>4. /\ best \in Threads => PriorityOf(T, best) = T[best].priority
      /\ best = Idle => PriorityOf(T, best) = 0
      /\ PriorityOf(T, best) \in Nat
  <2> HIDE DEF best
  <2>1. best \in Threads \union {Idle} BY <1>0, <1>3
  <2> QED BY <2>1, <1>1, ThreadsAreNumbers DEF PriorityOf
<1>5. peers # {} => /\ FirstFrom(After(from), peers) \in R
                    /\ T[FirstFrom(After(from), peers)].priority = least
  <2>1. peers \in SUBSET Threads /\ After(from) \in Threads
    BY <1>0, AfterIsThread
  <2>2. \A t \in peers : t \in R /\ T[t].priority = least OBVIOUS
  <2> HIDE DEF peers, R, from, least
  <2> QED BY <2>1, <2>2, FirstFromFinds
<1>6. \/ /\ PriorityOf(T, best) > least
         /\ c.th = refill /\ c.elected = best
      \/ /\ ~ (PriorityOf(T, best) > least) /\ Continues(T, p, cur)
         /\ c.th = SetSlice(T, cur, SliceLeft(T, cur)) /\ c.elected = cur
      \/ /\ ~ (PriorityOf(T, best) > least) /\ ~ Continues(T, p, cur)
         /\ c.th = refill
         /\ c.elected = IF peers # {} THEN FirstFrom(After(from), peers)
                        ELSE IF cur \in R THEN cur
                        ELSE IF PriorityOf(T, best) > 0 THEN best ELSE Idle
  BY DEF PwrrChoice, Only
<1> HIDE DEF R, best, peers, refill, least, from
<1>7. \A e \in R : (\A t \in R : T[t].priority <= T[e].priority) =>
        (c.elected = e => Best(T, p, c))
  <2> SUFFICES ASSUME NEW e \in R, \A t \in R : T[t].priority <= T[e].priority,
                      c.elected = e, NEW t \in R
               PROVE  ~ Above(T, t, e)
    BY DEF Best, R
  <2>1. T[t].priority \in Nat /\ T[e].priority \in Nat BY <1>0, <1>1
  <2> QED BY <2>1, AboveByPriority
<1>8. CASE PriorityOf(T, best) > least
  <2>1. c.th = refill /\ c.elected = best BY <1>6, <1>8
  <2>2. best # Idle /\ best \in R /\ best \in Threads
    BY <1>0, <1>1, <1>3, <1>4, <1>8
  <2>3. Valid(T, p, c) BY <2>1, <2>2, <1>2 DEF Valid, R
  <2>4. Best(T, p, c) BY <2>1, <2>2, <1>3, <1>7
  <2>5. FullTurn(T, p, cur, c)
    BY <2>1, <2>2, <1>0, <1>1, <1>4, <1>8 DEF FullTurn, R
  <2> QED BY <2>1, <2>2, <2>3, <2>4, <2>5 DEF Busy
<1>9. CASE ~ (PriorityOf(T, best) > least) /\ Continues(T, p, cur)
  <2>1. c.th = SetSlice(T, cur, SliceLeft(T, cur)) /\ c.elected = cur
    BY <1>6, <1>9
  <2>2. cur \in R /\ cur \in Threads BY <1>0, <1>9 DEF Continues, R
  <2>3. Valid(T, p, c) BY <2>1, <2>2, <1>0, SetSliceKeeps DEF Valid, R
  <2>4. \A t \in R : T[t].priority <= T[cur].priority
    BY <2>2, <1>0, <1>1, <1>3, <1>4, <1>9
  <2>5. Best(T, p, c) BY <2>1, <2>2, <2>4, <1>7
  <2> QED BY <2>1, <2>2, <2>3, <2>5, ThreadsAreNumbers DEF Busy, FullTurn
<1>10. CASE ~ (PriorityOf(T, best) > least) /\ ~ Continues(T, p, cur)
  <2>1. /\ c.th = refill
        /\ c.elected = IF peers # {} THEN FirstFrom(After(from), peers)
                       ELSE IF cur \in R THEN cur
                       ELSE IF PriorityOf(T, best) > 0 THEN best ELSE Idle
    BY <1>6, <1>10
  <2>2. c.elected \in R \union {Idle}
    BY <2>1, <1>3, <1>4, <1>5
  <2>3. Valid(T, p, c) BY <2>1, <2>2, <1>2 DEF Valid, R
  <2>4. \A t \in R : T[t].priority <= least
    BY <1>0, <1>1, <1>3, <1>4, <1>10
  <2>5. ASSUME c.elected \in R PROVE Best(T, p, c)
    <3>1. CASE peers # {}
      <4>1. c.elected = FirstFrom(After(from), peers) BY <2>1, <3>1
      <4>2. T[c.elected].priority = least BY <4>1, <3>1, <1>5
      <4> QED BY <4>2, <2>4, <2>5, <1>7
    <3>2. CASE peers = {} /\ cur \in R
      <4>1. c.elected = cur /\ T[cur].priority = least
        BY <2>1, <3>2, <1>0, <1>1
      <4> QED BY <4>1, <2>4, <2>5, <1>7
    <3>3. CASE peers = {} /\ cur \notin R
      <4>1. c.elected = best
        <5>1. c.elected # Idle BY <2>5, <1>0, ThreadsAreNumbers
        <5> QED BY <5>1, <2>1, <3>3
      <4> QED BY <4>1, <2>5, <1>3, <1>7
    <3> QED BY <3>1, <3>2, <3>3
  <2>6. Best(T, p, c) BY <2>5 DEF Best, R
  <2>7. FullTurn(T, p, cur, c)
    <3>1. SUFFICES ASSUME cur \in R, T[cur].remaining > 0
                   PROVE  T[cur].slice <= 1
      BY DEF FullTurn, R
    <3>2. ~ (SliceLeft(T, cur) > 0) BY <3>1, <1>10 DEF Continues, R
    <3>3. cur # Idle /\ cur \in Threads BY <3>1, <1>0, ThreadsAreNumbers
    <3>4. T[cur].slice \in Nat BY <3>3, TableFields DEF Table
    <3> QED BY <3>2, <3>3, <3>4 DEF SliceLeft
  <2>8. ASSUME Positive(T), c.elected = Idle PROVE R = {}
    <3>1. Idle \notin R BY <1>0, ThreadsAreNumbers
    <3>2. peers = {} /\ cur \notin R BY <3>1, <2>1, <2>8, <1>5
    <3>3. PriorityOf(T, best) > 0 => best = Idle BY <3>2, <2>1, <2>8
    <3>4. ~ (PriorityOf(T, best) > 0) BY <3>3, <1>4
    <3>5. best \notin R
      <4>1. ASSUME best \in R PROVE FALSE
        <5>1. best \in Threads \ {MainThread} BY <4>1, <1>0
        <5>2. T[best].priority > 0 BY <5>1, <2>8 DEF Positive
        <5> QED BY <5>1, <5>2, <3>4, <1>4
      <4> QED BY <4>1
    <3> QED BY <3>5, <1>3
  <2> QED BY <2>3, <2>6, <2>7, <2>8 DEF Busy, R
<1> QED BY <1>8, <1>9, <1>10

(* Whoever takes over is of the highest level with a ready thread.         *)
Highest(p, cur, c) ==
  c.elected \in Threads \ {cur} =>
    \A t \in Ready(c.th, p) : c.th[t].level <= c.th[c.elected].level

LEMMA AlikeTransitive ==
  ASSUME NEW T, NEW D, NEW E, Alike(T, D), Alike(D, E)
  PROVE  Alike(T, E)
BY DEF Alike

LEMMA AlikeReady ==
  ASSUME NEW T, NEW D, Alike(T, D), NEW p
  PROVE  Ready(D, p) = Ready(T, p)
BY DEF Alike, Ready

LEMMA MlfqElects ==
  ASSUME conf \in ConfType, conf.policy = "MLFQ", NEW T, Table(T), NEW p,
         NEW prv \in Threads \union {Idle}, NEW cur \in Threads \union {Idle},
         NEW c \in MlfqChoice(T, p, prv, cur)
  PROVE  /\ Valid(T, p, c) /\ Busy(T, p, c) /\ Best(T, p, c)
         /\ FullTurn(T, p, cur, c) /\ Highest(p, cur, c)
<1> DEFINE left == SetSlice(T, cur, SliceLeft(T, cur))
           demoted == IF cur # Idle /\ left[cur].slice = 0
                      THEN Demotions(left, cur) ELSE {left}
<1>0. /\ SliceLeft(T, cur) \in Nat /\ Ready(T, p) \in SUBSET Threads
      /\ \A t, u : ~ Above(T, t, u)
  BY ReadyThreads, SliceLeftType DEF Table, Above, PriorityPolicies
<1>1. Table(left) /\ Alike(T, left) BY <1>0, SetSliceKeeps
<1>2. CASE Continues(T, p, cur)
  <2>1. c.th = left /\ c.elected = cur
    BY <1>2 DEF MlfqChoice, Only
  <2>2. cur \in Ready(T, p) /\ cur # Idle
    BY <1>0, <1>2, ThreadsAreNumbers DEF Continues
  <2> QED BY <2>1, <2>2, <1>0, <1>1 DEF Valid, Busy, Best, FullTurn, Highest
<1>3. CASE ~ Continues(T, p, cur)
  <2>1. PICK D \in demoted :
          /\ c.th = D
          /\ c.elected = FirstOrIdle(ScanStart(prv, cur),
                                     Greatest(Ready(D, p), Levels(D)))
    BY <1>3 DEF MlfqChoice
  <2> HIDE DEF left
  <2>2. Table(D) /\ Alike(left, D)
    BY <2>1, <1>1, DemotionKeeps, AlikeReflexive
  <2>3. Alike(T, D) BY <2>2, <1>1, AlikeTransitive
  <2> DEFINE R == Ready(D, p)
             G == Greatest(R, Levels(D))
  <2>4. R = Ready(T, p) BY <2>3, AlikeReady
  <2>5. /\ G \in SUBSET R
        /\ \A i \in G : \A j \in R : Levels(D)[j] <= Levels(D)[i]
    BY DEF Greatest
  <2>6. R # {} => G # {}
    <3>1. R \in SUBSET Threads /\ D \in [Threads -> ThreadType]
      BY <2>2, <2>4, <1>0 DEF Table
    <3> HIDE DEF R
    <3> QED BY <3>1, GreatestLevel
  <2> HIDE DEF G, R
  <2>7. /\ G = {} => c.elected = Idle
        /\ G # {} => c.elected \in G
    <3>1. G \in SUBSET Threads BY <2>4, <2>5, <1>0
    <3>2. c.elected = FirstOrIdle(ScanStart(prv, cur), G) BY <2>1 DEF G, R
    <3> QED BY <3>1, <3>2, ScansStartAtThreads, FirstOrIdleFinds
  <2>8. Valid(T, p, c) BY <2>1, <2>2, <2>3, <2>4, <2>5, <2>7 DEF Valid
  <2>9. Busy(T, p, c)
    BY <2>4, <2>5, <2>6, <2>7, <1>0, ThreadsAreNumbers DEF Busy
  <2>10. Highest(p, cur, c)
    <3>1. SUFFICES ASSUME c.elected \in Threads, NEW t \in R
                   PROVE  D[t].level <= D[c.elected].level
      BY <2>1 DEF Highest, R
    <3>2. c.elected \in G /\ t \in Threads
      BY <3>1, <2>4, <2>7, <1>0, ThreadsAreNumbers
    <3> QED BY <3>1, <3>2, <2>5 DEF Levels
  <2>11. FullTurn(T, p, cur, c)
    <3>1. SUFFICES ASSUME cur \in Ready(T, p), T[cur].remaining > 0
                   PROVE  T[cur].slice <= 1
      BY DEF FullTurn
    <3>2. ~ (SliceLeft(T, cur) > 0) BY <3>1, <1>3 DEF Continues
    <3>3. cur # Idle /\ cur \in Threads BY <3>1, <1>0, ThreadsAreNumbers
    <3>4. T[cur].slice \in Nat BY <3>3, TableFields DEF Table
    <3> QED BY <3>2, <3>3, <3>4 DEF SliceLeft
  <2> QED BY <2>8, <2>9, <2>10, <2>11, <1>0 DEF Best
<1> QED BY <1>2, <1>3

(* All policies together.                                                  *)
LEMMA ChoiceElects ==
  ASSUME conf \in ConfType, NEW T, Table(T), NEW p,
         NEW prv \in Threads \union {Idle}, NEW cur \in Threads \union {Idle},
         NEW c \in Choice(T, p, prv, cur)
  PROVE  /\ Valid(T, p, c)
         /\ Dated(T) /\ Positive(T) => Busy(T, p, c)
         /\ Dated(T) /\ PeriodsSorted(conf) => Best(T, p, c)
         /\ conf.policy \in {"WRR", "PWRR", "MLFQ"} => FullTurn(T, p, cur, c)
         /\ conf.policy = "MLFQ" => Highest(p, cur, c)
<1>0. conf.policy \in Policies BY DEF ConfType
<1>1. CASE conf.policy = "RMS"
  <2>1. c \in RmsChoice(T, p, prv, cur) BY <1>1 DEF Choice, PriorityPolicies
  <2> QED BY <2>1, <1>1, RmsElects
<1>2. CASE conf.policy \in PriorityPolicies
  <2>1. c \in PriorityChoice(T, p, prv, cur) BY <1>2 DEF Choice, PriorityPolicies
  <2> QED BY <2>1, <1>2, PriorityElects DEF PriorityPolicies
<1>3. CASE conf.policy = "PEDF"
  <2>1. c \in PedfChoice(T, p, prv, cur) BY <1>3 DEF Choice, PriorityPolicies
  <2> QED BY <2>1, <1>3, PedfElects
<1>4. CASE conf.policy = "WRR"
  <2>1. c \in WrrChoice(T, p, prv, cur) BY <1>4 DEF Choice, PriorityPolicies
  <2> QED BY <2>1, <1>4, WrrElects
<1>5. CASE conf.policy = "PWRR"
  <2>1. c \in PwrrChoice(T, p, prv, cur) BY <1>5 DEF Choice, PriorityPolicies
  <2> QED BY <2>1, <1>5, PwrrElects
<1>6. CASE conf.policy = "MLFQ"
  <2>1. c \in MlfqChoice(T, p, prv, cur) BY <1>6 DEF Choice, PriorityPolicies
  <2> QED BY <2>1, <1>6, MlfqElects
<1>7. CASE conf.policy = "RR"
  <2>1. c \in RrChoice(T, p, prv, cur) BY <1>7 DEF Choice, PriorityPolicies
  <2> QED BY <2>1, <1>7, RrElects
<1> QED BY <1>0, <1>1, <1>2, <1>3, <1>4, <1>5, <1>6, <1>7
        DEF Policies, PriorityPolicies
-----------------------------------------------------------------------------
(* What an election does before it chooses.                                *)

(* A thread that was created with a deadline has one.                      *)
Timed(T) == \A t \in Threads : conf.deadline[t] > 0 => T[t].dated

(* A thread of finite capacity that can run or will be woken up has some   *)
(* capacity left.                                                          *)
Finite(t) == t \in Threads \ {MainThread} /\ conf.capacity[t] # Infinite

Funded(T) ==
  \A t \in Threads : Finite(t) /\ T[t].state \in {"RUNNABLE", "WAITING"} =>
    T[t].remaining > 0

(* Writing fields of a thread.                                             *)
Written(r, m, s) == [r EXCEPT !.remaining = m, !.state = s]

LEMMA Fields ==
  ASSUME NEW r \in ThreadType, NEW s \in States, NEW m \in Int,
         NEW v, v = Written(r, m, s)
  PROVE  /\ v \in ThreadType
         /\ v.remaining = m /\ v.state = s
         /\ v.priority = r.priority /\ v.slice = r.slice /\ v.level = r.level
         /\ v.next = r.next /\ v.wakeup = r.wakeup
         /\ v.ddl = r.ddl /\ v.dated = r.dated
<1> DEFINE u == [r EXCEPT !.remaining = m]
<1>1. u \in ThreadType BY DEF ThreadType
<1>2. /\ u.remaining = m
      /\ u.priority = r.priority /\ u.slice = r.slice /\ u.level = r.level
      /\ u.next = r.next /\ u.wakeup = r.wakeup
      /\ u.ddl = r.ddl /\ u.dated = r.dated
  BY DEF ThreadType
<1>3. v = [u EXCEPT !.state = s] BY DEF Written
<1> HIDE DEF u
<1>4. v \in ThreadType BY <1>1, <1>3 DEF ThreadType
<1>5. /\ v.state = s /\ v.remaining = u.remaining
      /\ v.priority = u.priority /\ v.slice = u.slice /\ v.level = u.level
      /\ v.next = u.next /\ v.wakeup = u.wakeup
      /\ v.ddl = u.ddl /\ v.dated = u.dated
  BY <1>1, <1>3 DEF ThreadType
<1> QED BY <1>2, <1>4, <1>5

LEMMA Attributes ==
  ASSUME conf \in ConfType, NEW t \in Threads
  PROVE  /\ conf.lag \in Nat /\ conf.deadline[t] \in Nat
         /\ conf.capacity[t] \in Int
         /\ conf.capacity[t] # Infinite => conf.capacity[t] > 0
         /\ ~ Aperiodic(t) => conf.period[t] \in Nat
         /\ conf.affinity[t] \in Procs
         /\ conf.priority[t] \in 0..MaxPriority /\ conf.weight[t] \in Nat
BY DEF ConfType, Times, Infinite, Aperiodic

LEMMA ReleaseKeeps ==
  ASSUME conf \in ConfType, NEW t \in Threads, NEW r \in ThreadType,
         r.next >= -conf.lag, r.ddl >= -conf.lag
  PROVE  LET v == Release(r, t)
         IN  /\ v \in ThreadType
             /\ v.next >= -conf.lag /\ v.ddl >= -conf.lag
             /\ v.priority = r.priority /\ v.slice = r.slice /\ v.level = r.level
             /\ v.state = "RUNNABLE" /\ v.remaining = conf.capacity[t]
             /\ conf.deadline[t] > 0 => v.dated
<1> DEFINE v == Release(r, t)
           n == IF Aperiodic(t) THEN 1 ELSE r.next + conf.period[t]
           d == r.next + conf.deadline[t]
<1>1. /\ conf.lag \in Nat /\ conf.deadline[t] \in Nat
      /\ conf.capacity[t] \in Int
      /\ ~ Aperiodic(t) => conf.period[t] \in Nat
  BY Attributes
<1>2. r.next \in Int /\ r.ddl \in Int BY DEF ThreadType
<1>3. n \in Int /\ n >= -conf.lag /\ d \in Int /\ d >= -conf.lag
  BY <1>1, <1>2
<1> DEFINE b == ~ Aperiodic(t) \/ conf.deadline[t] > 0
           x == Written(r, conf.capacity[t], "RUNNABLE")
           y == [x EXCEPT !.ddl = d]
           z == [y EXCEPT !.dated = b]
           w == [z EXCEPT !.next = n]
<1>4. b \in BOOLEAN OBVIOUS
<1>5. v = w BY DEF Release, Written, ThreadType
<1>6. /\ x \in ThreadType
      /\ x.state = "RUNNABLE" /\ x.remaining = conf.capacity[t]
      /\ x.priority = r.priority /\ x.slice = r.slice /\ x.level = r.level
  <2>1. "RUNNABLE" \in States BY DEF States
  <2> QED BY <1>1, <2>1, Fields
<1> HIDE DEF v, x, n, d, b
<1>7. /\ y \in ThreadType /\ y.ddl = d
      /\ y.state = x.state /\ y.remaining = x.remaining
      /\ y.priority = x.priority /\ y.slice = x.slice /\ y.level = x.level
  BY <1>3, <1>6 DEF ThreadType
<1> HIDE DEF y
<1>8. /\ z \in ThreadType /\ z.ddl = y.ddl /\ z.dated = b
      /\ z.state = y.state /\ z.remaining = y.remaining
      /\ z.priority = y.priority /\ z.slice = y.slice /\ z.level = y.level
  BY <1>4, <1>7 DEF ThreadType
<1> HIDE DEF z
<1>9. /\ w \in ThreadType /\ w.next = n /\ w.ddl = z.ddl /\ w.dated = z.dated
      /\ w.state = z.state /\ w.remaining = z.remaining
      /\ w.priority = z.priority /\ w.slice = z.slice /\ w.level = z.level
  BY <1>3, <1>8 DEF ThreadType
<1> HIDE DEF w
<1>10. /\ v \in ThreadType
       /\ v.next >= -conf.lag /\ v.ddl >= -conf.lag
       /\ v.priority = r.priority /\ v.slice = r.slice /\ v.level = r.level
       /\ v.state = "RUNNABLE" /\ v.remaining = conf.capacity[t]
  BY <1>3, <1>5, <1>6, <1>7, <1>8, <1>9
<1>11. conf.deadline[t] > 0 => v.dated BY <1>5, <1>8, <1>9 DEF b
<1> QED BY <1>10, <1>11 DEF v

LEMMA ActivateKeeps ==
  ASSUME conf \in ConfType, NEW T, Table(T), NEW p, NEW A, A = Activate(T, p)
  PROVE  /\ Table(A)
         /\ \A t \in Threads :
              /\ conf.affinity[t] # p => A[t] = T[t]
              /\ A[t].priority = T[t].priority
              /\ A[t].slice = T[t].slice /\ A[t].level = T[t].level
         /\ Timed(T) => Timed(A)
         /\ Funded(T) => Funded(A)
<1>1. ASSUME NEW t \in Threads
      PROVE  /\ A[t] \in ThreadType
             /\ A[t].next >= -conf.lag /\ A[t].ddl >= -conf.lag
             /\ T[t].state = "STOPPED" => A[t].state = "STOPPED"
             /\ conf.affinity[t] # p => A[t] = T[t]
             /\ A[t].priority = T[t].priority
             /\ A[t].slice = T[t].slice /\ A[t].level = T[t].level
             /\ (conf.deadline[t] > 0 => T[t].dated) =>
                  (conf.deadline[t] > 0 => A[t].dated)
             /\ \/ /\ A[t].state \in {"RUNNABLE", "WAITING"} =>
                        T[t].state \in {"RUNNABLE", "WAITING"}
                   /\ A[t].remaining = T[t].remaining
                \/ A[t].remaining = conf.capacity[t]
  <2>0. /\ T[t] \in ThreadType
        /\ T[t].next >= -conf.lag /\ T[t].ddl >= -conf.lag
    BY DEF Table
  <2>1. A[t] = IF conf.affinity[t] # p THEN T[t]
               ELSE IF T[t].state = "WAITING" /\ T[t].wakeup = 0
                    THEN [T[t] EXCEPT !.state = "RUNNABLE"]
               ELSE IF Due(T[t]) THEN Release(T[t], t)
               ELSE T[t]
    BY DEF Activate
  <2>2. CASE A[t] = T[t] BY <2>0, <2>2
  <2>3. CASE /\ T[t].state = "WAITING"
             /\ A[t] = [T[t] EXCEPT !.state = "RUNNABLE"]
             /\ conf.affinity[t] = p
    <3>1. A[t] \in ThreadType BY <2>0, <2>3 DEF ThreadType, States
    <3>2. /\ A[t].next = T[t].next /\ A[t].ddl = T[t].ddl
          /\ A[t].priority = T[t].priority
          /\ A[t].slice = T[t].slice /\ A[t].level = T[t].level
          /\ A[t].dated = T[t].dated /\ A[t].remaining = T[t].remaining
      BY <2>0, <2>3 DEF ThreadType
    <3> QED BY <3>1, <3>2, <2>0, <2>3
  <2>4. CASE Due(T[t]) /\ A[t] = Release(T[t], t) /\ conf.affinity[t] = p
    <3>1. T[t].state # "STOPPED" BY <2>4 DEF Due
    <3> QED BY <3>1, <2>0, <2>4, ReleaseKeeps
  <2> QED BY <2>1, <2>2, <2>3, <2>4
<1>2. A \in [Threads -> ThreadType]
  <2>1. A = [t \in Threads |-> A[t]] BY DEF Activate
  <2> QED BY <2>1, <1>1
<1>3. Table(A) BY <1>1, <1>2, ThreadsAreNumbers DEF Table
<1>4. Timed(T) => Timed(A) BY <1>1 DEF Timed
<1>5. ASSUME Funded(T) PROVE Funded(A)
  <2> SUFFICES ASSUME NEW t \in Threads, Finite(t),
                      A[t].state \in {"RUNNABLE", "WAITING"}
               PROVE  A[t].remaining > 0
    BY DEF Funded
  <2>1. conf.capacity[t] > 0 BY Attributes DEF Finite
  <2> QED BY <2>1, <1>1, <1>5 DEF Funded
<1> QED BY <1>1, <1>3, <1>4, <1>5

LEMMA ChargeKeeps ==
  ASSUME conf \in ConfType, NEW T, Table(T),
         NEW cur \in Threads \union {Idle}, NEW C, C = Charge(T, cur)
  PROVE  /\ Table(C)
         /\ \A t \in Threads :
              /\ t # cur => C[t] = T[t]
              /\ C[t].state = "RUNNABLE" => T[t].state = "RUNNABLE"
              /\ C[t].priority = T[t].priority /\ C[t].ddl = T[t].ddl
              /\ C[t].slice = T[t].slice /\ C[t].level = T[t].level
         /\ Timed(T) => Timed(C)
         /\ Funded(T) => Funded(C)
         /\ Finite(cur) /\ C[cur].state = "RUNNABLE" => C[cur].remaining > 0
<1>1. CASE ~ Charged(T, cur)
  <2>1. C = T BY <1>1 DEF Charge
  <2>2. ~ Finite(cur)
    BY <1>1, Attributes, ThreadsAreNumbers DEF Charged, Finite
  <2> QED BY <2>1, <2>2
<1>2. CASE Charged(T, cur)
  <2>0. /\ cur \in Threads /\ cur # MainThread
        /\ T \in [Threads -> ThreadType] /\ T[cur] \in ThreadType
        /\ T[cur].remaining \in Int
    BY <1>2, TableFields DEF Charged, Table
  <2>1. C = [T EXCEPT ![cur].remaining = @ - 1,
                      ![cur].state = IF T[cur].remaining <= 1
                                     THEN "WAIT_NEXT_ACTIVATION" ELSE @]
    BY <1>2 DEF Charge
  <2>2. /\ C \in [Threads -> ThreadType]
        /\ \A t \in Threads \ {cur} : C[t] = T[t]
        /\ C[cur].remaining = T[cur].remaining - 1
        /\ C[cur].state = IF T[cur].remaining <= 1
                          THEN "WAIT_NEXT_ACTIVATION" ELSE T[cur].state
        /\ C[cur].priority = T[cur].priority /\ C[cur].ddl = T[cur].ddl
        /\ C[cur].slice = T[cur].slice /\ C[cur].level = T[cur].level
        /\ C[cur].next = T[cur].next /\ C[cur].dated = T[cur].dated
    <3> DEFINE s == IF T[cur].remaining <= 1 THEN "WAIT_NEXT_ACTIVATION"
                                             ELSE T[cur].state
               m == T[cur].remaining - 1
               r == Written(T[cur], m, s)
    <3>1. C = [T EXCEPT ![cur] = r] BY <2>0, <2>1 DEF Written
    <3>2. s \in States /\ m \in Int BY <2>0, TableFields DEF States
    <3> HIDE DEF s, m
    <3>3. /\ r \in ThreadType
          /\ r.remaining = m /\ r.state = s
          /\ r.priority = T[cur].priority /\ r.ddl = T[cur].ddl
          /\ r.slice = T[cur].slice /\ r.level = T[cur].level
          /\ r.next = T[cur].next /\ r.dated = T[cur].dated
      BY <2>0, <3>2, Fields
    <3> HIDE DEF r
    <3>4. /\ C \in [Threads -> ThreadType] /\ C[cur] = r
          /\ \A t \in Threads \ {cur} : C[t] = T[t]
      BY <2>0, <3>1, <3>3
    <3> QED BY <3>3, <3>4 DEF s, m
  <2>3. Table(C) BY <2>0, <2>2, ThreadsAreNumbers DEF Table
  <2>4. Timed(T) => Timed(C) BY <2>2 DEF Timed
  <2>5. C[cur].state \in {"RUNNABLE", "WAITING"} => C[cur].remaining > 0
    BY <2>0, <2>2
  <2>6. Funded(T) => Funded(C) BY <2>2, <2>5 DEF Funded
  <2>7. C[cur].state = "RUNNABLE" => T[cur].state = "RUNNABLE" BY <2>2
  <2> QED BY <2>2, <2>3, <2>4, <2>5, <2>6, <2>7
<1> QED BY <1>1, <1>2

(* An election: the threads of the processor whose time has come, the      *)
(* charge, the choice.                                                     *)
Elects(T, p, cur, c) ==
  LET D == c.th
  IN  /\ Table(D) /\ c.elected \in Ready(D, p) \union {Idle}
      /\ Timed(T) => Timed(D)
      /\ Funded(T) => Funded(D)
      /\ \A t \in Threads :
           /\ D[t].priority = T[t].priority
           /\ conf.affinity[t] # p =>
                /\ D[t].state = "RUNNABLE" => T[t].state = "RUNNABLE"
                /\ D[t].ddl = T[t].ddl
                /\ t # cur => D[t].remaining = T[t].remaining
      /\ /\ Timed(T) /\ DeadlinesSet(conf) /\ Positive(T)
         /\ conf.policy # "WRR" /\ c.elected = Idle
         => Ready(D, p) = {}
      /\ /\ Timed(T) /\ DeadlinesSet(conf) /\ PeriodsSorted(conf)
         /\ c.elected \in Ready(D, p)
         => \A t \in Ready(D, p) : ~ Above(D, t, c.elected)
      /\ /\ conf.policy \in {"WRR", "PWRR", "MLFQ"}
         /\ Finite(cur) /\ cur \in Ready(D, p) /\ c.elected # cur
         => \/ T[cur].slice <= 1
            \/ /\ conf.policy = "PWRR" /\ c.elected \in Threads
               /\ T[c.elected].priority > T[cur].priority
      /\ conf.policy = "MLFQ" => Highest(p, cur, c)

LEMMA ElectionElects ==
  ASSUME conf \in ConfType, NEW T, Table(T), NEW p,
         NEW prv \in Threads \union {Idle}, NEW cur \in Threads \union {Idle},
         NEW c \in ElectThread(T, p, prv, cur)
  PROVE  Elects(T, p, cur, c)
<1> DEFINE A == Activate(T, p)
           C == Charge(A, cur)
           D == c.th
<1>1. /\ Table(A)
      /\ \A t \in Threads :
           /\ conf.affinity[t] # p => A[t] = T[t]
           /\ A[t].priority = T[t].priority
           /\ A[t].slice = T[t].slice /\ A[t].level = T[t].level
      /\ Timed(T) => Timed(A)
      /\ Funded(T) => Funded(A)
  <2> HIDE DEF A
  <2>1. A = Activate(T, p) BY DEF A
  <2> QED BY <2>1, ActivateKeeps
<1>2. c \in Choice(C, p, prv, cur) BY DEF ElectThread
<1> HIDE DEF A
<1>3. /\ Table(C)
      /\ \A t \in Threads :
           /\ t # cur => C[t] = A[t]
           /\ C[t].state = "RUNNABLE" => A[t].state = "RUNNABLE"
           /\ C[t].priority = A[t].priority /\ C[t].ddl = A[t].ddl
           /\ C[t].slice = A[t].slice /\ C[t].level = A[t].level
      /\ Timed(A) => Timed(C)
      /\ Funded(A) => Funded(C)
      /\ Finite(cur) /\ C[cur].state = "RUNNABLE" => C[cur].remaining > 0
  <2>1. Table(A) BY <1>1
  <2> QED BY <2>1, ChargeKeeps
<1> HIDE DEF C
<1>4. /\ Valid(C, p, c)
      /\ Dated(C) /\ Positive(C) => Busy(C, p, c)
      /\ Dated(C) /\ PeriodsSorted(conf) => Best(C, p, c)
      /\ conf.policy \in {"WRR", "PWRR", "MLFQ"} => FullTurn(C, p, cur, c)
      /\ conf.policy = "MLFQ" => Highest(p, cur, c)
  BY <1>2, <1>3, ChoiceElects
<1>0. D = c.th OBVIOUS
<1> HIDE DEF D
<1>5. Table(D) /\ Alike(C, D) /\ Ready(D, p) = Ready(C, p)
  BY <1>0, <1>4, AlikeReady DEF Valid
<1>6. c.elected \in Ready(D, p) \union {Idle} BY <1>4, <1>5 DEF Valid
<1>7. Timed(T) => Timed(D)
  <2>1. Timed(T) => Timed(C) BY <1>1, <1>3
  <2> QED BY <2>1, <1>5 DEF Timed, Alike
<1>8. Funded(T) => Funded(D)
  <2>1. Funded(T) => Funded(C) BY <1>1, <1>3
  <2> QED BY <2>1, <1>5 DEF Funded, Alike, Finite
<1>9. ASSUME NEW t \in Threads
      PROVE  /\ D[t].priority = T[t].priority
             /\ conf.affinity[t] # p =>
                  /\ D[t].state = "RUNNABLE" => T[t].state = "RUNNABLE"
                  /\ D[t].ddl = T[t].ddl
                  /\ t # cur => D[t].remaining = T[t].remaining
  <2>1. /\ D[t].priority = C[t].priority /\ D[t].state = C[t].state
        /\ D[t].ddl = C[t].ddl /\ D[t].remaining = C[t].remaining
    BY <1>5 DEF Alike
  <2> QED BY <2>1, <1>1, <1>3
<1>10. Timed(T) /\ DeadlinesSet(conf) => Dated(C)
  BY <1>1, <1>3 DEF Timed, DeadlinesSet, Dated
<1>11. Positive(T) => Positive(C)
  BY <1>1, <1>3 DEF Positive
<1>12. ASSUME Timed(T), DeadlinesSet(conf), Positive(T),
              conf.policy # "WRR", c.elected = Idle
       PROVE  Ready(D, p) = {}
  BY <1>12, <1>4, <1>5, <1>10, <1>11 DEF Busy
<1>13. ASSUME Timed(T), DeadlinesSet(conf), PeriodsSorted(conf),
              c.elected \in Ready(D, p), NEW t \in Ready(D, p)
       PROVE  ~ Above(D, t, c.elected)
  <2>1. ~ Above(C, t, c.elected)
    BY <1>13, <1>4, <1>5, <1>10 DEF Best
  <2>2. t \in Threads /\ c.elected \in Threads BY <1>13, ReadyThreads
  <2>3. /\ D[t].priority = C[t].priority /\ D[t].ddl = C[t].ddl
        /\ D[c.elected].priority = C[c.elected].priority
        /\ D[c.elected].ddl = C[c.elected].ddl
    BY <2>2, <1>5 DEF Alike
  <2> QED BY <2>1, <2>3 DEF Above
<1>14. ASSUME conf.policy \in {"WRR", "PWRR", "MLFQ"},
              Finite(cur), cur \in Ready(D, p), c.elected # cur
       PROVE  \/ T[cur].slice <= 1
              \/ /\ conf.policy = "PWRR" /\ c.elected \in Threads
                 /\ T[c.elected].priority > T[cur].priority
  <2>1. cur \in Threads /\ cur \in Ready(C, p) /\ C[cur].state = "RUNNABLE"
    BY <1>5, <1>14 DEF Finite, Ready
  <2>2. C[cur].remaining > 0 BY <2>1, <1>3, <1>14
  <2>3. \/ C[cur].slice <= 1
        \/ /\ conf.policy = "PWRR" /\ c.elected \in Threads
           /\ C[c.elected].priority > C[cur].priority
    BY <2>1, <2>2, <1>4, <1>14 DEF FullTurn
  <2> QED BY <2>1, <2>3, <1>1, <1>3
<1> QED BY <1>4, <1>5, <1>6, <1>7, <1>8, <1>9, <1>12, <1>13, <1>14
        DEF Elects, D
-----------------------------------------------------------------------------
(* The inductive invariant.                                                *)

(* A table with its deadlines; the rest holds where the configuration      *)
(* gives it: priorities above 0, priorities nobody changed, capacities that*)
(* last.                                                                   *)
Kept(T) ==
  /\ Table(T) /\ Timed(T)
  /\ PrioritiesSet(conf) => Positive(T)
  /\ "set_priority" \notin conf.services =>
       \A t \in Threads : T[t].priority = conf.priority[t]
  /\ BudgetsStand(conf) => Funded(T)

(* A processor runs threads of its own, with capacity left.                *)
Placed ==
  \A p \in Procs : \A t \in Threads : current[p] = t => conf.affinity[t] = p

RunsFunded ==
  BudgetsStand(conf) =>
    \A p \in Procs : \A t \in Threads :
      current[p] = t /\ Finite(t) => th[t].remaining > 0

IInv ==
  /\ TypeOK /\ conf \in Configs /\ pending \subseteq conf.procs
  /\ Kept(th) /\ Placed /\ RunsFunded

LEMMA Configured ==
  ASSUME IInv
  PROVE  /\ conf \in ConfType /\ conf.procs \subseteq Procs
         /\ \A t \in Threads : conf.affinity[t] \in conf.procs
         /\ Timer \in conf.procs
BY ConstantsAssumption DEF IInv, TypeOK, ConfType

(* Changing one thread other than the main thread.                         *)
LEMMA EditKeeps ==
  ASSUME IInv, NEW t \in Threads \ {MainThread}, NEW T \in [Threads -> ThreadType],
         \A u \in Threads : u # t => T[u] = th[u],
         T[t].next >= -conf.lag, T[t].ddl = th[t].ddl, T[t].dated = th[t].dated,
         \/ T[t].priority = th[t].priority
         \/ T[t].priority = conf.priority[t]
         \/ "set_priority" \in conf.services /\ T[t].priority \in NewPriorities,
         BudgetsStand(conf) /\ Finite(t)
           /\ T[t].state \in {"RUNNABLE", "WAITING"}
         => \/ T[t].remaining > 0
            \/ T[t].remaining = th[t].remaining /\ T[t].state = th[t].state
  PROVE  Kept(T)
<1> DEFINE v == T[t]
<1>1. th \in [Threads -> ThreadType] /\ conf \in ConfType /\ Kept(th)
  BY Configured DEF IInv, TypeOK
<1>2. /\ T \in [Threads -> ThreadType] /\ T[t] = v
      /\ \A u \in Threads : u # t => T[u] = th[u]
  OBVIOUS
<1>3. Table(T) BY <1>1, <1>2, ThreadsAreNumbers DEF Table, Kept
<1>4. Timed(T) BY <1>1, <1>2 DEF Timed, Kept
<1>5. PrioritiesSet(conf) => Positive(T)
  <2>1. SUFFICES ASSUME PrioritiesSet(conf), conf.policy = "PWRR",
                        NEW u \in Threads \ {MainThread}
                 PROVE  T[u].priority > 0
    BY DEF Positive
  <2>2. th[u].priority > 0 BY <1>1, <2>1 DEF Kept, Positive
  <2>3. CASE u # t BY <2>2, <2>3, <1>2
  <2>4. CASE u = t
    <3>1. conf.priority[t] > 0 BY <2>1 DEF PrioritiesSet
    <3>2. ASSUME "set_priority" \in conf.services, v.priority \in NewPriorities
          PROVE  v.priority > 0
      <4>1. v.priority # 0 BY <2>1, <3>2 DEF PrioritiesSet
      <4>2. v.priority \in 0..MaxPriority BY <3>2, ConstantsAssumption
      <4> QED BY <4>1, <4>2 DEF MaxPriority
    <3> QED BY <2>2, <2>4, <3>1, <3>2, <1>2
  <2> QED BY <2>3, <2>4
<1>6. ASSUME "set_priority" \notin conf.services, NEW u \in Threads
      PROVE  T[u].priority = conf.priority[u]
  BY <1>1, <1>2, <1>6 DEF Kept
<1>7. BudgetsStand(conf) => Funded(T)
  <2>1. SUFFICES ASSUME BudgetsStand(conf), NEW u \in Threads, Finite(u),
                        T[u].state \in {"RUNNABLE", "WAITING"}
                 PROVE  T[u].remaining > 0
    BY DEF Funded
  <2>2. th[u].state \in {"RUNNABLE", "WAITING"} => th[u].remaining > 0
    BY <1>1, <2>1 DEF Kept, Funded
  <2> QED BY <2>1, <2>2, <1>2
<1> QED BY <1>2, <1>3, <1>4, <1>5, <1>6, <1>7 DEF Kept

LEMMA ClockKeeps ==
  ASSUME IInv
  PROVE  /\ Kept(Clock)
         /\ \A t \in Threads : /\ Clock[t].remaining = th[t].remaining
                               /\ Clock[t].slice = th[t].slice
                               /\ Clock[t].priority = th[t].priority
<1>0. /\ conf.lag \in Nat /\ Kept(th)
      /\ \A t \in Threads : th[t] \in ThreadType
  BY Configured, Attributes, ThreadsAreNumbers DEF IInv, TypeOK
<1>1. ASSUME NEW t \in Threads
      PROVE  /\ Clock[t] \in ThreadType
             /\ Clock[t].next >= -conf.lag /\ Clock[t].ddl >= -conf.lag
             /\ Clock[t].state = th[t].state /\ Clock[t].dated = th[t].dated
             /\ Clock[t].remaining = th[t].remaining
             /\ Clock[t].slice = th[t].slice
             /\ Clock[t].priority = th[t].priority
  <2> DEFINE r == th[t]
             n == IF Aperiodic(t) THEN r.next ELSE Earlier(r.next)
             d == IF r.dated THEN Earlier(r.ddl) ELSE r.ddl
             w == IF r.wakeup > 0 THEN r.wakeup - 1 ELSE 0
             x == [r EXCEPT !.wakeup = w]
             y == [x EXCEPT !.next = n]
             z == [y EXCEPT !.ddl = d]
  <2>1. /\ r \in ThreadType /\ r.next \in Int /\ r.ddl \in Int
        /\ r.next >= -conf.lag /\ r.ddl >= -conf.lag /\ r.wakeup \in Nat
    BY <1>0, TableFields DEF Kept, Table
  <2>2. /\ n \in Int /\ d \in Int /\ w \in Nat
        /\ n >= -conf.lag /\ d >= -conf.lag
    BY <1>0, <2>1 DEF Earlier
  <2>3. Clock[t] = z BY <2>1 DEF Clock, ThreadType
  <2> HIDE DEF r, n, d, w
  <2>4. /\ x \in ThreadType /\ x.state = r.state /\ x.dated = r.dated
        /\ x.remaining = r.remaining /\ x.slice = r.slice
        /\ x.priority = r.priority
    BY <2>1, <2>2 DEF ThreadType
  <2> HIDE DEF x
  <2>5. /\ y \in ThreadType /\ y.state = x.state /\ y.dated = x.dated
        /\ y.remaining = x.remaining /\ y.slice = x.slice
        /\ y.priority = x.priority /\ y.next = n
    BY <2>2, <2>4 DEF ThreadType
  <2> HIDE DEF y
  <2>6. /\ z \in ThreadType /\ z.state = y.state /\ z.dated = y.dated
        /\ z.remaining = y.remaining /\ z.slice = y.slice
        /\ z.priority = y.priority /\ z.next = y.next /\ z.ddl = d
    BY <2>2, <2>5 DEF ThreadType
  <2> HIDE DEF z
  <2> QED BY <2>2, <2>3, <2>4, <2>5, <2>6 DEF r
<1>2. Clock \in [Threads -> ThreadType]
  <2>1. Clock = [t \in Threads |-> Clock[t]] BY DEF Clock
  <2> QED BY <2>1, <1>1
<1> HIDE DEF Clock
<1>3. Table(Clock) BY <1>0, <1>1, <1>2, ThreadsAreNumbers DEF Kept, Table
<1>4. Timed(Clock) BY <1>0, <1>1 DEF Kept, Timed
<1>5. PrioritiesSet(conf) => Positive(Clock) BY <1>0, <1>1 DEF Kept, Positive
<1>6. "set_priority" \notin conf.services =>
        \A t \in Threads : Clock[t].priority = conf.priority[t]
  BY <1>0, <1>1 DEF Kept
<1>7. BudgetsStand(conf) => Funded(Clock)
  BY <1>0, <1>1 DEF Kept, Funded, Finite
<1> QED BY <1>1, <1>3, <1>4, <1>5, <1>6, <1>7 DEF Kept
-----------------------------------------------------------------------------
(* What Reschedule(T, p) does to the variables.                            *)

(* The elected thread can run, and no other processor is touched: at most  *)
(* fewer of its threads can run.                                           *)
Chosen(T, p) ==
  /\ Kept(th') /\ th' \in [Threads -> ThreadType]
  /\ current' \in [Procs -> Threads \union {Idle}]
  /\ prev' \in [Procs -> Threads \union {Idle}]
  /\ current'[p] \in Ready(th', p) \union {Idle}
  /\ \A q \in Procs \ {p} : current'[q] = current[q]
  /\ \A t \in Threads :
       /\ th'[t].priority = T[t].priority
       /\ conf.affinity[t] # p =>
            /\ th'[t].state = "RUNNABLE" => T[t].state = "RUNNABLE"
            /\ th'[t].ddl = T[t].ddl
            /\ t # current[p] => th'[t].remaining = T[t].remaining

(* What the policy promises of the choice.                                 *)
ChosenBusy(p) ==
  /\ DeadlinesSet(conf) /\ PrioritiesSet(conf)
  /\ conf.policy # "WRR" /\ current'[p] = Idle
  => Ready(th', p) = {}

ChosenBest(p) ==
  /\ DeadlinesSet(conf) /\ PeriodsSorted(conf)
  /\ current'[p] \in Ready(th', p)
  => \A t \in Ready(th', p) : ~ Above(th', t, current'[p])

ChosenTurn(T, p) ==
  /\ conf.policy \in {"WRR", "PWRR", "MLFQ"}
  /\ Finite(current[p]) /\ current[p] \in Ready(th', p)
  /\ current'[p] # current[p]
  => \/ T[current[p]].slice <= 1
     \/ /\ conf.policy = "PWRR" /\ current'[p] \in Threads
        /\ T[current'[p]].priority > T[current[p]].priority

ChosenLevel(p) ==
  conf.policy = "MLFQ" /\ current'[p] \in Threads \ {current[p]} =>
    \A t \in Ready(th', p) : th'[t].level <= th'[current'[p]].level

LEMMA RescheduleChooses ==
  ASSUME IInv, NEW T, Kept(T), NEW p \in Procs, Reschedule(T, p)
  PROVE  /\ Chosen(T, p)
         /\ ChosenBusy(p) /\ ChosenBest(p) /\ ChosenTurn(T, p) /\ ChosenLevel(p)
<1>1. PICK c \in ElectThread(T, p, prev[p], current[p]) :
        /\ th' = c.th
        /\ current' = [current EXCEPT ![p] = c.elected]
        /\ prev' = IF c.elected # current[p] /\ current[p] # Idle
                   THEN [prev EXCEPT ![p] = current[p]] ELSE prev
  BY DEF Reschedule
<1>2. /\ conf \in ConfType /\ Table(T) /\ Timed(T)
      /\ current \in [Procs -> Threads \union {Idle}]
      /\ prev \in [Procs -> Threads \union {Idle}]
      /\ prev[p] \in Threads \union {Idle}
      /\ current[p] \in Threads \union {Idle}
  BY Configured DEF IInv, TypeOK, Kept
<1> DEFINE D == th'
           cur == current[p]
<1>3. D = c.th BY <1>1
<1> HIDE DEF D
<1>4. /\ Table(D) /\ c.elected \in Ready(D, p) \union {Idle}
      /\ Timed(T) => Timed(D)
      /\ Funded(T) => Funded(D)
      /\ \A t \in Threads :
           /\ D[t].priority = T[t].priority
           /\ conf.affinity[t] # p =>
                /\ D[t].state = "RUNNABLE" => T[t].state = "RUNNABLE"
                /\ D[t].ddl = T[t].ddl
                /\ t # cur => D[t].remaining = T[t].remaining
      /\ /\ Timed(T) /\ DeadlinesSet(conf) /\ Positive(T)
         /\ conf.policy # "WRR" /\ c.elected = Idle
         => Ready(D, p) = {}
      /\ /\ Timed(T) /\ DeadlinesSet(conf) /\ PeriodsSorted(conf)
         /\ c.elected \in Ready(D, p)
         => \A t \in Ready(D, p) : ~ Above(D, t, c.elected)
      /\ /\ conf.policy \in {"WRR", "PWRR", "MLFQ"}
         /\ Finite(cur) /\ cur \in Ready(D, p) /\ c.elected # cur
         => \/ T[cur].slice <= 1
            \/ /\ conf.policy = "PWRR" /\ c.elected \in Threads
               /\ T[c.elected].priority > T[cur].priority
      /\ conf.policy = "MLFQ" => Highest(p, cur, c)
  <2>1. Elects(T, p, cur, c) BY <1>1, <1>2, ElectionElects
  <2> QED BY <2>1, <1>3 DEF Elects
<1>5. Ready(D, p) \subseteq Threads BY ReadyThreads
<1>6. c.elected \in Threads \union {Idle} BY <1>4, <1>5
<1>7. /\ current' \in [Procs -> Threads \union {Idle}]
      /\ current'[p] = c.elected
      /\ \A q \in Procs \ {p} : current'[q] = current[q]
  BY <1>1, <1>2, <1>6
<1>8. prev' \in [Procs -> Threads \union {Idle}]
  BY <1>1, <1>2
<1>9. Kept(D)
  <2>1. PrioritiesSet(conf) => Positive(D)
    BY <1>4 DEF Kept, Positive
  <2>2. "set_priority" \notin conf.services =>
          \A t \in Threads : D[t].priority = conf.priority[t]
    BY <1>4 DEF Kept
  <2>3. BudgetsStand(conf) => Funded(D) BY <1>4 DEF Kept
  <2> QED BY <2>1, <2>2, <2>3, <1>2, <1>4 DEF Kept
<1>10. Chosen(T, p)
  <2>1. D \in [Threads -> ThreadType] BY <1>4 DEF Table
  <2> QED BY <2>1, <1>4, <1>7, <1>8, <1>9 DEF Chosen, D
<1>11. ChosenBusy(p)
  <2>1. PrioritiesSet(conf) => Positive(T) BY DEF Kept
  <2> QED BY <2>1, <1>2, <1>4, <1>7 DEF ChosenBusy, D
<1>12. ChosenBest(p) BY <1>2, <1>4, <1>7 DEF ChosenBest, D
<1>13. ChosenTurn(T, p) BY <1>4, <1>7 DEF ChosenTurn, D
<1>14. ChosenLevel(p)
  BY <1>3, <1>4, <1>7 DEF ChosenLevel, Highest, D
<1> QED BY <1>10, <1>11, <1>12, <1>13, <1>14
-----------------------------------------------------------------------------
(* The steps, in three forms.                                              *)

(* The table T as the clock or a service called on p leaves it.            *)
Prepared(T, p) ==
  /\ Kept(T)
  /\ \A t \in Threads : t # current[p] => T[t].remaining = th[t].remaining

(* A service of p about its own threads, or an interrupt.                  *)
Local(T, p) ==
  /\ p \in conf.procs /\ Prepared(T, p) /\ Reschedule(T, p)
  /\ \A t \in Threads : conf.affinity[t] # p => T[t] = th[t]
  /\ pending' \subseteq pending /\ pending \subseteq pending' \union {p}

(* The clock, or a service about a thread of any processor.                *)
Global(T, p) ==
  /\ p \in conf.procs /\ Prepared(T, p) /\ Reschedule(T, p)
  /\ pending' = pending \union (conf.procs \ {p})

(* A service without election.                                             *)
Quiet ==
  /\ Kept(th')
  /\ current' = current /\ prev' = prev /\ pending' = pending
  /\ \A t \in Threads :
       /\ th'[t].remaining = th[t].remaining /\ th'[t].ddl = th[t].ddl
       /\ th'[t].state = "RUNNABLE" => th[t].state = "RUNNABLE"
       /\ \/ th'[t].priority = th[t].priority
          \/ ~ PrioritiesStand(conf)
          \/ conf.policy \notin PriorityPolicies \union {"PWRR"}

(* The services write these fields of one thread.                          *)
Stored(r, s, m, w, n, o) ==
  [r EXCEPT !.state = s, !.remaining = m, !.wakeup = w, !.next = n,
            !.priority = o]

(* A service changes thread t in the table, and what it may write.         *)
Store(t, s, m, w, n, o) == [th EXCEPT ![t] = Stored(th[t], s, m, w, n, o)]

MayStore(t, s, m, w, n, o) ==
  /\ t \in Threads \ {MainThread}
  /\ s \in States /\ m \in Int /\ w \in Nat /\ n \in Int /\ n >= -conf.lag
  /\ o \in 0..MaxPriority
  /\ \/ o = th[t].priority
     \/ o = conf.priority[t]
     \/ "set_priority" \in conf.services /\ o \in NewPriorities
  /\ BudgetsStand(conf) /\ Finite(t) /\ s \in {"RUNNABLE", "WAITING"} =>
       m > 0 \/ (m = th[t].remaining /\ s = th[t].state)

Changed(T, t) ==
  /\ Kept(T)
  /\ \A u \in Threads : u # t => T[u] = th[u]
  /\ T[t].ddl = th[t].ddl

LEMMA StoredFields ==
  ASSUME NEW t, NEW s, NEW m, NEW w, NEW n, NEW o,
         MayStore(t, s, m, w, n, o), th[t] \in ThreadType,
         NEW v, v = Stored(th[t], s, m, w, n, o)
  PROVE  /\ v \in ThreadType
         /\ v.state = s /\ v.remaining = m /\ v.next = n /\ v.priority = o
         /\ v.ddl = th[t].ddl /\ v.dated = th[t].dated /\ v.slice = th[t].slice
<1> DEFINE r == th[t]
           x == Written(r, m, s)
           y == [x EXCEPT !.wakeup = w]
           z == [y EXCEPT !.next = n]
           u == [z EXCEPT !.priority = o]
<1>0. /\ s \in States /\ m \in Int /\ w \in Nat /\ n \in Int
      /\ o \in 0..MaxPriority /\ r \in ThreadType
  BY DEF MayStore
<1>1. v = u BY <1>0 DEF Stored, Written, ThreadType
<1>2. /\ x \in ThreadType /\ x.state = s /\ x.remaining = m
      /\ x.ddl = r.ddl /\ x.dated = r.dated /\ x.slice = r.slice
  BY <1>0, Fields
<1> HIDE DEF x
<1>3. /\ y \in ThreadType /\ y.state = s /\ y.remaining = m
      /\ y.ddl = r.ddl /\ y.dated = r.dated /\ y.slice = r.slice
  BY <1>0, <1>2 DEF ThreadType
<1> HIDE DEF y
<1>4. /\ z \in ThreadType /\ z.state = s /\ z.remaining = m /\ z.next = n
      /\ z.ddl = r.ddl /\ z.dated = r.dated /\ z.slice = r.slice
  BY <1>0, <1>3 DEF ThreadType
<1> HIDE DEF z
<1>5. /\ u \in ThreadType /\ u.state = s /\ u.remaining = m /\ u.next = n
      /\ u.priority = o
      /\ u.ddl = r.ddl /\ u.dated = r.dated /\ u.slice = r.slice
  BY <1>0, <1>4 DEF ThreadType
<1> QED BY <1>1, <1>5

LEMMA ServiceChanges ==
  ASSUME IInv, NEW t, NEW s, NEW m, NEW w, NEW n, NEW o,
         MayStore(t, s, m, w, n, o), NEW T, T = Store(t, s, m, w, n, o)
  PROVE  /\ Changed(T, t)
         /\ T[t].state = s /\ T[t].remaining = m /\ T[t].priority = o
<1> DEFINE v == Stored(th[t], s, m, w, n, o)
<1>1. th \in [Threads -> ThreadType] /\ t \in Threads \ {MainThread}
  BY DEF IInv, TypeOK, MayStore
<1>2. /\ v \in ThreadType
      /\ v.state = s /\ v.remaining = m /\ v.next = n /\ v.priority = o
      /\ v.ddl = th[t].ddl /\ v.dated = th[t].dated /\ v.slice = th[t].slice
  <2>1. th[t] \in ThreadType BY <1>1
  <2>2. v = Stored(th[t], s, m, w, n, o) OBVIOUS
  <2> HIDE DEF v
  <2> QED BY <2>1, <2>2, StoredFields
<1>3. T = [th EXCEPT ![t] = v] BY DEF Store
<1> HIDE DEF v
<1>4. /\ T \in [Threads -> ThreadType] /\ T[t] = v
      /\ \A u \in Threads : u # t => T[u] = th[u]
  BY <1>1, <1>2, <1>3
<1>5. Kept(T)
  <2>1. /\ T[t].next >= -conf.lag /\ T[t].ddl = th[t].ddl
        /\ T[t].dated = th[t].dated
    BY <1>2, <1>4 DEF MayStore
  <2>2. \/ T[t].priority = th[t].priority
        \/ T[t].priority = conf.priority[t]
        \/ "set_priority" \in conf.services /\ T[t].priority \in NewPriorities
    BY <1>2, <1>4 DEF MayStore
  <2>3. BudgetsStand(conf) /\ Finite(t)
          /\ T[t].state \in {"RUNNABLE", "WAITING"}
        => \/ T[t].remaining > 0
           \/ T[t].remaining = th[t].remaining /\ T[t].state = th[t].state
    BY <1>2, <1>4 DEF MayStore
  <2> QED BY <1>1, <1>4, <2>1, <2>2, <2>3, EditKeeps
<1> QED BY <1>2, <1>4, <1>5 DEF Changed

(* What a service that is called on p may count on.                        *)
LEMMA Called ==
  ASSUME IInv, NEW p \in conf.procs, NEW f, Caller(p, f)
  PROVE  /\ f \in conf.services
         /\ current[p] \in Threads \ {MainThread}
         /\ conf.affinity[current[p]] = p
         /\ BudgetsStand(conf) /\ Finite(current[p]) => th[current[p]].remaining > 0
<1>1. p \in Procs BY Configured
<1>2. f \in conf.services /\ current[p] \in Threads \ {MainThread}
  BY DEF Caller
<1>3. conf.affinity[current[p]] = p BY <1>1, <1>2 DEF IInv, Placed
<1> QED BY <1>1, <1>2, <1>3 DEF IInv, RunsFunded

LEMMA ThreadValues ==
  ASSUME IInv, NEW t \in Threads
  PROVE  /\ th \in [Threads -> ThreadType] /\ th[t] \in ThreadType
         /\ th[t].state \in States /\ th[t].remaining \in Int
         /\ th[t].wakeup \in Nat /\ th[t].next \in Int
         /\ th[t].priority \in 0..MaxPriority
         /\ th[t].next >= -conf.lag /\ conf.lag \in Nat
         /\ conf.priority[t] \in 0..MaxPriority
         /\ conf.delays \subseteq Nat
<1>1. conf \in ConfType /\ th \in [Threads -> ThreadType] BY DEF IInv, TypeOK
<1>2. th[t].next >= -conf.lag BY DEF IInv, Kept, Table
<1>3. conf.delays \subseteq Nat BY <1>1 DEF ConfType
<1>4. th[t].priority \in 0..MaxPriority BY <1>1 DEF ThreadType
<1> QED BY <1>1, <1>2, <1>3, <1>4, TableFields, Attributes

(* The caller changes its own thread.                                      *)
LEMMA CallerChanges ==
  ASSUME IInv, NEW p \in conf.procs, NEW f, Caller(p, f), NEW T,
         Changed(T, current[p]), Reschedule(T, p), pending' = pending
  PROVE  Local(T, p)
<1>1. /\ current[p] \in Threads /\ conf.affinity[current[p]] = p
  BY Called
<1>2. \A t \in Threads : t # current[p] => T[t] = th[t] BY DEF Changed
<1>3. Prepared(T, p) BY <1>2 DEF Changed, Prepared
<1> QED BY <1>1, <1>2, <1>3 DEF Local

LEMMA SleepIsLocal ==
  ASSUME IInv, NEW p \in conf.procs, NEW n \in conf.delays, Sleep(p, n)
  PROVE  \E T : Local(T, p)
<1> DEFINE c == current[p]
           r == th[c]
           T == [th EXCEPT ![c].state = "WAITING", ![c].wakeup = n]
<1>1. Caller(p, "sleep") /\ Reschedule(T, p) /\ pending' = pending
  BY DEF Sleep
<1>2. /\ c \in Threads \ {MainThread}
      /\ BudgetsStand(conf) /\ Finite(c) => r.remaining > 0
  BY <1>1, Called
<1>3. /\ th \in [Threads -> ThreadType] /\ r \in ThreadType
      /\ r.remaining \in Int /\ r.next \in Int /\ r.next >= -conf.lag
      /\ r.priority \in 0..MaxPriority /\ n \in Nat /\ "WAITING" \in States
  BY <1>2, ThreadValues DEF States
<1>4. MayStore(c, "WAITING", r.remaining, n, r.next, r.priority)
  BY <1>2, <1>3 DEF MayStore
<1>5. T = Store(c, "WAITING", r.remaining, n, r.next, r.priority)
  <2>1. Stored(r, "WAITING", r.remaining, n, r.next, r.priority)
          = [r EXCEPT !.state = "WAITING", !.wakeup = n]
    BY <1>3 DEF Stored, ThreadType
  <2> QED BY <1>2, <1>3, <2>1 DEF Store
<1> HIDE DEF T
<1>6. Changed(T, c) BY <1>4, <1>5, ServiceChanges
<1>7. Local(T, p) BY <1>1, <1>6, CallerChanges
<1> QED BY <1>7

LEMMA SuspendSelfIsLocal ==
  ASSUME IInv, NEW p \in conf.procs, SuspendSelf(p)
  PROVE  \E T : Local(T, p)
<1> DEFINE c == current[p]
           r == th[c]
           T == SetState(c, "STOPPED")
<1>1. Caller(p, "suspend") /\ Reschedule(T, p) /\ pending' = pending
  BY DEF SuspendSelf
<1>2. c \in Threads \ {MainThread} BY <1>1, Called
<1>3. /\ th \in [Threads -> ThreadType] /\ r \in ThreadType
      /\ r.remaining \in Int /\ r.next \in Int /\ r.next >= -conf.lag
      /\ r.priority \in 0..MaxPriority /\ r.wakeup \in Nat
      /\ "STOPPED" \in States
  BY <1>2, ThreadValues DEF States
<1>4. MayStore(c, "STOPPED", r.remaining, r.wakeup, r.next, r.priority)
  BY <1>2, <1>3 DEF MayStore
<1>5. T = Store(c, "STOPPED", r.remaining, r.wakeup, r.next, r.priority)
  <2>1. Stored(r, "STOPPED", r.remaining, r.wakeup, r.next, r.priority)
          = [r EXCEPT !.state = "STOPPED"]
    BY <1>3 DEF Stored, ThreadType
  <2> QED BY <1>2, <1>3, <2>1 DEF Store, SetState
<1> HIDE DEF T
<1>6. Changed(T, c) BY <1>4, <1>5, ServiceChanges
<1>7. Local(T, p) BY <1>1, <1>6, CallerChanges
<1> QED BY <1>7

LEMMA EndPeriodIsLocal ==
  ASSUME IInv, NEW p \in conf.procs, EndPeriod(p)
  PROVE  \E T : Local(T, p)
<1> DEFINE c == current[p]
           r == th[c]
           e == "WAIT_NEXT_ACTIVATION"
           T == [th EXCEPT ![c].state = e, ![c].remaining = 0]
<1>1. Caller(p, "end_period") /\ Reschedule(T, p) /\ pending' = pending
  BY DEF EndPeriod
<1>2. c \in Threads \ {MainThread} BY <1>1, Called
<1>3. /\ th \in [Threads -> ThreadType] /\ r \in ThreadType
      /\ r.next \in Int /\ r.next >= -conf.lag
      /\ r.priority \in 0..MaxPriority /\ r.wakeup \in Nat
      /\ e \in States
  BY <1>2, ThreadValues DEF States
<1>4. MayStore(c, e, 0, r.wakeup, r.next, r.priority)
  BY <1>2, <1>3 DEF MayStore
<1>5. T = Store(c, e, 0, r.wakeup, r.next, r.priority)
  <2>1. Stored(r, e, 0, r.wakeup, r.next, r.priority)
          = [r EXCEPT !.state = e, !.remaining = 0]
    BY <1>3 DEF Stored, ThreadType
  <2> QED BY <1>2, <1>3, <2>1 DEF Store
<1> HIDE DEF T
<1>6. Changed(T, c) BY <1>4, <1>5, ServiceChanges
<1>7. Local(T, p) BY <1>1, <1>6, CallerChanges
<1> QED BY <1>7

LEMMA ElectIsLocal ==
  ASSUME IInv, NEW p \in conf.procs, Elect(p)
  PROVE  Local(th, p)
<1>1. /\ Reschedule(th, p) /\ pending' = pending \ {p}
  BY DEF Elect
<1>2. Prepared(th, p) BY DEF IInv, Prepared
<1> QED BY <1>1, <1>2 DEF Local

(* The target of a service is another thread than the caller, or keeps its *)
(* capacity.                                                               *)
LEMMA TargetChanges ==
  ASSUME IInv, NEW p \in conf.procs, NEW t, NEW T, Changed(T, t),
         T[t].remaining = th[t].remaining, GlobalReschedule(T, p)
  PROVE  Global(T, p)
<1>1. \A u \in Threads : u # t => T[u] = th[u] BY DEF Changed
<1>2. Prepared(T, p) BY <1>1 DEF Changed, Prepared
<1> QED BY <1>2 DEF Global, GlobalReschedule

LEMMA TickIsGlobal ==
  ASSUME IInv, Tick
  PROVE  Global(Clock, Timer)
<1>1. Prepared(Clock, Timer) BY ClockKeeps DEF Prepared
<1>2. Timer \in conf.procs BY Configured
<1> QED BY <1>1, <1>2 DEF Tick, GlobalReschedule, Global

LEMMA SuspendTargetIsQuiet ==
  ASSUME IInv, NEW p \in conf.procs, NEW t \in Threads \ {MainThread},
         SuspendTarget(p, t)
  PROVE  Quiet
<1> DEFINE r == th[t]
           T == SetState(t, "STOPPED")
<1>1. th' = T /\ current' = current /\ prev' = prev /\ pending' = pending
  BY DEF SuspendTarget
<1>2. /\ th \in [Threads -> ThreadType] /\ r \in ThreadType
      /\ r.remaining \in Int /\ r.next \in Int /\ r.next >= -conf.lag
      /\ r.priority \in 0..MaxPriority /\ r.wakeup \in Nat
      /\ "STOPPED" \in States
  BY ThreadValues DEF States
<1>3. MayStore(t, "STOPPED", r.remaining, r.wakeup, r.next, r.priority)
  BY <1>2 DEF MayStore
<1>4. T = Store(t, "STOPPED", r.remaining, r.wakeup, r.next, r.priority)
  <2>1. Stored(r, "STOPPED", r.remaining, r.wakeup, r.next, r.priority)
          = [r EXCEPT !.state = "STOPPED"]
    BY <1>2 DEF Stored, ThreadType
  <2> QED BY <1>2, <2>1 DEF Store, SetState
<1> HIDE DEF T
<1>5. /\ Changed(T, t)
      /\ T[t].state = "STOPPED" /\ T[t].remaining = r.remaining
      /\ T[t].priority = r.priority
  BY <1>3, <1>4, ServiceChanges
<1>6. \A u \in Threads :
        /\ T[u].remaining = th[u].remaining /\ T[u].ddl = th[u].ddl
        /\ T[u].state = "RUNNABLE" => th[u].state = "RUNNABLE"
        /\ T[u].priority = th[u].priority
  BY <1>5 DEF Changed
<1> QED BY <1>1, <1>5, <1>6 DEF Quiet, Changed

LEMMA ResumeIsGlobal ==
  ASSUME IInv, NEW p \in conf.procs, NEW t \in Threads \ {MainThread},
         Resume(p, t)
  PROVE  \E T : Global(T, p)
<1> DEFINE r == th[t]
           T == [th EXCEPT ![t].state = "RUNNABLE", ![t].wakeup = 0]
<1>1. Caller(p, "resume") /\ GlobalReschedule(T, p)
  BY DEF Resume
<1>2. /\ th \in [Threads -> ThreadType] /\ r \in ThreadType
      /\ r.remaining \in Int /\ r.next \in Int /\ r.next >= -conf.lag
      /\ r.priority \in 0..MaxPriority /\ "RUNNABLE" \in States
  BY ThreadValues DEF States
<1>3. "resume" \in conf.services BY <1>1 DEF Caller
<1>4. BudgetsStand(conf) => ~ Finite(t) BY <1>3 DEF BudgetsStand, Finite
<1>5. MayStore(t, "RUNNABLE", r.remaining, 0, r.next, r.priority)
  BY <1>2, <1>4 DEF MayStore
<1>6. T = Store(t, "RUNNABLE", r.remaining, 0, r.next, r.priority)
  <2>1. Stored(r, "RUNNABLE", r.remaining, 0, r.next, r.priority)
          = [r EXCEPT !.state = "RUNNABLE", !.wakeup = 0]
    BY <1>2 DEF Stored, ThreadType
  <2> QED BY <1>2, <2>1 DEF Store
<1> HIDE DEF T
<1>7. Changed(T, t) /\ T[t].remaining = r.remaining
  BY <1>5, <1>6, ServiceChanges
<1>8. Global(T, p) BY <1>1, <1>7, TargetChanges
<1> QED BY <1>8

LEMMA SetPriorityIsGlobal ==
  ASSUME IInv, NEW p \in conf.procs, NEW t \in Threads \ {MainThread},
         NEW o \in NewPriorities, SetPriority(p, t, o)
  PROVE  \E T : Global(T, p)
<1> DEFINE r == th[t]
           T == [th EXCEPT ![t].priority = o]
<1>1. Caller(p, "set_priority") /\ GlobalReschedule(T, p)
  BY DEF SetPriority
<1>2. /\ th \in [Threads -> ThreadType] /\ r \in ThreadType
      /\ r.state \in States /\ r.wakeup \in Nat
      /\ r.remaining \in Int /\ r.next \in Int /\ r.next >= -conf.lag
      /\ o \in 0..MaxPriority
  BY ThreadValues, ConstantsAssumption
<1>3. "set_priority" \in conf.services BY <1>1 DEF Caller
<1>4. MayStore(t, r.state, r.remaining, r.wakeup, r.next, o)
  BY <1>2, <1>3 DEF MayStore
<1>5. T = Store(t, r.state, r.remaining, r.wakeup, r.next, o)
  <2>1. Stored(r, r.state, r.remaining, r.wakeup, r.next, o)
          = [r EXCEPT !.priority = o]
    BY <1>2 DEF Stored, ThreadType
  <2> QED BY <1>2, <2>1 DEF Store
<1> HIDE DEF T
<1>6. Changed(T, t) /\ T[t].remaining = r.remaining
  BY <1>4, <1>5, ServiceChanges
<1>7. Global(T, p) BY <1>1, <1>6, TargetChanges
<1> QED BY <1>7

LEMMA StartIsGlobalOrQuiet ==
  ASSUME IInv, NEW p \in conf.procs, NEW t \in Threads \ {MainThread},
         NEW n \in conf.delays, DelayedStart(p, t, n)
  PROVE  (\E T : Global(T, p)) \/ Quiet
<1> DEFINE r == th[t]
           o == conf.priority[t]
<1>1. /\ th \in [Threads -> ThreadType] /\ r \in ThreadType
      /\ r.state \in States /\ r.wakeup \in Nat
      /\ r.remaining \in Int /\ r.next \in Int /\ r.next >= -conf.lag
      /\ o \in 0..MaxPriority /\ n \in Nat /\ conf.lag \in Nat
      /\ "RUNNABLE" \in States /\ "WAITING" \in States
  BY ThreadValues DEF States
<1>2. Caller(p, "delayed_start") BY DEF DelayedStart
<1>3. "delayed_start" \in conf.services BY <1>2 DEF Caller
<1>4. CASE Aperiodic(t)
  <2> DEFINE e == IF n = 0 THEN "RUNNABLE" ELSE "WAITING"
             w == IF n = 0 THEN r.wakeup ELSE n
             T == [th EXCEPT ![t].priority = o, ![t].state = e,
                             ![t].wakeup = IF n = 0 THEN @ ELSE n]
  <2>1. GlobalReschedule(T, p) BY <1>4 DEF DelayedStart
  <2>2. e \in States /\ w \in Nat BY <1>1
  <2>3. BudgetsStand(conf) => ~ Finite(t)
    BY <1>3, <1>4 DEF BudgetsStand, Finite, Aperiodic
  <2> HIDE DEF e
  <2>4. MayStore(t, e, r.remaining, w, r.next, o)
    BY <1>1, <2>2, <2>3 DEF MayStore
  <2>5. T = Store(t, e, r.remaining, w, r.next, o)
    <3>1. Stored(r, e, r.remaining, w, r.next, o)
            = [r EXCEPT !.priority = o, !.state = e,
                        !.wakeup = IF n = 0 THEN @ ELSE n]
      <4>1. Stored(r, e, r.remaining, w, r.next, o)
              = [r EXCEPT !.priority = o, !.state = e, !.wakeup = w]
        BY <1>1, <2>2 DEF Stored, ThreadType
      <4>2. [r EXCEPT !.priority = o, !.state = e].wakeup = r.wakeup
        BY <1>1 DEF ThreadType
      <4> QED BY <4>1, <4>2
    <3> QED BY <1>1, <3>1 DEF Store
  <2> HIDE DEF T
  <2>6. Changed(T, t) /\ T[t].remaining = r.remaining
    BY <2>4, <2>5, ServiceChanges
  <2>7. Global(T, p) BY <2>1, <2>6, TargetChanges
  <2> QED BY <2>7
<1>5. CASE ~ Aperiodic(t)
  <2> DEFINE T == [th EXCEPT ![t].priority = o, ![t].next = n]
  <2>1. th' = T /\ current' = current /\ prev' = prev /\ pending' = pending
    BY <1>5 DEF DelayedStart
  <2>2. MayStore(t, r.state, r.remaining, r.wakeup, n, o)
    BY <1>1 DEF MayStore
  <2>3. T = Store(t, r.state, r.remaining, r.wakeup, n, o)
    <3>1. Stored(r, r.state, r.remaining, r.wakeup, n, o)
            = [r EXCEPT !.priority = o, !.next = n]
      BY <1>1 DEF Stored, ThreadType
    <3> QED BY <1>1, <3>1 DEF Store
  <2> HIDE DEF T
  <2>4. /\ Changed(T, t)
        /\ T[t].state = r.state /\ T[t].remaining = r.remaining
        /\ T[t].priority = o
    BY <2>2, <2>3, ServiceChanges
  <2>5. \/ o = r.priority
        \/ ~ PrioritiesStand(conf)
        \/ conf.policy \notin PriorityPolicies \union {"PWRR"}
    <3>1. "set_priority" \notin conf.services => r.priority = o
      BY DEF IInv, Kept
    <3>2. conf.period[t] # Infinite BY <1>5 DEF Aperiodic
    <3> QED BY <3>1, <3>2, <1>3 DEF PrioritiesStand
  <2>6. \A u \in Threads :
          /\ T[u].remaining = th[u].remaining /\ T[u].ddl = th[u].ddl
          /\ T[u].state = "RUNNABLE" => th[u].state = "RUNNABLE"
          /\ \/ T[u].priority = th[u].priority
             \/ ~ PrioritiesStand(conf)
             \/ conf.policy \notin PriorityPolicies \union {"PWRR"}
    BY <2>4, <2>5 DEF Changed
  <2> QED BY <2>1, <2>4, <2>6 DEF Quiet, Changed
<1> QED BY <1>4, <1>5

(* Every step has one of the three forms.                                  *)
LEMMA StepForms ==
  ASSUME IInv, Step
  PROVE  (\E p, T : Local(T, p) \/ Global(T, p)) \/ Quiet
<1>1. CASE Tick BY <1>1, TickIsGlobal
<1>2. CASE \E p \in conf.procs : Elect(p) BY <1>2, ElectIsLocal
<1>3. CASE \E p \in conf.procs : SuspendSelf(p) BY <1>3, SuspendSelfIsLocal
<1>4. CASE \E p \in conf.procs : EndPeriod(p) BY <1>4, EndPeriodIsLocal
<1>5. CASE \E p \in conf.procs, n \in conf.delays : Sleep(p, n)
  BY <1>5, SleepIsLocal
<1>6. CASE \E p \in conf.procs, t \in Threads \ {MainThread} : SuspendTarget(p, t)
  BY <1>6, SuspendTargetIsQuiet
<1>7. CASE \E p \in conf.procs, t \in Threads \ {MainThread} : Resume(p, t)
  BY <1>7, ResumeIsGlobal
<1>8. CASE \E p \in conf.procs, t \in Threads \ {MainThread} :
             \E n \in NewPriorities : SetPriority(p, t, n)
  BY <1>8, SetPriorityIsGlobal
<1>9. CASE \E p \in conf.procs, t \in Threads \ {MainThread} :
             \E n \in conf.delays : DelayedStart(p, t, n)
  BY <1>9, StartIsGlobalOrQuiet
<1> QED BY <1>1, <1>2, <1>3, <1>4, <1>5, <1>6, <1>7, <1>8, <1>9 DEF Step
-----------------------------------------------------------------------------
(* IInv is inductive.                                                      *)

LEMMA InitKeeps ==
  ASSUME Init
  PROVE  IInv
<1>1. conf \in Configs /\ conf \in ConfType BY ConstantsAssumption DEF Init
<1>2. /\ conf.lag \in Nat /\ conf.procs \subseteq Procs
      /\ \A t \in Threads :
           /\ conf.deadline[t] \in Nat /\ conf.capacity[t] \in Int
           /\ conf.capacity[t] # Infinite => conf.capacity[t] > 0
           /\ ~ Aperiodic(t) => conf.period[t] \in Nat
           /\ conf.affinity[t] \in Procs
           /\ conf.priority[t] \in 0..MaxPriority /\ conf.weight[t] \in Nat
  BY <1>1, Attributes, ThreadsAreNumbers DEF ConfType
<1>3. ASSUME NEW t \in Threads
      PROVE  /\ th[t] \in ThreadType
             /\ th[t].state = IF t = MainThread THEN "STOPPED" ELSE "RUNNABLE"
             /\ th[t].next >= -conf.lag /\ th[t].ddl >= -conf.lag
             /\ th[t].priority = conf.priority[t]
             /\ th[t].remaining = conf.capacity[t]
             /\ th[t].dated = (conf.deadline[t] > 0)
  <2>1. th[t] = Created(t) BY DEF Init
  <2> DEFINE s == IF t = MainThread THEN "STOPPED" ELSE "RUNNABLE"
             n == IF Aperiodic(t) THEN -conf.lag ELSE conf.period[t]
             l == IF conf.policy = "MLFQ" THEN 1 ELSE conf.weight[t]
             v == IF conf.policy = "MLFQ" THEN 7 ELSE 0
             d == conf.deadline[t] > 0
  <2>2. /\ s \in States /\ n \in Int /\ n >= -conf.lag /\ l \in Nat
        /\ v \in 0..255 /\ d \in BOOLEAN
    BY <1>2 DEF States
  <2>3. th[t] = [state |-> s, priority |-> conf.priority[t],
                 remaining |-> conf.capacity[t], next |-> n, wakeup |-> 0,
                 ddl |-> conf.deadline[t], dated |-> d,
                 slice |-> l, level |-> v]
    BY <2>1 DEF Created
  <2> HIDE DEF n, l, v
  <2>4. th[t] \in ThreadType
    <3> HIDE DEF s, d
    <3> QED BY <2>2, <2>3, <1>2 DEF ThreadType
  <2> QED BY <2>2, <2>3, <2>4, <1>2
<1>4. th \in [Threads -> ThreadType]
  <2>1. th = [t \in Threads |-> th[t]] BY DEF Init
  <2> QED BY <2>1, <1>3
<1>5. TypeOK
  <2>1. current \in [Procs -> Threads \union {Idle}]
    BY ThreadsAreNumbers DEF Init
  <2>2. prev \in [Procs -> Threads \union {Idle}] /\ pending \subseteq Procs
    BY <1>2 DEF Init
  <2> QED BY <1>1, <1>4, <2>1, <2>2 DEF TypeOK
<1>6. Table(th) /\ Timed(th)
  BY <1>3, <1>4, ThreadsAreNumbers DEF Table, Timed
<1>7. PrioritiesSet(conf) => Positive(th)
  BY <1>2, <1>3 DEF PrioritiesSet, Positive, MaxPriority
<1>8. Funded(th) BY <1>2, <1>3 DEF Funded, Finite
<1>9. Kept(th) BY <1>3, <1>6, <1>7, <1>8 DEF Kept
<1>10. Placed
  BY ThreadsAreNumbers DEF Placed, Init
<1>11. RunsFunded
  BY ThreadsAreNumbers DEF RunsFunded, Init, Finite
<1> QED BY <1>1, <1>5, <1>9, <1>10, <1>11 DEF IInv, Init

(* The parts of IInv that a step changes.                                  *)
LEMMA InvFromParts ==
  ASSUME IInv, conf' = conf, Kept(th'),
         current' \in [Procs -> Threads \union {Idle}],
         prev' \in [Procs -> Threads \union {Idle}],
         pending' \subseteq conf.procs,
         \A q \in Procs : \A t \in Threads : current'[q] = t =>
           /\ conf.affinity[t] = q
           /\ BudgetsStand(conf) /\ Finite(t) => th'[t].remaining > 0
  PROVE  IInv'
<1>1. TypeOK'
  <2>1. th' \in [Threads -> ThreadType] BY DEF Kept, Table
  <2>2. pending' \subseteq Procs BY Configured
  <2> QED BY <2>1, <2>2 DEF IInv, TypeOK
<1>2. Kept(th)'
  BY DEF Kept, Table, Timed, Positive, Funded, Finite
<1>3. Placed' BY DEF Placed
<1>4. RunsFunded' BY DEF RunsFunded, Finite
<1> QED BY <1>1, <1>2, <1>3, <1>4 DEF IInv

(* An election, whatever becomes of pending.                               *)
LEMMA ElectionKeepsInv ==
  ASSUME IInv, conf' = conf, NEW T, NEW p \in conf.procs, Prepared(T, p),
         Reschedule(T, p), pending' \subseteq conf.procs
  PROVE  IInv'
<1>1. p \in Procs /\ Kept(T) BY Configured DEF Prepared
<1>2. Chosen(T, p) BY <1>1, RescheduleChooses
<1>3. ASSUME NEW q \in Procs, NEW t \in Threads, current'[q] = t
      PROVE  /\ conf.affinity[t] = q
             /\ BudgetsStand(conf) /\ Finite(t) => th'[t].remaining > 0
  <2>1. CASE q = p
    <3>1. t \in Ready(th', p)
      BY <2>1, <1>2, <1>3, ThreadsAreNumbers DEF Chosen
    <3> QED BY <2>1, <3>1, <1>2 DEF Ready, Chosen, Kept, Funded
  <2>2. CASE q # p
    <3>1. current[q] = t /\ conf.affinity[t] = q
      BY <2>2, <1>2, <1>3 DEF Chosen, IInv, Placed
    <3>2. t # current[p] BY <2>2, <3>1, <1>1 DEF IInv, Placed
    <3>3. th'[t].remaining = T[t].remaining
      BY <2>2, <3>1, <3>2, <1>2 DEF Chosen
    <3>4. T[t].remaining = th[t].remaining BY <3>2 DEF Prepared
    <3> QED BY <3>1, <3>3, <3>4 DEF IInv, RunsFunded
  <2> QED BY <2>1, <2>2
<1> QED BY <1>2, <1>3, InvFromParts DEF Chosen

LEMMA NextKeeps ==
  ASSUME IInv, [Next]_vars
  PROVE  IInv'
<1>1. CASE UNCHANGED vars
  BY <1>1 DEF vars, state, IInv, TypeOK, Kept, Table, Timed, Positive, Funded,
              Finite, Placed, RunsFunded
<1>2. CASE Next
  <2>1. conf' = conf /\ Step BY <1>2 DEF Next
  <2>2. pending \subseteq conf.procs BY DEF IInv
  <2>3. ASSUME NEW p, NEW T, Local(T, p) PROVE IInv'
    BY <2>1, <2>2, <2>3, ElectionKeepsInv DEF Local
  <2>4. ASSUME NEW p, NEW T, Global(T, p) PROVE IInv'
    BY <2>1, <2>2, <2>4, ElectionKeepsInv DEF Global
  <2>5. CASE Quiet
    <3>1. /\ current' \in [Procs -> Threads \union {Idle}]
          /\ prev' \in [Procs -> Threads \union {Idle}]
          /\ pending' \subseteq conf.procs /\ Kept(th')
      BY <2>2, <2>5 DEF Quiet, IInv, TypeOK
    <3>2. ASSUME NEW q \in Procs, NEW t \in Threads, current'[q] = t
          PROVE  /\ conf.affinity[t] = q
                 /\ BudgetsStand(conf) /\ Finite(t) => th'[t].remaining > 0
      BY <2>5, <3>2 DEF Quiet, IInv, Placed, RunsFunded
    <3> QED BY <2>1, <3>1, <3>2, InvFromParts
  <2> QED BY <2>1, <2>3, <2>4, <2>5, StepForms
<1> QED BY <1>1, <1>2 DEF vars

(* For all numbers of threads and processors and all configurations.       *)
THEOREM SchedInvariant == Spec => []IInv
<1>1. Init => IInv BY InitKeeps
<1>2. IInv /\ [Next]_vars => IInv' BY NextKeeps
<1> QED BY <1>1, <1>2, PTL DEF Spec

(* The types of the state.                                                 *)
THEOREM TypesKept == Spec => []TypeOK
<1>1. IInv => TypeOK BY DEF IInv
<1> QED BY <1>1, SchedInvariant, PTL
-----------------------------------------------------------------------------
(* Properties of steps.                                                    *)

(* What an interrupt gives.                                                *)
LEMMA InterruptElects ==
  ASSUME IInv, NEW p \in Procs, Interrupted(p)
  PROVE  /\ Kept(th') /\ current'[p] \in Ready(th', p) \union {Idle}
         /\ ChosenLevel(p)
         /\ \E T : /\ ChosenTurn(T, p)
                   /\ \A t \in Threads : /\ T[t].slice = th[t].slice
                                         /\ T[t].priority = th[t].priority
<1>1. CASE Elect(p)
  <2>1. Kept(th) /\ Reschedule(th, p) BY <1>1 DEF Elect, IInv
  <2> QED BY <2>1, RescheduleChooses DEF Chosen
<1>2. CASE Tick /\ p = Timer
  <2>1. Reschedule(Clock, p) BY <1>2 DEF Tick, GlobalReschedule
  <2>2. /\ Kept(Clock)
        /\ \A t \in Threads : /\ Clock[t].slice = th[t].slice
                              /\ Clock[t].priority = th[t].priority
    BY ClockKeeps
  <2>3. Chosen(Clock, p) /\ ChosenTurn(Clock, p) /\ ChosenLevel(p)
    BY <2>1, <2>2, RescheduleChooses
  <2> QED BY <2>2, <2>3 DEF Chosen
<1> QED BY <1>1, <1>2 DEF Interrupted

(* Whoever a processor changes to can run there, and is of the highest     *)
(* level under MLFQ.                                                       *)
THEOREM DispatchesReady == Spec => DispatchedIsReady
<1> DEFINE Dispatch ==
      \A p \in Procs :
        /\ Interrupted(p) \/ current'[p] # current[p] =>
             current'[p] \in Ready(th', p) \union {Idle}
        /\ /\ conf.policy = "MLFQ"
           /\ Interrupted(p) /\ current'[p] \in Threads \ {current[p]}
           => \A t \in Ready(th', p) : th'[t].level <= th'[current'[p]].level
<1>1. ASSUME IInv, Next PROVE Dispatch
  <2> SUFFICES ASSUME NEW p \in Procs
               PROVE  /\ Interrupted(p) \/ current'[p] # current[p] =>
                           current'[p] \in Ready(th', p) \union {Idle}
                      /\ /\ conf.policy = "MLFQ"
                         /\ Interrupted(p) /\ current'[p] \in Threads \ {current[p]}
                         => \A t \in Ready(th', p) :
                              th'[t].level <= th'[current'[p]].level
    OBVIOUS
  <2>1. CASE Interrupted(p) BY <2>1, <1>1, InterruptElects DEF ChosenLevel
  <2>2. ASSUME ~ Interrupted(p), current'[p] # current[p]
        PROVE  current'[p] \in Ready(th', p) \union {Idle}
    <3>1. ~ Quiet BY <2>2 DEF Quiet
    <3>2. PICK q, T : Local(T, q) \/ Global(T, q)
      BY <3>1, <1>1, StepForms DEF Next
    <3>3. q \in Procs /\ Kept(T) /\ Reschedule(T, q)
      BY <3>2, <1>1, Configured DEF Local, Global, Prepared
    <3>4. Chosen(T, q) BY <3>3, <1>1, RescheduleChooses
    <3>5. q = p BY <3>3, <3>4, <2>2 DEF Chosen
    <3> QED BY <3>4, <3>5 DEF Chosen
  <2> QED BY <2>1, <2>2
<1>2. IInv /\ [Next]_vars => [Dispatch]_vars BY <1>1
<1> QED BY <1>2, SchedInvariant, PTL DEF Spec, DispatchedIsReady

(* A thread that can go on is replaced when its slice is used up, or by a  *)
(* higher priority.                                                        *)
THEOREM TurnsFull == Spec => TurnsAreFull
<1> DEFINE Turn ==
      \A p \in Procs : \A t \in Threads :
        /\ conf.policy \in {"WRR", "PWRR", "MLFQ"}
        /\ conf.capacity[t] # Infinite
        /\ Interrupted(p) /\ current[p] = t /\ current'[p] # t
        /\ t \in Ready(th', p)
        => \/ th[t].slice <= 1
           \/ /\ conf.policy = "PWRR"
              /\ th[current'[p]].priority > th[t].priority
<1>1. ASSUME IInv, NEW p \in Procs, NEW t \in Threads,
             conf.policy \in {"WRR", "PWRR", "MLFQ"},
             conf.capacity[t] # Infinite,
             Interrupted(p), current[p] = t, current'[p] # t,
             t \in Ready(th', p)
      PROVE  \/ th[t].slice <= 1
             \/ /\ conf.policy = "PWRR"
                /\ th[current'[p]].priority > th[t].priority
  <2>1. Kept(th') BY <1>1, InterruptElects
  <2>2. PICK T : /\ ChosenTurn(T, p)
                 /\ \A u \in Threads : /\ T[u].slice = th[u].slice
                                       /\ T[u].priority = th[u].priority
    BY <1>1, InterruptElects
  <2>3. t # MainThread BY <2>1, <1>1, MainNotReady DEF Kept
  <2>4. Finite(current[p]) BY <2>3, <1>1 DEF Finite
  <2> QED BY <2>2, <2>4, <1>1 DEF ChosenTurn
<1>2. IInv /\ [Next]_vars => [Turn]_vars BY <1>1
<1> QED BY <1>2, SchedInvariant, PTL DEF Spec, TurnsAreFull
-----------------------------------------------------------------------------
(* Turns end.  A thread that stays while a peer of its priority can run    *)
(* has paid with its slice.                                                *)
Spends(T, p, prv, cur, c) ==
  /\ conf.policy \in {"WRR", "PWRR"} /\ cur \in Threads /\ c.elected = cur
  /\ conf.policy = "PWRR" => prv # Idle
  /\ \E u \in Ready(T, p) \ {cur} : T[u].priority = T[cur].priority
  => c.th[cur].slice < T[cur].slice

LEMMA TurnCosts ==
  ASSUME NEW T, Table(T), NEW cur \in Threads, NEW p, Continues(T, p, cur)
  PROVE  SetSlice(T, cur, SliceLeft(T, cur))[cur].slice < T[cur].slice
<1> DEFINE n == SliceLeft(T, cur)
<1>1. T \in [Threads -> ThreadType] /\ T[cur] \in ThreadType /\ T[cur].slice \in Nat
  BY TableFields DEF Table
<1>2. n > 0 /\ cur # Idle BY ThreadsAreNumbers DEF Continues
<1>3. n < T[cur].slice BY <1>1, <1>2 DEF SliceLeft
<1> HIDE DEF n
<1>4. SetSlice(T, cur, n)[cur] = [T[cur] EXCEPT !.slice = n]
  BY <1>1, <1>2 DEF SetSlice
<1>5. [T[cur] EXCEPT !.slice = n].slice = n BY <1>1 DEF ThreadType
<1> QED BY <1>3, <1>4, <1>5 DEF n

LEMMA WrrSpends ==
  ASSUME conf \in ConfType, conf.policy = "WRR", NEW T, Table(T), NEW p,
         NEW prv \in Threads \union {Idle}, NEW cur \in Threads \union {Idle},
         NEW c \in WrrChoice(T, p, prv, cur)
  PROVE  Spends(T, p, prv, cur, c)
<1> DEFINE others == Ready(T, p) \ {cur}
<1>1. SUFFICES ASSUME cur \in Threads, c.elected = cur, others # {}
               PROVE  c.th[cur].slice < T[cur].slice
  BY DEF Spends
<1>2. cur # Idle BY <1>1, ThreadsAreNumbers
<1>3. CASE Continues(T, p, cur)
  <2>1. c.th = SetSlice(T, cur, SliceLeft(T, cur)) BY <1>3 DEF WrrChoice, Only
  <2> QED BY <2>1, <1>1, <1>3, TurnCosts
<1>4. CASE ~ Continues(T, p, cur)
  <2>1. c.elected = FirstFrom(After(cur), others)
    BY <1>1, <1>2, <1>4 DEF WrrChoice, Only
  <2>2. others \in SUBSET Threads BY ReadyThreads
  <2>3. cur \notin others OBVIOUS
  <2> HIDE DEF others
  <2>4. FirstFrom(After(cur), others) \in others
    BY <1>1, <2>2, FirstFromFinds, AfterIsThread
  <2> QED BY <1>1, <2>1, <2>3, <2>4
<1> QED BY <1>3, <1>4

LEMMA PwrrSpends ==
  ASSUME conf \in ConfType, conf.policy = "PWRR", NEW T, Table(T), NEW p,
         NEW prv \in Threads \union {Idle}, NEW cur \in Threads \union {Idle},
         NEW c \in PwrrChoice(T, p, prv, cur)
  PROVE  Spends(T, p, prv, cur, c)
<1> DEFINE peers == {t \in Ready(T, p) \ {cur} : T[t].priority = PriorityOf(T, cur)}
           best == FirstOrIdle(cur, Greatest(Ready(T, p), Priorities(T)))
           refill == SetSlice(T, cur, conf.weight[cur])
<1>1. SUFFICES ASSUME cur \in Threads, c.elected = cur, prv # Idle,
                      NEW u \in Ready(T, p) \ {cur}, T[u].priority = T[cur].priority
               PROVE  c.th[cur].slice < T[cur].slice
  BY DEF Spends
<1>2. cur # Idle /\ ScanStart(prv, cur) = cur BY <1>1, ThreadsAreNumbers DEF ScanStart
<1>3. PriorityOf(T, cur) = T[cur].priority /\ T[cur].priority \in Nat
  BY <1>1, <1>2, TableFields DEF PriorityOf, Table
<1>4. \/ PriorityOf(T, best) > PriorityOf(T, cur) /\ c.elected = best
      \/ Continues(T, p, cur) /\ c.th = SetSlice(T, cur, SliceLeft(T, cur))
      \/ c.elected = IF peers # {} THEN FirstFrom(After(cur), peers)
                     ELSE IF cur \in Ready(T, p) THEN cur
                     ELSE IF PriorityOf(T, best) > 0 THEN best ELSE Idle
  BY <1>2 DEF PwrrChoice, Only
<1>5. u \in peers /\ cur \notin peers BY <1>1, <1>3
<1>6. peers \in SUBSET Threads BY ReadyThreads
<1> HIDE DEF peers, best
<1>7. ~ (PriorityOf(T, best) > PriorityOf(T, cur) /\ c.elected = best)
  BY <1>1, <1>3
<1>8. FirstFrom(After(cur), peers) \in peers
  BY <1>1, <1>5, <1>6, FirstFromFinds, AfterIsThread
<1>9. Continues(T, p, cur) /\ c.th = SetSlice(T, cur, SliceLeft(T, cur))
  BY <1>1, <1>4, <1>5, <1>7, <1>8
<1> QED BY <1>1, <1>9, TurnCosts

LEMMA ElectionSpends ==
  ASSUME conf \in ConfType, NEW T, Table(T), NEW p,
         NEW prv \in Threads \union {Idle}, NEW cur \in Threads \union {Idle},
         NEW c \in ElectThread(T, p, prv, cur),
         conf.policy \in {"WRR", "PWRR"}, cur \in Threads, c.elected = cur,
         conf.policy = "PWRR" => prv # Idle,
         NEW u \in Ready(c.th, p) \ {cur}, T[u].priority = T[cur].priority
  PROVE  c.th[cur].slice < T[cur].slice
<1> DEFINE A == Activate(T, p)
           C == Charge(A, cur)
<1>1. /\ Table(A)
      /\ \A t \in Threads : A[t].priority = T[t].priority /\ A[t].slice = T[t].slice
  <2> HIDE DEF A
  <2>1. A = Activate(T, p) BY DEF A
  <2> QED BY <2>1, ActivateKeeps
<1>2. c \in Choice(C, p, prv, cur) BY DEF ElectThread
<1> HIDE DEF A
<1>3. /\ Table(C)
      /\ \A t \in Threads : C[t].priority = A[t].priority /\ C[t].slice = A[t].slice
  <2>1. Table(A) BY <1>1
  <2> QED BY <2>1, ChargeKeeps
<1> HIDE DEF C
<1>4. Spends(C, p, prv, cur, c)
  <2>1. CASE conf.policy = "WRR"
    <3>1. c \in WrrChoice(C, p, prv, cur) BY <1>2, <2>1 DEF Choice, PriorityPolicies
    <3> QED BY <3>1, <1>3, <2>1, WrrSpends
  <2>2. CASE conf.policy = "PWRR"
    <3>1. c \in PwrrChoice(C, p, prv, cur) BY <1>2, <2>2 DEF Choice, PriorityPolicies
    <3> QED BY <3>1, <1>3, <2>2, PwrrSpends
  <2> QED BY <2>1, <2>2
<1>5. Ready(c.th, p) = Ready(C, p)
  <2>1. Valid(C, p, c) BY <1>2, <1>3, ChoiceElects
  <2> QED BY <2>1, AlikeReady DEF Valid
<1>6. u \in Ready(C, p) \ {cur} /\ C[u].priority = C[cur].priority
  <2>1. u \in Threads BY ReadyThreads
  <2> QED BY <2>1, <1>1, <1>3, <1>5
<1> QED BY <1>1, <1>3, <1>4, <1>6 DEF Spends

(* The processor of the main thread has switched away from it for good, as *)
(* from the first thread of any.                                           *)
Remembered ==
  LET p == conf.affinity[MainThread]
  IN  current[p] = MainThread \/ prev[p] # Idle

LEMMA RescheduleRemembers ==
  ASSUME IInv, Remembered, conf' = conf, NEW T, Kept(T), NEW p \in Procs,
         Reschedule(T, p)
  PROVE  Remembered'
<1>1. PICK c \in ElectThread(T, p, prev[p], current[p]) :
        /\ prev' = IF c.elected # current[p] /\ current[p] # Idle
                   THEN [prev EXCEPT ![p] = current[p]] ELSE prev
        /\ current' = [current EXCEPT ![p] = c.elected]
  BY DEF Reschedule
<1> DEFINE m == conf.affinity[MainThread]
<1>2. /\ m \in Procs /\ current \in [Procs -> Threads \union {Idle}]
      /\ prev \in [Procs -> Threads \union {Idle}]
  BY Configured, ThreadsAreNumbers DEF IInv, TypeOK
<1>3. current'[p] = c.elected /\ current'[p] # MainThread
  <2>1. Kept(th') /\ current'[p] \in Ready(th', p) \union {Idle}
    BY RescheduleChooses DEF Chosen
  <2>2. MainThread \notin Ready(th', p) BY <2>1, MainNotReady DEF Kept
  <2>3. current'[p] # MainThread BY <2>1, <2>2, ThreadsAreNumbers
  <2>4. current'[p] = c.elected BY <1>1, <1>2
  <2> QED BY <2>3, <2>4
<1> DEFINE e == c.elected
<1>30. /\ e # MainThread
       /\ prev' = IF e # current[p] /\ current[p] # Idle
                  THEN [prev EXCEPT ![p] = current[p]] ELSE prev
       /\ current' = [current EXCEPT ![p] = e]
  BY <1>1, <1>3
<1> HIDE DEF e
<1> HIDE DEF m
<1>4. current'[m] = MainThread \/ prev'[m] # Idle
  <2>0. current[m] = MainThread \/ prev[m] # Idle BY DEF Remembered, m
  <2>1. CASE m # p
    <3>1. current'[m] = current[m] BY <1>2, <1>30, <2>1
    <3>2. prev'[m] = prev[m] BY <1>2, <1>30, <2>1
    <3> QED BY <3>1, <3>2, <2>0
  <2>2. CASE m = p
    <3>1. CASE e # current[p] /\ current[p] # Idle
      <4>1. prev'[p] = current[p] BY <1>2, <1>30, <3>1
      <4> QED BY <4>1, <3>1, <2>2
    <3>2. CASE ~(e # current[p] /\ current[p] # Idle)
      <4>1. prev' = prev BY <1>30, <3>2
      <4>2. current[p] # MainThread BY <1>30, <3>2, ThreadsAreNumbers
      <4> QED BY <4>1, <4>2, <2>0, <2>2
    <3> QED BY <3>1, <3>2
  <2> QED BY <2>1, <2>2
<1> QED BY <1>4 DEF Remembered, m

LEMMA RememberedStays ==
  ASSUME IInv, Remembered, [Next]_vars PROVE Remembered'
<1>1. CASE UNCHANGED vars BY <1>1 DEF vars, state, Remembered
<1>2. CASE Next
  <2>1. conf' = conf /\ Step BY <1>2 DEF Next
  <2>2. ASSUME NEW p, NEW T, Local(T, p) \/ Global(T, p) PROVE Remembered'
    <3>1. p \in Procs /\ Kept(T) /\ Reschedule(T, p)
      BY <2>2, Configured DEF Local, Global, Prepared
    <3> QED BY <2>1, <3>1, RescheduleRemembers
  <2>3. CASE Quiet BY <2>1, <2>3 DEF Quiet, Remembered
  <2> QED BY <2>1, <2>2, <2>3, StepForms
<1> QED BY <1>1, <1>2 DEF vars

LEMMA RescheduleSpends ==
  ASSUME IInv, NEW T, Kept(T), NEW p \in Procs, Reschedule(T, p),
         conf.policy \in {"WRR", "PWRR"}, conf.policy = "PWRR" => prev[p] # Idle,
         NEW t \in Threads, current[p] = t, current'[p] = t,
         NEW u \in Ready(th', p) \ {t}, T[u].priority = T[t].priority
  PROVE  th'[t].slice < T[t].slice
<1>1. PICK c \in ElectThread(T, p, prev[p], current[p]) :
        th' = c.th /\ current' = [current EXCEPT ![p] = c.elected]
  BY DEF Reschedule
<1>2. /\ conf \in ConfType /\ Table(T)
      /\ current \in [Procs -> Threads \union {Idle}]
      /\ prev[p] \in Threads \union {Idle}
  BY Configured DEF IInv, TypeOK, Kept
<1>3. c.elected = t BY <1>1, <1>2
<1> QED BY <1>1, <1>2, <1>3, ElectionSpends

(* A thread is kept on the processor while another of its priority is      *)
(* ready only at the expense of its slice (sched.c: pok_sched_part_wrr,    *)
(* pok_sched_part_prio_wrr), if scans start behind the current thread.     *)
THEOREM TurnsRunOut ==
  ASSUME \A c \in Configs : ScansMoveOn(c)
  PROVE  Spec => TurnsEnd
<1> DEFINE Turn ==
      \A p \in Procs : \A t \in Threads :
        /\ conf.policy \in {"WRR", "PWRR"}
        /\ Interrupted(p) /\ current[p] = t /\ current'[p] = t
        /\ \E u \in Ready(th', p) \ {t} : th[u].priority = th[t].priority
        => th'[t].slice < th[t].slice
<1>1. ASSUME IInv, Remembered, NEW p \in Procs, NEW t \in Threads,
             conf.policy \in {"WRR", "PWRR"},
             Interrupted(p), current[p] = t, current'[p] = t,
             NEW u \in Ready(th', p) \ {t}, th[u].priority = th[t].priority
      PROVE  th'[t].slice < th[t].slice
  <2>1. /\ Kept(th') /\ current'[p] \in Ready(th', p) \union {Idle}
    BY <1>1, InterruptElects
  <2>2. t \in Ready(th', p) /\ u \in Ready(th', p)
    BY <2>1, <1>1, ThreadsAreNumbers
  <2>3. /\ t \in Threads \ {MainThread} /\ u \in Threads \ {MainThread}
        /\ conf.affinity[t] = p /\ conf.affinity[u] = p
    <3>1. MainThread \notin Ready(th', p) BY <2>1, MainNotReady DEF Kept
    <3> QED BY <2>2, <3>1 DEF Ready
  <2>4. conf.policy = "PWRR" => prev[p] # Idle
    <3>1. ScansMoveOn(conf) BY <1>1 DEF IInv
    <3>2. conf.policy = "PWRR" => conf.affinity[MainThread] = p
      BY <1>1, <2>3, <3>1 DEF ScansMoveOn
    <3> QED BY <1>1, <2>3, <3>2 DEF Remembered
  <2>5. PICK T : /\ Kept(T) /\ Reschedule(T, p)
                 /\ \A v \in Threads : /\ T[v].slice = th[v].slice
                                       /\ T[v].priority = th[v].priority
    <3>1. CASE Elect(p)
      <4>1. Kept(th) /\ Reschedule(th, p) BY <1>1, <3>1 DEF Elect, IInv
      <4> QED BY <4>1
    <3>2. CASE Tick /\ p = Timer
      <4>1. Reschedule(Clock, p) BY <3>2 DEF Tick, GlobalReschedule
      <4>2. /\ Kept(Clock)
            /\ \A v \in Threads : /\ Clock[v].slice = th[v].slice
                                  /\ Clock[v].priority = th[v].priority
        BY <1>1, ClockKeeps
      <4> QED BY <4>1, <4>2
    <3> QED BY <1>1, <3>1, <3>2 DEF Interrupted
  <2>6. T[u].priority = T[t].priority /\ T[t].slice = th[t].slice
    BY <1>1, <2>3, <2>5
  <2>7. th'[t].slice < T[t].slice
    BY <1>1, <2>4, <2>5, <2>6, RescheduleSpends
  <2> QED BY <2>6, <2>7
<1>2. IInv /\ Remembered /\ [Next]_vars => [Turn]_vars BY <1>1
<1>3. Init => Remembered
  <2>1. ASSUME Init PROVE Remembered
    <3>1. IInv BY <2>1, InitKeeps
    <3>2. conf.affinity[MainThread] \in Procs BY <3>1, Configured, ThreadsAreNumbers
    <3> QED BY <2>1, <3>2 DEF Init, Remembered
  <2> QED BY <2>1
<1>4. IInv /\ Remembered /\ [Next]_vars => Remembered' BY RememberedStays
<1> QED BY <1>2, <1>3, <1>4, SchedInvariant, PTL DEF Spec, TurnsEnd
-----------------------------------------------------------------------------
(* Processors that have elected.                                           *)

(* Nobody runs without budget.                                             *)
THEOREM BudgetsLast ==
  ASSUME \A c \in Configs : BudgetsStand(c)
  PROVE  Spec => []BudgetLeft
<1>1. IInv => BudgetLeft
  <2>1. SUFFICES ASSUME IInv, NEW p \in Settled, NEW t \in Threads,
                        current[p] = t, t \in Ready(th, p),
                        conf.capacity[t] # Infinite
                 PROVE  th[t].remaining > 0
    BY DEF BudgetLeft
  <2>2. t # MainThread BY <2>1, MainNotReady DEF IInv, Kept
  <2>3. Finite(t) BY <2>1, <2>2 DEF Finite
  <2>4. BudgetsStand(conf) /\ p \in Procs BY <2>1 DEF IInv, Settled
  <2> QED BY <2>1, <2>3, <2>4 DEF IInv, RunsFunded
<1> QED BY <1>1, SchedInvariant, PTL

(* After a step, a processor that has elected has just done so, or had     *)
(* before and its threads have not gained anything since, or has none.     *)
LEMMA SettledStays ==
  ASSUME IInv, Step, NEW q \in Procs \ pending'
  PROVE  \/ ChosenBusy(q) /\ ChosenBest(q)
         \/ /\ q \in Settled /\ current'[q] = current[q]
            /\ \A t \in Threads : conf.affinity[t] = q =>
                 /\ th'[t].state = "RUNNABLE" => th[t].state = "RUNNABLE"
                 /\ th'[t].ddl = th[t].ddl
                 /\ \/ th'[t].priority = th[t].priority
                    \/ ~ PrioritiesStand(conf)
                    \/ conf.policy \notin PriorityPolicies \union {"PWRR"}
         \/ \A t \in Threads : conf.affinity[t] # q
<1>1. ASSUME NEW p, NEW T, Local(T, p) \/ Global(T, p)
      PROVE  /\ p \in Procs /\ Chosen(T, p)
             /\ ChosenBusy(p) /\ ChosenBest(p)
  <2>1. p \in Procs /\ Kept(T) /\ Reschedule(T, p)
    BY <1>1, Configured DEF Local, Global, Prepared
  <2> QED BY <2>1, RescheduleChooses
<1>2. ASSUME NEW p, NEW T, Local(T, p), q # p
      PROVE  /\ q \in Settled /\ current'[q] = current[q]
             /\ \A t \in Threads : conf.affinity[t] = q =>
                  /\ th'[t].state = "RUNNABLE" => th[t].state = "RUNNABLE"
                  /\ th'[t].ddl = th[t].ddl
                  /\ th'[t].priority = th[t].priority
  <2>1. Chosen(T, p) BY <1>1, <1>2
  <2>2. q \in Settled BY <1>2 DEF Local, Settled
  <2>3. ASSUME NEW t \in Threads, conf.affinity[t] = q
        PROVE  /\ th'[t].state = "RUNNABLE" => th[t].state = "RUNNABLE"
               /\ th'[t].ddl = th[t].ddl
               /\ th'[t].priority = th[t].priority
    <3>1. T[t] = th[t] BY <1>2, <2>3 DEF Local
    <3> QED BY <3>1, <2>1, <2>3, <1>2 DEF Chosen
  <2> QED BY <2>1, <2>2, <2>3, <1>2 DEF Chosen
<1>3. ASSUME NEW p, NEW T, Global(T, p), q # p
      PROVE  \A t \in Threads : conf.affinity[t] # q
  BY <1>3, Configured DEF Global
<1>4. CASE Quiet BY <1>4 DEF Quiet, Settled
<1> QED BY <1>1, <1>2, <1>3, <1>4, StepForms

(* A processor idles only if its threads cannot run.                       *)
THEOREM IdleForAReason ==
  ASSUME \A c \in Configs : DeadlinesSet(c) /\ PrioritiesSet(c)
  PROVE  Spec => []WorkConserving
<1>1. Init => WorkConserving
  <2>1. SUFFICES ASSUME Init, NEW p \in Settled PROVE Ready(th, p) = {}
    BY DEF WorkConserving
  <2> QED BY <2>1, InitKeeps, Configured DEF Init, Settled, Ready
<1>2. ASSUME IInv, WorkConserving, [Next]_vars PROVE WorkConserving'
  <2>1. CASE UNCHANGED vars
    BY <2>1, <1>2 DEF vars, state, WorkConserving, Settled, Ready
  <2>2. CASE Next
    <3>1. Step /\ conf' = conf BY <2>2 DEF Next
    <3>2. SUFFICES ASSUME conf.policy # "WRR", NEW q \in Procs \ pending',
                          current'[q] = Idle
                   PROVE  Ready(th', q) = {}
      BY <3>1 DEF WorkConserving, Settled, Ready
    <3>3. CASE ChosenBusy(q)
      BY <3>2, <3>3, <1>2 DEF ChosenBusy, IInv
    <3>4. CASE /\ q \in Settled /\ current'[q] = current[q]
               /\ \A t \in Threads : conf.affinity[t] = q =>
                    (th'[t].state = "RUNNABLE" => th[t].state = "RUNNABLE")
      BY <3>2, <3>4, <1>2 DEF WorkConserving, Ready
    <3>5. CASE \A t \in Threads : conf.affinity[t] # q BY <3>5 DEF Ready
    <3> QED BY <3>1, <3>3, <3>4, <3>5, <1>2, SettledStays
  <2> QED BY <2>1, <2>2, <1>2 DEF vars
<1> QED BY <1>1, <1>2, SchedInvariant, PTL DEF Spec

(* No ready thread outranks the running one.                               *)
THEOREM PolicyHolds ==
  ASSUME \A c \in Configs :
           PeriodsSorted(c) /\ DeadlinesSet(c) /\ PrioritiesStand(c)
  PROVE  Spec => []RightThreadRuns
<1>1. Init => RightThreadRuns
  <2>1. SUFFICES ASSUME Init, NEW p \in Settled PROVE Ready(th, p) = {}
    BY DEF RightThreadRuns
  <2> QED BY <2>1, InitKeeps, Configured DEF Init, Settled, Ready
<1>2. ASSUME IInv, RightThreadRuns, [Next]_vars PROVE RightThreadRuns'
  <2>1. CASE UNCHANGED vars
    BY <2>1, <1>2 DEF vars, state, RightThreadRuns, Settled, Ready, Outranks
  <2>2. CASE Next
    <3>1. Step /\ conf' = conf BY <2>2 DEF Next
    <3>2. \A t, u : Outranks(t, u)' = Above(th', t, u)
      BY <3>1 DEF Outranks, Above
    <3>3. SUFFICES ASSUME NEW q \in Procs \ pending', NEW t \in Ready(th', q),
                          current'[q] \in Ready(th', q)
                   PROVE  ~ Above(th', t, current'[q])
      BY <3>1, <3>2 DEF RightThreadRuns, Settled, Ready
    <3>4. CASE ChosenBest(q)
      BY <3>3, <3>4, <1>2 DEF ChosenBest, IInv
    <3>5. CASE /\ q \in Settled /\ current'[q] = current[q]
               /\ \A v \in Threads : conf.affinity[v] = q =>
                    /\ th'[v].state = "RUNNABLE" => th[v].state = "RUNNABLE"
                    /\ th'[v].ddl = th[v].ddl
                    /\ \/ th'[v].priority = th[v].priority
                       \/ ~ PrioritiesStand(conf)
                       \/ conf.policy \notin PriorityPolicies \union {"PWRR"}
      <4> DEFINE u == current[q]
      <4>1. t \in Ready(th, q) /\ u \in Ready(th, q)
        BY <3>3, <3>5 DEF Ready
      <4>2. ~ Outranks(t, u) BY <4>1, <3>5, <1>2 DEF RightThreadRuns
      <4>3. /\ th'[t].ddl = th[t].ddl /\ th'[u].ddl = th[u].ddl
            /\ conf.policy \in PriorityPolicies \union {"PWRR"} =>
                 /\ th'[t].priority = th[t].priority
                 /\ th'[u].priority = th[u].priority
        BY <4>1, <3>5, <1>2 DEF IInv, Ready
      <4> QED BY <4>2, <4>3, <3>5 DEF Outranks, Above
    <3>6. CASE \A v \in Threads : conf.affinity[v] # q BY <3>3, <3>6 DEF Ready
    <3> QED BY <3>1, <3>4, <3>5, <3>6, <1>2, SettledStays
  <2> QED BY <2>1, <2>2, <1>2 DEF vars
<1> QED BY <1>1, <1>2, SchedInvariant, PTL DEF Spec
=============================================================================
