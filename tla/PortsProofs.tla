---------------------------- MODULE PortsProofs ----------------------------
(***************************************************************************)
(* Safety of ports for any partitions, threads, ports and sizes, whether   *)
(* ports are flushed by window or by frame and whether callers wait.       *)
(***************************************************************************)
EXTENDS Ports, SequenceTheorems, TLAPS

(* In the middle of the flush of a port; of a sampling port.               *)
InFlight(t) == call[t].at \in {"dests", "clear"}
Carries(t, o) == InFlight(t) /\ call[t].source = o

(* Nobody waits for a sampling port, so that its flush wakes nobody and is *)
(* not interrupted.                                                        *)
OnlyQueuesWait == \A o \in Ports \ Queueing : waiting[o] = {}
Uninterrupted == \A t \in AllThreads : \A o \in Out \ Queueing :
                   Carries(t, o) => run = t

(* A sampling port holds the last message, which its flush has in hand and *)
(* has given to the destinations that it is done with.                     *)
SourceHolds == \A o \in Out \ Queueing :
                 ~port[o].empty => port[o].data[0] = sent[o]

Fresh(d, o) == ~port[d].empty => port[d].data[0] = sent[o]

InHand == \A t \in AllThreads : \A o \in Out \ Queueing : Carries(t, o) =>
  /\ call[t].at = "dests" => buffer[1] = sent[o]
  /\ \A d \in ToSet(conf.destinations[o]) \ ToSet(call[t].dests) : Fresh(d, o)
  /\ call[t].at = "clear" => call[t].dests = <<>>

SamplesInv == /\ OnlyQueuesWait /\ Uninterrupted /\ SourceHolds /\ InHand
           /\ SamplesCurrent
-----------------------------------------------------------------------------
(* What the configuration says.                                            *)
LEMMA Limits == MaxSize \in Nat /\ 0 < MaxSize /\ 2 * MaxSize < SizeLimit
BY ConfigsAssumption

LEMMA Configured == ASSUME TypeOK PROVE Consistent(conf)
BY ConfigsAssumption DEF TypeOK

LEMMA Sizes ==
  ASSUME TypeOK, NEW o \in Ports
  PROVE  /\ Size(o) \in Nat /\ 1 <= Size(o) /\ Size(o) <= MaxSize
         /\ o \notin Queueing => Size(o) = 1
BY Configured, Limits DEF Consistent, Ports, Size, Queueing

LEMMA Destinations ==
  ASSUME TypeOK, NEW o \in Out
  PROVE  /\ conf.destinations[o] \in Seq(Ports)
         /\ \A d \in ToSet(conf.destinations[o]) :
              d \in In /\ (d \in Queueing <=> o \in Queueing)
<1>1. o \in Ports /\ conf.direction[o] = "OUT"
  BY Configured DEF Out, In, Consistent, Ports
<1>2. /\ conf.destinations[o] \in Seq(Ports)
      /\ \A d \in ToSet(conf.destinations[o]) :
           conf.direction[d] = "IN" /\ conf.queueing[d] = conf.queueing[o]
  BY <1>1, Configured DEF Consistent, Ports
<1>3. \A d \in ToSet(conf.destinations[o]) : d \in Ports
  BY <1>2 DEF ToSet
<1> QED BY <1>1, <1>2, <1>3 DEF In, Queueing

LEMMA Slots ==
  ASSUME TypeOK
  PROVE  /\ Len(conf.slots) \in Nat /\ Len(conf.slots) > 0
         /\ \A i \in DOMAIN conf.slots : conf.slots[i] \in Partitions
<1>1. conf.slots \in Seq(Nat \ {0}) /\ conf.slots # <<>>
  BY Configured DEF Consistent
<1> QED BY <1>1 DEF Partitions, ToSet

LEMMA KindsOfThreads ==
  /\ Idle \in AllThreads
  /\ \A p \in Partitions : Main(p) \in AllThreads
  /\ Threads \subseteq AllThreads
BY DEF AllThreads
-----------------------------------------------------------------------------
(* The ring of a port.                                                     *)
LEMMA ModInRange ==
  ASSUME NEW a \in Nat, NEW s \in Nat, 1 <= s
  PROVE  a % s \in 0..(s - 1)
BY Z3

LEMMA ModSum ==
  ASSUME NEW a \in Nat, NEW s \in Nat, a < s
  PROVE  a % s = a /\ (s + a) % s = a
BY Z3

(* A port that is not empty holds between one unit and all.                *)
LEMMA ConsumedRange ==
  ASSUME NEW s \in Nat, 1 <= s, NEW r \in PortType(s), ~r.empty
  PROVE  Consumed(r, s) \in 1..s
BY DEF Consumed, PortType

(* The flush takes what it calls the consumed size, and leaves a port that *)
(* is empty and not full.                                                  *)
LEMMA GotAll ==
  ASSUME NEW s \in Nat, 1 <= s, NEW r \in PortType(s), ~r.empty
  PROVE  /\ (r.b + Consumed(r, s)) % s = r.e
         /\ Got(r, Consumed(r, s), s).empty = TRUE
         /\ Got(r, Consumed(r, s), s).full = FALSE
<1> DEFINE n == Consumed(r, s)
<1>0. r.b \in 0..(s - 1) /\ r.e \in 0..(s - 1) BY DEF PortType
<1>1. r.b + n = r.e \/ r.b + n = s + r.e
  BY <1>0 DEF Consumed
<1>2. (r.b + n) % s = r.e
  BY <1>0, <1>1, ModSum
<1>3. /\ Got(r, n, s).empty = (((r.b + n) % s = r.e) \/ r.empty)
      /\ Got(r, n, s).full = (((r.b + n) % s # r.e) /\ r.full)
  BY DEF Got, PortType
<1> QED BY <1>2, <1>3

(* Whoever finds no room finds the flag of a full port: the difference     *)
(* that is taken the wrong way round (portutils.c:40) is beyond all sizes. *)
LEMMA RoomUnlessFull ==
  ASSUME NEW s \in Nat, 1 <= s, 2 * s < SizeLimit, NEW r \in PortType(s),
         NEW n \in Nat, n <= s, ~r.full
  PROVE  n <= Available(r, s)
<1>0. r.b \in 0..(s - 1) /\ r.e \in 0..(s - 1) BY DEF PortType
<1>1. CASE r.b < r.e
  <2>1. (r.b - r.e) % SizeLimit = SizeLimit + r.b - r.e
    BY <1>0, <1>1, Z3 DEF SizeLimit
  <2> QED BY <2>1, <1>0, <1>1 DEF Available, SizeLimit
<1>2. CASE ~(r.b < r.e)
  BY <1>0, <1>2 DEF Available
<1> QED BY <1>1, <1>2

LEMMA GotKeeps ==
  ASSUME TypeOK, NEW o \in Ports \intersect Queueing, NEW r, Flagged(o, r),
         ~r.empty, NEW n \in Nat
  PROVE  /\ Flagged(o, Got(r, n, Size(o)))
         /\ r.empty => Got(r, n, Size(o)).empty
<1> DEFINE s == Size(o)
           b == (r.b + n) % s
           G == Got(r, n, s)
           E == (b = r.e) \/ r.empty
           F == (b # r.e) /\ r.full
<1>0. s \in Nat /\ 1 <= s /\ r \in PortType(s) BY Sizes DEF Flagged
<1>1. r.b \in 0..(s - 1) /\ r.e \in 0..(s - 1) BY <1>0 DEF PortType
<1>2. b \in 0..(s - 1)
  <2>1. r.b + n \in Nat BY <1>1
  <2> QED BY <1>0, <2>1, ModInRange
<1>3. G = [r EXCEPT !.b = b, !.empty = E, !.full = F] BY DEF Got
<1> HIDE DEF s, b, G, E, F
<1>4. /\ G \in PortType(s) /\ G.b = b /\ G.e = r.e /\ G.empty = E
      /\ G.full = F /\ G.ready = r.ready /\ G.flush = r.flush
  <2>1. E \in BOOLEAN /\ F \in BOOLEAN BY DEF E, F
  <2> QED BY <1>0, <1>2, <1>3, <2>1 DEF PortType
<1> USE DEF s, G
<1>5. Flagged(o, G)
  BY <1>1, <1>4 DEF Flagged, E, F
<1> QED BY <1>5, <1>4 DEF E

LEMMA WrittenKeeps ==
  ASSUME TypeOK, NEW o \in Ports \intersect Queueing, NEW r, Flagged(o, r),
         r.ready, NEW n \in Nat, NEW f \in [1..n -> Nat]
  PROVE  /\ Flagged(o, Written(r, f, Size(o)))
         /\ r.full => Written(r, f, Size(o)).full
         /\ Written(r, f, Size(o)).flush = r.flush
<1> DEFINE s == Size(o)
           e == (r.e + Len(f)) % s
           W == Written(r, f, s)
           F == (e = r.b) \/ r.full
           D == [i \in 0..(s - 1) |->
                   LET k == ((i - r.e) % s) + 1
                   IN  IF k <= Len(f) THEN f[k] ELSE r.data[i]]
<1>0. s \in Nat /\ 1 <= s /\ r \in PortType(s) BY Sizes DEF Flagged
<1>f. f \in Seq(Nat) /\ Len(f) = n
  <2>1. f \in Seq(Nat) BY SeqDef
  <2>2. DOMAIN f = 1..n OBVIOUS
  <2> QED BY <2>1, <2>2
<1>1. CASE r.full \/ Len(f) > s
  <2>1. W = r BY <1>1 DEF Written
  <2> QED BY <2>1
<1>2. CASE ~(r.full \/ Len(f) > s)
  <2>1. r.b \in 0..(s - 1) /\ r.e \in 0..(s - 1) /\ r.data \in [0..(s - 1) -> Nat]
    BY <1>0 DEF PortType
  <2>2. e \in 0..(s - 1)
    <3>1. r.e + n \in Nat BY <2>1
    <3> QED BY <1>0, <1>f, <3>1, ModInRange
  <2>3. D \in [0..(s - 1) -> Nat]
    <3> SUFFICES ASSUME NEW i \in 0..(s - 1) PROVE D[i] \in Nat
      OBVIOUS
    <3> DEFINE k == ((i - r.e) % s) + 1
    <3>1. D[i] = IF k <= n THEN f[k] ELSE r.data[i] BY <1>f
    <3>2. k \in Nat /\ 1 <= k
      <4>1. (i - r.e) % s \in 0..(s - 1)
        BY <1>0, <2>1, Z3
      <4> QED BY <4>1
    <3> HIDE DEF k, D
    <3>3. CASE k <= n BY <3>1, <3>2, <3>3
    <3>4. CASE ~(k <= n) BY <3>1, <3>4, <2>1
    <3> QED BY <3>3, <3>4
  <2>4. W = [r EXCEPT !.e = e, !.empty = FALSE, !.full = F, !.data = D]
    BY <1>2 DEF Written
  <2> HIDE DEF s, e, W, F, D
  <2>5. /\ W \in PortType(s) /\ W.b = r.b /\ W.e = e /\ W.empty = FALSE
        /\ W.full = F /\ W.ready = r.ready /\ W.flush = r.flush
    <3>1. F \in BOOLEAN BY DEF F
    <3> QED BY <1>0, <2>2, <2>3, <2>4, <3>1 DEF PortType
  <2> USE DEF s, W
  <2>6. Flagged(o, W)
    BY <2>1, <2>5 DEF Flagged, F
  <2> QED BY <2>6, <2>5 DEF F
<1> QED BY <1>1, <1>2

LEMMA SampledKeeps ==
  ASSUME TypeOK, NEW o \in Ports \ Queueing, NEW r, Flagged(o, r),
         r.ready, NEW m \in Nat
  PROVE  /\ Flagged(o, Sampled(r, m))
         /\ Sampled(r, m).data[0] = m
         /\ Sampled(r, m).empty = FALSE
         /\ Sampled(r, m).full = r.full
<1> DEFINE D == [r.data EXCEPT ![0] = m]
           S == Sampled(r, m)
<1>0. Size(o) = 1 /\ r \in PortType(1) BY Sizes DEF Flagged
<1>1. r.data \in [0..0 -> Nat] BY <1>0 DEF PortType
<1>2. D \in [0..0 -> Nat] /\ D[0] = m BY <1>1
<1>3. S = [r EXCEPT !.empty = FALSE, !.data = D]
  BY <1>0 DEF Sampled, PortType
<1> HIDE DEF D, S
<1>4. /\ S \in PortType(1) /\ S.b = r.b /\ S.e = r.e /\ S.empty = FALSE
      /\ S.full = r.full /\ S.ready = r.ready /\ S.flush = r.flush
      /\ S.data = D
  <2>1. FALSE \in BOOLEAN OBVIOUS
  <2>2. r \in [ready : BOOLEAN, flush : BOOLEAN, b : 0..0, e : 0..0, empty : BOOLEAN,
               full : BOOLEAN, data : [0..0 -> Nat]]
    BY <1>0 DEF PortType
  <2>3. S \in [ready : BOOLEAN, flush : BOOLEAN, b : 0..0, e : 0..0, empty : BOOLEAN,
               full : BOOLEAN, data : [0..0 -> Nat]]
    BY <1>2, <1>3, <2>1, <2>2
  <2>4. S \in PortType(1)
    <3>1. 1 - 1 = 0 OBVIOUS
    <3> QED BY <2>3, <3>1 DEF PortType
  <2>5. /\ S.b = r.b /\ S.e = r.e /\ S.empty = FALSE /\ S.data = D
        /\ S.full = r.full /\ S.ready = r.ready /\ S.flush = r.flush
    BY <1>3, <2>2
  <2> QED BY <2>4, <2>5
<1>5. Flagged(o, S)
  BY <1>0, <1>4 DEF Flagged
<1> USE DEF S
<1> QED BY <1>2, <1>4, <1>5

(* The flags that are set by hand.                                         *)
SameRing(R, r) == R.empty = r.empty /\ R.full = r.full /\ R.data = r.data

LEMMA FlagsKeep ==
  ASSUME TypeOK, NEW o \in Ports, NEW r, Flagged(o, r)
  PROVE  /\ Flagged(o, [r EXCEPT !.ready = TRUE])
         /\ SameRing([r EXCEPT !.ready = TRUE], r)
         /\ [r EXCEPT !.ready = TRUE].flush = r.flush
         /\ Flagged(o, [r EXCEPT !.flush = FALSE])
         /\ SameRing([r EXCEPT !.flush = FALSE], r)
         /\ o \in Out => Flagged(o, [r EXCEPT !.flush = TRUE])
         /\ SameRing([r EXCEPT !.flush = TRUE], r)
         /\ [r EXCEPT !.flush = TRUE].flush = TRUE
<1>1. r \in PortType(Size(o)) BY DEF Flagged
<1>2. /\ Flagged(o, [r EXCEPT !.ready = TRUE])
      /\ SameRing([r EXCEPT !.ready = TRUE], r)
      /\ [r EXCEPT !.ready = TRUE].flush = r.flush
  BY <1>1 DEF Flagged, PortType, SameRing
<1>3. /\ Flagged(o, [r EXCEPT !.flush = FALSE])
      /\ SameRing([r EXCEPT !.flush = FALSE], r)
  BY <1>1 DEF Flagged, PortType, SameRing
<1>4. /\ o \in Out => Flagged(o, [r EXCEPT !.flush = TRUE])
      /\ SameRing([r EXCEPT !.flush = TRUE], r)
      /\ [r EXCEPT !.flush = TRUE].flush = TRUE
  BY <1>1 DEF Flagged, PortType, SameRing
<1> QED BY <1>2, <1>3, <1>4
-----------------------------------------------------------------------------
(* Types.  The configuration never changes, so that its parts do not.      *)
LEMMA SameSystem ==
  ASSUME conf' = conf
  PROVE  /\ Ports' = Ports /\ In' = In /\ Out' = Out /\ Queueing' = Queueing
         /\ Partitions' = Partitions /\ Threads' = Threads
         /\ AllThreads' = AllThreads
<1>1. /\ Ports' = Ports /\ Partitions' = Partitions /\ Threads' = Threads
  BY DEF Ports, Partitions, Threads
<1>2. In' = In /\ Queueing' = Queueing BY <1>1 DEF In, Queueing
<1>3. Out' = Out BY <1>1, <1>2 DEF Out
<1>4. AllThreads' = AllThreads BY <1>1 DEF AllThreads, Main, Idle
<1> QED BY <1>1, <1>2, <1>3, <1>4

LEMMA SameTypes ==
  ASSUME conf' = conf
  PROVE  /\ CallType' = CallType
         /\ \A o \in Ports : \A r : Flagged(o, r) => Flagged(o, r)'
<1>1. StepType' = StepType
  BY SameSystem DEF StepType
<1>2. NextType' = NextType BY SameSystem DEF NextType
<1>3. CallType' = CallType
  BY SameSystem, <1>1, <1>2 DEF CallType, User
<1>4. ASSUME NEW o \in Ports, NEW r, Flagged(o, r)
      PROVE  Flagged(o, r)'
  BY SameSystem, <1>4 DEF Flagged, PortType, Size
<1> QED BY <1>3, <1>4

LEMMA TypeNext ==
  ASSUME TypeOK, conf' = conf,
         mode' \in [Partitions -> {"INIT", "NORMAL"}],
         DOMAIN port' = Ports, \A o \in Ports : Flagged(o, port'[o]),
         waiting' \in [Ports -> SUBSET AllThreads],
         state' \in [AllThreads -> {"RUNNABLE", "WAITING"}],
         call' \in [AllThreads -> CallType],
         buffer' \in [1..MaxSize -> Nat],
         run' \in AllThreads, cur' \in Partitions, slot' \in DOMAIN conf.slots,
         sent' \in [Out -> Nat]
  PROVE  TypeOK'
<1>1. conf' \in Configs /\ slot' \in DOMAIN conf'.slots BY DEF TypeOK
<1>2. \A o \in Ports : Flagged(o, port[o])' BY SameTypes
<1> QED BY <1>1, <1>2, SameSystem, SameTypes DEF TypeOK

LEMMA PortReplaced ==
  ASSUME TypeOK, NEW o \in Ports, NEW R, Flagged(o, R),
         port' = [port EXCEPT ![o] = R]
  PROVE  DOMAIN port' = Ports /\ \A q \in Ports : Flagged(q, port'[q])
BY DEF TypeOK

LEMMA PortsSame ==
  ASSUME TypeOK, port' = port
  PROVE  DOMAIN port' = Ports /\ \A q \in Ports : Flagged(q, port'[q])
BY DEF TypeOK

LEMMA GotoType ==
  ASSUME TypeOK, NEW k \in CallType, Goto(k)
  PROVE  call' \in [AllThreads -> CallType]
BY DEF TypeOK, Goto

LEMMA SimpleCalls ==
  /\ User \in CallType
  /\ \A o \in Ports, n \in Nat : Calling(o, n) \in CallType
  /\ \A todo \in SUBSET Out : Flushing(todo) \in CallType
BY DEF CallType, NextType, Calling, Flushing

LEMMA FlushListType == FlushList \in SUBSET Out
BY DEF FlushList

LEMMA DispatchType ==
  ASSUME NEW S \in [AllThreads -> {"RUNNABLE", "WAITING"}], NEW M,
         NEW p \in Partitions, Dispatch(S, M, p)
  PROVE  /\ state' \in [AllThreads -> {"RUNNABLE", "WAITING"}]
         /\ run' \in AllThreads
<1>1. PICK late : state' = Woken(S, late) BY DEF Dispatch
<1>2. state' \in [AllThreads -> {"RUNNABLE", "WAITING"}]
  BY <1>1 DEF Woken
<1>3. run' \in {Main(p)} \union {Idle} \union Threads BY DEF Dispatch
<1> QED BY <1>2, <1>3, KindsOfThreads

LEMMA BroadcastType ==
  ASSUME TypeOK, NEW o \in Ports, Broadcast(o)
  PROVE  /\ waiting' \in [Ports -> SUBSET AllThreads]
         /\ state' \in [AllThreads -> {"RUNNABLE", "WAITING"}]
         /\ run' \in AllThreads
         /\ waiting'[o] = {}
         /\ \A q \in Ports \ {o} : waiting'[q] = waiting[q]
<1>1. /\ waiting' \in [Ports -> SUBSET AllThreads] /\ waiting'[o] = {}
      /\ \A q \in Ports \ {o} : waiting'[q] = waiting[q]
  BY DEF TypeOK, Broadcast
<1>2. CASE waiting[o] = {}
  BY <1>1, <1>2 DEF Broadcast, TypeOK
<1>3. CASE waiting[o] # {}
  <2>1. Woken(state, waiting[o]) \in [AllThreads -> {"RUNNABLE", "WAITING"}]
    BY DEF TypeOK, Woken
  <2>2. Dispatch(Woken(state, waiting[o]), mode, cur) BY <1>3 DEF Broadcast
  <2>3. cur \in Partitions BY DEF TypeOK
  <2> QED BY <1>1, <2>1, <2>2, <2>3, DispatchType
<1> QED BY <1>2, <1>3

LEMMA GlobalSchedType ==
  ASSUME TypeOK, NEW M, NEW d, NEW f, GlobalSched(M, d, f)
  PROVE  /\ state' \in [AllThreads -> {"RUNNABLE", "WAITING"}]
         /\ run' \in AllThreads
         /\ call' \in [AllThreads -> CallType]
         /\ slot' = slot
         /\ call' = call \/ \E k \in CallType : k.at = "next" /\ Goto(k)
<1>1. CASE Boundary(d, f)
  <2>1. PICK todo \in SUBSET Out : Goto(Flushing(todo))
    BY <1>1, FlushListType DEF Boundary, Goto
  <2>2. /\ Flushing(todo) \in CallType /\ Flushing(todo).at = "next"
    BY SimpleCalls DEF Flushing
  <2>3. call' \in [AllThreads -> CallType] BY <2>1, <2>2, GotoType
  <2> QED BY <1>1, <2>1, <2>2, <2>3 DEF Boundary, TypeOK
<1>2. CASE Dispatch(state, M, cur) /\ UNCHANGED <<slot, call>>
  BY <1>2, DispatchType DEF TypeOK
<1> QED BY <1>1, <1>2 DEF GlobalSched

(* What a call record is, from the step that it is at.                     *)
LEMMA CallAt ==
  ASSUME TypeOK, NEW t \in AllThreads
  PROVE  /\ call[t].at = "next" => call[t] \in NextType
         /\ InFlight(t) => call[t] \in StepType
<1>1. call[t] \in CallType BY DEF TypeOK
<1> QED BY <1>1 DEF CallType, User, NextType, StepType, InFlight

LEMMA StepFields ==
  ASSUME NEW k \in StepType
  PROVE  /\ k.todo \in SUBSET Out /\ k.source \in Out /\ k.len \in 1..MaxSize
         /\ k.dests \in Seq(Ports)
         /\ ToSet(k.dests) \subseteq ToSet(conf.destinations[k.source])
         /\ k.at = "clear" => k.dests = <<>>
BY DEF StepType

(* The first of the destinations that are left, and the others.            *)
LEMMA Popped ==
  ASSUME NEW S, NEW s \in Seq(S), s # <<>>
  PROVE  /\ Head(s) \in ToSet(s)
         /\ Tail(s) \in Seq(S)
         /\ ToSet(Tail(s)) \subseteq ToSet(s)
         /\ ToSet(s) = ToSet(Tail(s)) \union {Head(s)}
<1>1. Len(s) \in Nat /\ 1 <= Len(s) BY EmptySeq, LenProperties
<1>2. /\ Head(s) = s[1] /\ Tail(s) \in Seq(S) /\ Len(Tail(s)) = Len(s) - 1
      /\ \A i \in 1..Len(Tail(s)) : Tail(s)[i] = s[i + 1]
  BY <1>1, HeadTailProperties
<1>3. Head(s) \in ToSet(s) BY <1>1, <1>2 DEF ToSet
<1>4. ASSUME NEW i \in 1..Len(Tail(s)) PROVE Tail(s)[i] \in ToSet(s)
  <2>1. i + 1 \in 1..Len(s) BY <1>1, <1>2
  <2> QED BY <1>2, <2>1 DEF ToSet
<1>5. ASSUME NEW i \in 1..Len(s), i # 1 PROVE s[i] \in ToSet(Tail(s))
  <2>1. i - 1 \in 1..Len(Tail(s)) /\ (i - 1) + 1 = i BY <1>1, <1>2, <1>5
  <2>2. Tail(s)[i - 1] = s[i] BY <1>2, <2>1
  <2>3. DOMAIN Tail(s) = 1..Len(Tail(s)) BY <1>2, LenProperties
  <2>4. i - 1 \in DOMAIN Tail(s) BY <2>1, <2>3
  <2> QED BY <2>2, <2>4 DEF ToSet
<1>6. /\ DOMAIN s = 1..Len(s)
      /\ DOMAIN Tail(s) = 1..Len(Tail(s))
  BY <1>2, LenProperties
<1> QED BY <1>2, <1>3, <1>4, <1>5, <1>6 DEF ToSet

LEMMA TickType == ASSUME TypeOK, Tick PROVE TypeOK'
BY GlobalSchedType, PortsSame, TypeNext DEF Tick, TypeOK, seen

LEMMA FlushPortType == ASSUME TypeOK, FlushPort PROVE TypeOK'
<1>1. PICK o \in call[run].todo :
        LET n    == Consumed(port[o], Size(o))
            rest == call[run].todo \ {o}
        IN  IF ToFlush(o)
            THEN /\ Fetch(o, n)
                 /\ port' = [port EXCEPT ![o] = IF o \in Queueing THEN Got(@, n, Size(o)) ELSE @]
                 /\ Goto([at |-> "dests", todo |-> rest, source |-> o, len |-> n,
                          dests |-> conf.destinations[o]])
            ELSE Goto(Flushing(rest)) /\ UNCHANGED <<port, buffer>>
  BY DEF FlushPort
<1> DEFINE rest == call[run].todo \ {o}
           n == Consumed(port[o], Size(o))
           k == [at |-> "dests", todo |-> rest, source |-> o, len |-> n,
                 dests |-> conf.destinations[o]]
<1>2. /\ call[run].todo \in SUBSET Out /\ o \in Out /\ o \in Ports
      /\ rest \in SUBSET Out /\ Flagged(o, port[o])
  <2>1. call[run].todo \in SUBSET Out
    BY CallAt DEF FlushPort, At, NextType, TypeOK
  <2> QED BY <2>1 DEF Out, TypeOK
<1>3. /\ conf' = conf /\ mode' = mode /\ waiting' = waiting /\ state' = state
      /\ run' = run /\ cur' = cur /\ slot' = slot /\ sent' = sent
  BY DEF FlushPort, clock, seen
<1>4. CASE ToFlush(o)
  <2>1. /\ Fetch(o, n) /\ Goto(k)
        /\ port' = [port EXCEPT ![o] = IF o \in Queueing THEN Got(port[o], n, Size(o))
                                                        ELSE port[o]]
    BY <1>1, <1>4
  <2>2. /\ Size(o) \in Nat /\ 1 <= Size(o) /\ Size(o) <= MaxSize
        /\ port[o] \in PortType(Size(o)) /\ ~port[o].empty
    BY <1>2, <1>4, Sizes DEF Flagged, ToFlush
  <2>3. n \in 1..MaxSize
    BY <2>2, ConsumedRange, Limits
  <2>4. k \in StepType
    BY <1>2, <2>3, Destinations DEF StepType
  <2>5. call' \in [AllThreads -> CallType]
    BY <2>1, <2>4, GotoType DEF CallType
  <2>6. buffer' \in [1..MaxSize -> Nat]
    <3> HIDE DEF n
    <3> SUFFICES ASSUME NEW i \in 1..MaxSize, ~(i > n)
                 PROVE  Units(port[o], n, Size(o))[i] \in Nat
      <4>1. buffer \in [1..MaxSize -> Nat] BY DEF TypeOK
      <4>2. buffer' = [i \in 1..MaxSize |->
                        IF i > n THEN buffer[i] ELSE Units(port[o], n, Size(o))[i]]
        BY <2>1, <4>1 DEF Fetch
      <4> QED BY <4>1, <4>2
    <3>0. i \in Nat /\ i \in 1..n BY <2>3, Limits
    <3>1. port[o].b + i - 1 \in Nat BY <2>2, <3>0 DEF PortType
    <3>2. (port[o].b + i - 1) % Size(o) \in 0..(Size(o) - 1)
      BY <3>1, <2>2, ModInRange
    <3>3. Units(port[o], n, Size(o))[i] = port[o].data[(port[o].b + i - 1) % Size(o)]
      BY <3>0 DEF Units
    <3> QED BY <3>2, <3>3, <2>2 DEF PortType
  <2>7. DOMAIN port' = Ports /\ \A q \in Ports : Flagged(q, port'[q])
    <3>1. CASE o \in Queueing
      <4>1. n \in Nat BY <2>3
      <4> HIDE DEF n
      <4>2. Flagged(o, Got(port[o], n, Size(o)))
        BY <3>1, <1>2, <2>2, <4>1, GotKeeps
      <4>3. port' = [port EXCEPT ![o] = Got(port[o], n, Size(o))]
        BY <3>1, <2>1
      <4> QED BY <1>2, <4>2, <4>3, PortReplaced
    <3>2. CASE o \notin Queueing
      BY <3>2, <1>2, <2>1, PortReplaced
    <3> QED BY <3>1, <3>2
  <2> QED BY <1>3, <2>5, <2>6, <2>7, TypeNext DEF TypeOK
<1>5. CASE ~ToFlush(o)
  <2>1. Goto(Flushing(rest)) /\ port' = port /\ buffer' = buffer
    BY <1>1, <1>5
  <2>2. call' \in [AllThreads -> CallType]
    BY <1>2, <2>1, SimpleCalls, GotoType
  <2> QED BY <1>3, <2>1, <2>2, PortsSame, TypeNext DEF TypeOK
<1> QED BY <1>4, <1>5

(* What the delivery to a destination leaves of its port.                  *)
LEMMA DeliveredKeeps ==
  ASSUME TypeOK, NEW d \in In, port[d].ready, NEW n \in 1..MaxSize
  PROVE  Flagged(d, Delivered(d, n))
<1>1. d \in Ports /\ Flagged(d, port[d]) BY DEF In, TypeOK
<1>2. CASE d \in Queueing
  <2>1. [i \in 1..n |-> buffer[i]] \in [1..n -> Nat]
    BY Limits DEF TypeOK
  <2> QED BY <1>1, <1>2, <2>1, WrittenKeeps, Limits DEF Delivered, Batch
<1>3. CASE d \notin Queueing
  <2>1. buffer[1] \in Nat BY Limits DEF TypeOK
  <2> QED BY <1>1, <1>3, <2>1, SampledKeeps DEF Delivered
<1> QED BY <1>2, <1>3

(* The port that the flush is at, and where it goes from there.            *)
LEMMA InStep ==
  ASSUME TypeOK, InFlight(run)
  PROVE  /\ call[run] \in StepType
         /\ call[run].source \in Out /\ call[run].source \in Ports
         /\ call[run].len \in 1..MaxSize
         /\ call[run].todo \in SUBSET Out
BY CallAt, StepFields DEF TypeOK, Out

LEMMA AtDestination ==
  ASSUME TypeOK, FlushDestination
  PROVE  LET d == Head(call[run].dests)
             k == [call[run] EXCEPT !.dests = Tail(@)]
         IN  /\ InFlight(run) /\ d \in In /\ d \in Ports
             /\ d \in ToSet(conf.destinations[call[run].source])
             /\ d \in Queueing <=> call[run].source \in Queueing
             /\ k \in StepType /\ k.at = "dests" /\ k.source = call[run].source
             /\ k.dests = Tail(call[run].dests)
             /\ ToSet(call[run].dests) = ToSet(k.dests) \union {d}
<1> DEFINE d == Head(call[run].dests)
           T == Tail(call[run].dests)
           k == [call[run] EXCEPT !.dests = T]
<1>0. InFlight(run) /\ call[run].at = "dests" /\ call[run].dests # <<>>
  BY DEF FlushDestination, At, InFlight
<1>1. /\ call[run] \in StepType /\ call[run].source \in Out
      /\ call[run].dests \in Seq(Ports)
      /\ ToSet(call[run].dests) \subseteq ToSet(conf.destinations[call[run].source])
  BY <1>0, InStep, StepFields
<1>2. /\ d \in ToSet(call[run].dests) /\ T \in Seq(Ports)
      /\ ToSet(T) \subseteq ToSet(call[run].dests)
      /\ ToSet(call[run].dests) = ToSet(T) \union {d}
  BY <1>0, <1>1, Popped
<1>3. /\ d \in ToSet(conf.destinations[call[run].source]) /\ d \in In
      /\ d \in Queueing <=> call[run].source \in Queueing
  BY <1>1, <1>2, Destinations
<1>4. d \in Ports BY <1>3 DEF In
<1> HIDE DEF T, d
<1>5. /\ k \in StepType /\ k.at = "dests" /\ k.source = call[run].source
      /\ k.dests = T
  BY <1>0, <1>1, <1>2 DEF StepType
<1> QED BY <1>0, <1>2, <1>3, <1>4, <1>5 DEF T, d

LEMMA FlushDestinationType == ASSUME TypeOK, FlushDestination PROVE TypeOK'
<1> DEFINE d == Head(call[run].dests)
           k == [call[run] EXCEPT !.dests = Tail(@)]
<1>1. /\ InFlight(run) /\ d \in In /\ d \in Ports /\ k \in StepType
      /\ call[run].len \in 1..MaxSize
  BY AtDestination, InStep
<1>2. call' \in [AllThreads -> CallType]
  <2>1. k \in CallType BY <1>1 DEF CallType
  <2>2. Goto(k) BY DEF FlushDestination
  <2> QED BY <2>1, <2>2, GotoType
<1>3. /\ conf' = conf /\ mode' = mode /\ buffer' = buffer /\ cur' = cur
      /\ slot' = slot /\ sent' = sent
  BY DEF FlushDestination, clock, seen
<1>4. CASE port[d].ready
  <2>1. /\ port' = [port EXCEPT ![d] = Delivered(d, call[run].len)]
        /\ Broadcast(d)
    BY <1>4 DEF FlushDestination
  <2>2. DOMAIN port' = Ports /\ \A q \in Ports : Flagged(q, port'[q])
    BY <1>1, <1>4, <2>1, DeliveredKeeps, PortReplaced
  <2> QED BY <1>1, <1>2, <1>3, <2>1, <2>2, BroadcastType, TypeNext DEF TypeOK
<1>5. CASE ~port[d].ready
  <2>1. /\ port' = port /\ waiting' = waiting /\ state' = state /\ run' = run
    BY <1>5 DEF FlushDestination
  <2> QED BY <1>2, <1>3, <2>1, PortsSame, TypeNext DEF TypeOK
<1> QED BY <1>4, <1>5

LEMMA FlushSourceType == ASSUME TypeOK, FlushSource PROVE TypeOK'
<1> DEFINE k == [call[run] EXCEPT !.at = "clear"]
<1>1. InFlight(run) /\ call[run].dests = <<>>
  BY DEF FlushSource, At, InFlight
<1>2. k \in StepType
  BY <1>1, InStep DEF StepType
<1>3. call' \in [AllThreads -> CallType]
  <2>1. k \in CallType BY <1>2 DEF CallType
  <2>2. Goto(k) BY DEF FlushSource
  <2> QED BY <2>1, <2>2, GotoType
<1>4. Broadcast(call[run].source) BY DEF FlushSource
<1>5. /\ conf' = conf /\ mode' = mode /\ port' = port /\ buffer' = buffer
      /\ cur' = cur /\ slot' = slot /\ sent' = sent
  BY DEF FlushSource, clock, seen
<1> QED BY <1>1, <1>3, <1>4, <1>5, InStep, BroadcastType, PortsSame, TypeNext
        DEF TypeOK

LEMMA FlushClearType == ASSUME TypeOK, FlushClear PROVE TypeOK'
<1> DEFINE o == call[run].source
<1>1. InFlight(run) BY DEF FlushClear, At, InFlight
<1>2. o \in Ports /\ Flagged(o, port[o]) /\ call[run].todo \in SUBSET Out
  BY <1>1, InStep DEF TypeOK
<1>3. port' = [port EXCEPT ![o] = [port[o] EXCEPT !.flush = FALSE]]
  BY DEF FlushClear
<1>4. DOMAIN port' = Ports /\ \A q \in Ports : Flagged(q, port'[q])
  <2>1. Flagged(o, [port[o] EXCEPT !.flush = FALSE])
    BY <1>2, FlagsKeep
  <2> QED BY <1>2, <1>3, <2>1, PortReplaced
<1>5. call' \in [AllThreads -> CallType]
  BY <1>2, SimpleCalls, GotoType DEF FlushClear
<1> QED BY <1>4, <1>5, TypeNext DEF FlushClear, TypeOK, clock, seen

LEMMA EndFlushType == ASSUME TypeOK, EndFlush PROVE TypeOK'
<1>1. call' \in [AllThreads -> CallType]
  BY SimpleCalls, GotoType DEF EndFlush
<1>2. slot' \in DOMAIN conf.slots /\ cur' \in Partitions
  <2>1. Len(conf.slots) \in Nat /\ 1 <= Len(conf.slots)
        /\ DOMAIN conf.slots = 1..Len(conf.slots) /\ slot \in Nat
    BY Slots, Configured DEF TypeOK, Consistent
  <2>2. slot % Len(conf.slots) \in 0..(Len(conf.slots) - 1) BY <2>1, ModInRange
  <2>3. slot' = (slot % Len(conf.slots)) + 1 BY DEF EndFlush, NextSlot
  <2>4. slot' \in DOMAIN conf.slots BY <2>1, <2>2, <2>3
  <2> QED BY <2>4, Slots DEF EndFlush
<1>3. Dispatch(state, mode, cur') BY DEF EndFlush
<1>4. /\ state' \in [AllThreads -> {"RUNNABLE", "WAITING"}]
      /\ run' \in AllThreads
  BY <1>2, <1>3, DispatchType DEF TypeOK
<1> QED BY <1>1, <1>2, <1>4, PortsSame, TypeNext DEF EndFlush, TypeOK, seen

LEMMA CreateType ==
  ASSUME TypeOK, NEW o \in Ports, Create(o)
  PROVE  TypeOK'
<1>1. port' = [port EXCEPT ![o] = [port[o] EXCEPT !.ready = TRUE]]
  BY DEF Create
<1>2. Flagged(o, [port[o] EXCEPT !.ready = TRUE])
  BY FlagsKeep DEF TypeOK
<1>3. DOMAIN port' = Ports /\ \A q \in Ports : Flagged(q, port'[q])
  BY <1>1, <1>2, PortReplaced
<1> QED BY <1>3, TypeNext DEF Create, TypeOK, threads, clock, seen

LEMMA SetNormalType == ASSUME TypeOK, SetNormal PROVE TypeOK'
<1>1. mode' \in [Partitions -> {"INIT", "NORMAL"}]
  BY DEF SetNormal, TypeOK
<1>2. GlobalSched(mode', left, frame) BY DEF SetNormal
<1> QED BY <1>1, <1>2, GlobalSchedType, PortsSame, TypeNext
        DEF SetNormal, TypeOK, seen

LEMMA WaitType ==
  ASSUME TypeOK, NEW o \in Ports, NEW n \in Nat, Wait(o, n),
         UNCHANGED <<conf, mode, buffer, cur, clock>>
  PROVE  TypeOK'
<1>1. waiting' \in [Ports -> SUBSET AllThreads] BY DEF TypeOK, Wait
<1>2. call' \in [AllThreads -> CallType]
  BY SimpleCalls, GotoType DEF Wait
<1>3. [state EXCEPT ![run] = "WAITING"] \in [AllThreads -> {"RUNNABLE", "WAITING"}]
  BY DEF TypeOK
<1>4. Dispatch([state EXCEPT ![run] = "WAITING"], mode, cur) /\ cur \in Partitions
  BY DEF Wait, TypeOK
<1>5. /\ state' \in [AllThreads -> {"RUNNABLE", "WAITING"}]
      /\ run' \in AllThreads
  BY <1>3, <1>4, DispatchType
<1> QED BY <1>1, <1>2, <1>5, PortsSame, TypeNext DEF Wait, TypeOK, clock, seen

LEMMA TimedOutType ==
  ASSUME TypeOK, NEW o \in Ports, TimedOut(o)
  PROVE  TypeOK'
<1>1. waiting' \in [Ports -> SUBSET AllThreads] BY DEF TypeOK, TimedOut
<1>2. call' \in [AllThreads -> CallType]
  BY SimpleCalls, GotoType DEF TimedOut
<1> QED BY <1>1, <1>2, PortsSame, TypeNext DEF TimedOut, TypeOK, clock, seen

(* The port after a message is accepted.                                   *)
LEMMA PutKeeps ==
  ASSUME TypeOK, NEW o \in Out \intersect Queueing, port[o].ready,
         NEW n \in Nat, Put(o, n)
  PROVE  /\ sent' \in [Out -> Nat]
         /\ Flagged(o, port'[o])
         /\ port[o].full => port'[o].full
         /\ port' = [port EXCEPT ![o] = port'[o]]
<1>0. o \in Ports /\ o \in Queueing /\ o \in Out BY DEF Out
<1>1. sent' \in [Out -> Nat] /\ sent'[o] \in Nat BY DEF Put, TypeOK
<1> DEFINE f == [i \in 1..n |-> sent'[o]]
           W == Written(port[o], f, Size(o))
<1>2. f \in [1..n -> Nat] BY <1>1
<1>3. port' = [port EXCEPT ![o] = [W EXCEPT !.flush = TRUE]] BY DEF Put
<1> HIDE DEF f
<1>4. Flagged(o, W) /\ (port[o].full => W.full)
  BY <1>0, <1>2, WrittenKeeps DEF TypeOK
<1> HIDE DEF W
<1>5. Flagged(o, [W EXCEPT !.flush = TRUE]) /\ [W EXCEPT !.flush = TRUE].full = W.full
  BY <1>0, <1>4, FlagsKeep DEF SameRing
<1>6. port'[o] = [W EXCEPT !.flush = TRUE] BY <1>0, <1>3 DEF TypeOK
<1> QED BY <1>1, <1>3, <1>4, <1>5, <1>6

LEMMA SendType ==
  ASSUME TypeOK, NEW o \in Ports, NEW n \in conf.lengths, Send(o, n)
  PROVE  TypeOK'
<1>0. n \in Nat BY Configured DEF Consistent
<1>1. UNCHANGED <<conf, mode, buffer, cur, clock>> BY DEF Send
<1>2. CASE Fits(o, n)
  <2>1. Put(o, n) /\ o \in Out \intersect Queueing /\ port[o].ready
    BY <1>2 DEF Send, Sources
  <2>2. DOMAIN port' = Ports /\ \A q \in Ports : Flagged(q, port'[q])
    BY <1>0, <2>1, PutKeeps, PortReplaced
  <2>3. call' \in [AllThreads -> CallType]
    BY <2>1, SimpleCalls, GotoType DEF Put
  <2> QED BY <1>0, <1>1, <2>1, <2>2, <2>3, PutKeeps, TypeNext DEF Put, TypeOK, clock
<1>3. CASE ~Fits(o, n)
  <2>1. Wait(o, n) BY <1>3 DEF Send
  <2> QED BY <1>0, <1>1, <2>1, WaitType
<1> QED BY <1>2, <1>3

(* The port after a receiver took from it.                                 *)
LEMMA TakeKeeps ==
  ASSUME TypeOK, NEW d \in In \intersect Queueing, ~port[d].empty,
         NEW n \in Nat, Take(d, n)
  PROVE  Flagged(d, port'[d]) /\ port' = [port EXCEPT ![d] = port'[d]]
<1>0. d \in Ports /\ d \in Queueing /\ Flagged(d, port[d]) BY DEF In, TypeOK
<1> DEFINE c == Consumed(port[d], Size(d))
           m == IF n < c THEN n ELSE c
<1>1. c \in 1..Size(d) /\ Size(d) \in Nat
  BY <1>0, Sizes, ConsumedRange DEF Flagged
<1>2. m \in Nat BY <1>1
<1>3. port' = [port EXCEPT ![d] = Got(port[d], m, Size(d))]
  BY DEF Take
<1> HIDE DEF m
<1>4. Flagged(d, Got(port[d], m, Size(d))) BY <1>0, <1>2, GotKeeps
<1>5. port'[d] = Got(port[d], m, Size(d)) BY <1>0, <1>3 DEF TypeOK
<1> QED BY <1>3, <1>4, <1>5

LEMMA ReceiveType ==
  ASSUME TypeOK, NEW d \in Ports, NEW n \in conf.most, Receive(d, n)
  PROVE  TypeOK'
<1>0. n \in Nat BY Configured DEF Consistent
<1>1. UNCHANGED <<conf, mode, buffer, cur, clock>> BY DEF Receive
<1>2. CASE ~port[d].empty
  <2>1. Take(d, n) /\ d \in In \intersect Queueing
    BY <1>2 DEF Receive, Sinks
  <2>2. DOMAIN port' = Ports /\ \A q \in Ports : Flagged(q, port'[q])
    BY <1>0, <1>2, <2>1, TakeKeeps, PortReplaced
  <2>3. call' \in [AllThreads -> CallType]
    BY <2>1, SimpleCalls, GotoType DEF Take
  <2> QED BY <1>1, <2>1, <2>2, <2>3, TypeNext DEF Take, TypeOK, clock
<1>3. CASE port[d].empty
  <2>1. Wait(d, n) BY <1>3 DEF Receive
  <2> QED BY <1>0, <1>1, <2>1, WaitType
<1> QED BY <1>2, <1>3

(* The port after a sample is written.                                     *)
LEMMA WriteKeeps ==
  ASSUME TypeOK, NEW o \in Ports, Write(o)
  PROVE  /\ sent' \in [Out -> Nat] /\ sent' = [sent EXCEPT ![o] = sent'[o]]
         /\ Flagged(o, port'[o])
         /\ port'[o].full = port[o].full
         /\ port'[o].data[0] = sent'[o] /\ port'[o].flush = TRUE
         /\ port' = [port EXCEPT ![o] = port'[o]]
<1>0. o \in Ports \ Queueing /\ o \in Out /\ port[o].ready BY DEF Write
<1>1. /\ sent' \in [Out -> Nat] /\ sent'[o] \in Nat
      /\ sent' = [sent EXCEPT ![o] = sent'[o]]
  BY <1>0 DEF Write, TypeOK
<1> DEFINE S == Sampled(port[o], sent'[o])
           R == [S EXCEPT !.flush = TRUE]
<1>2. port' = [port EXCEPT ![o] = R] BY DEF Write
<1>3. /\ Flagged(o, S) /\ S.full = port[o].full /\ S.data[0] = sent'[o]
  <2>1. Flagged(o, port[o]) BY DEF TypeOK
  <2>2. sent'[o] \in Nat BY <1>1
  <2> QED BY <1>0, <2>1, <2>2, SampledKeeps
<1> HIDE DEF S
<1>4. Flagged(o, R) /\ R.full = S.full /\ R.data = S.data /\ R.flush = TRUE
  BY <1>0, <1>3, FlagsKeep DEF SameRing
<1>5. port'[o] = R BY <1>2 DEF TypeOK
<1> QED BY <1>1, <1>2, <1>3, <1>4, <1>5

LEMMA WriteType ==
  ASSUME TypeOK, NEW o \in Ports, Write(o)
  PROVE  TypeOK'
<1>1. DOMAIN port' = Ports /\ \A q \in Ports : Flagged(q, port'[q])
  BY WriteKeeps, PortReplaced
<1> QED BY <1>1, WriteKeeps, TypeNext DEF Write, TypeOK, threads, clock

LEMMA ReadType ==
  ASSUME TypeOK, NEW d \in Ports, Read(d)
  PROVE  TypeOK'
BY PortsSame, TypeNext DEF Read, TypeOK, threads, clock

LEMMA InitType == ASSUME Init PROVE TypeOK
<1>0. /\ conf \in Configs /\ conf.slots \in Seq(Nat \ {0}) /\ conf.slots # <<>>
      /\ \A o \in Ports : Size(o) \in Nat /\ 1 <= Size(o)
  BY ConfigsAssumption DEF Init, Consistent, Ports, Size
<1>1. 1 \in DOMAIN conf.slots /\ conf.slots[1] \in Partitions
  BY <1>0 DEF Partitions, ToSet
<1>2. DOMAIN port = Ports BY DEF Init
<1>3. ASSUME NEW o \in Ports PROVE Flagged(o, port[o])
  <2>1. port[o] = NewPort(Size(o)) BY DEF Init
  <2>2. [i \in 0..(Size(o) - 1) |-> 0] \in [0..(Size(o) - 1) -> Nat] OBVIOUS
  <2>3. 0 \in 0..(Size(o) - 1) BY <1>0
  <2> DEFINE D == [i \in 0..(Size(o) - 1) |-> 0]
  <2>4. port[o] = [ready |-> FALSE, flush |-> FALSE, b |-> 0, e |-> 0,
                   empty |-> TRUE, full |-> FALSE, data |-> D]
    BY <2>1 DEF NewPort
  <2> HIDE DEF D
  <2>5. port[o] \in PortType(Size(o)) BY <2>2, <2>3, <2>4 DEF PortType, D
  <2> QED BY <2>4, <2>5 DEF Flagged
<1>4. mode \in [Partitions -> {"INIT", "NORMAL"}] BY DEF Init
<1>5. waiting \in [Ports -> SUBSET AllThreads] BY DEF Init
<1>6. state \in [AllThreads -> {"RUNNABLE", "WAITING"}] BY DEF Init
<1>7. call \in [AllThreads -> CallType] BY SimpleCalls DEF Init
<1>8. buffer \in [1..MaxSize -> Nat] /\ sent \in [Out -> Nat] BY DEF Init
<1>9. run \in AllThreads /\ cur \in Partitions /\ slot \in DOMAIN conf.slots
  BY <1>1, KindsOfThreads DEF Init
<1> QED BY <1>0, <1>2, <1>3, <1>4, <1>5, <1>6, <1>7, <1>8, <1>9 DEF TypeOK

LEMMA TypeStep == ASSUME TypeOK, [Next]_vars PROVE TypeOK'
<1>1. CASE Next
  BY <1>1, TickType, FlushPortType, FlushDestinationType, FlushSourceType,
     FlushClearType, EndFlushType, CreateType, SetNormalType, TimedOutType,
     SendType, ReceiveType, WriteType, ReadType DEF Next, Kernel
<1>2. CASE UNCHANGED vars
  <2>1. /\ conf' = conf /\ mode' = mode /\ port' = port /\ waiting' = waiting
        /\ state' = state /\ call' = call /\ buffer' = buffer /\ run' = run
        /\ cur' = cur /\ slot' = slot /\ sent' = sent
    BY <1>2 DEF vars, threads, clock, seen
  <2> QED BY <2>1, PortsSame, TypeNext DEF TypeOK
<1> QED BY <1>1, <1>2

(* The offsets and flags of ports stay consistent, records of the kernel   *)
(* name ports of the system, and the processor goes to a thread of the     *)
(* system in one of its slots, whatever callers, receivers and flushes do. *)
THEOREM PortsTyped == Spec => []TypeOK
BY InitType, TypeStep, PTL DEF Spec
-----------------------------------------------------------------------------
(* Whoever waits has a reason to.                                          *)
Reason(o) ==
  waiting[o] # {} =>
    \/ o \in In /\ port[o].empty
    \/ o \in Out /\ (port[o].full \/ Offering(o) # {})

LEMMA Reasons == WaitsForReason <=> \A o \in Ports : Reason(o)
BY DEF WaitsForReason, Reason

LEMMA ReasonsNext ==
  ASSUME conf' = conf, \A o \in Ports : Reason(o)'
  PROVE  WaitsForReason'
BY SameSystem DEF WaitsForReason, Reason

(* A reason stays while nobody begins to wait, the port is neither filled  *)
(* (IN) nor emptied (OUT), and whoever offers what it held goes on.        *)
Offers(t, o) == call[t].at = "dests" /\ call[t].source = o

LEMMA ReasonStays ==
  ASSUME conf' = conf, NEW o \in Ports, Reason(o),
         waiting'[o] \subseteq waiting[o],
         o \in In /\ port[o].empty => port'[o].empty,
         o \in Out /\ port[o].full => port'[o].full,
         \A t \in AllThreads : Offers(t, o) => Offers(t, o)'
  PROVE  Reason(o)'
<1>1. Offering(o) # {} => Offering(o)' # {}
  <2> SUFFICES ASSUME NEW t \in AllThreads, Offers(t, o)
               PROVE  t \in Offering(o)'
    BY DEF Offering, Offers
  <2> QED BY SameSystem DEF Offering, Offers
<1> QED BY <1>1, SameSystem DEF Reason

(* Who is somewhere else in its call offers nothing.                       *)
LEMMA OffersOthers ==
  ASSUME TypeOK, NEW k, call' = call \/ Goto(k), ~At("dests")
  PROVE  \A t \in AllThreads : \A o : Offers(t, o) => Offers(t, o)'
BY DEF TypeOK, Goto, At, Offers

LEMMA TickReasons ==
  ASSUME TypeOK, WaitsForReason, Tick PROVE WaitsForReason'
<1>1. conf' = conf /\ port' = port /\ waiting' = waiting /\ ~At("dests")
  BY DEF Tick, AtUser, At
<1>2. call' = call \/ \E k : Goto(k) BY GlobalSchedType DEF Tick
<1> QED BY <1>1, <1>2, OffersOthers, ReasonStays, Reasons, ReasonsNext

LEMMA SetNormalReasons ==
  ASSUME TypeOK, WaitsForReason, SetNormal PROVE WaitsForReason'
<1>1. conf' = conf /\ port' = port /\ waiting' = waiting /\ ~At("dests")
  BY DEF SetNormal, AtUser, At
<1>2. GlobalSched(mode', left, frame) BY DEF SetNormal
<1>3. call' = call \/ \E k : Goto(k) BY <1>2, GlobalSchedType
<1> QED BY <1>1, <1>3, OffersOthers, ReasonStays, Reasons, ReasonsNext

(* The port that the flush empties is the one that it then offers.         *)
LEMMA FlushPortReasons ==
  ASSUME TypeOK, WaitsForReason, FlushPort PROVE WaitsForReason'
<1>1. PICK o \in call[run].todo :
        LET n    == Consumed(port[o], Size(o))
            rest == call[run].todo \ {o}
        IN  IF ToFlush(o)
            THEN /\ port' = [port EXCEPT ![o] = IF o \in Queueing THEN Got(@, n, Size(o)) ELSE @]
                 /\ Goto([at |-> "dests", todo |-> rest, source |-> o, len |-> n,
                          dests |-> conf.destinations[o]])
            ELSE Goto(Flushing(rest)) /\ UNCHANGED <<port, buffer>>
  BY DEF FlushPort
<1>2. conf' = conf /\ waiting' = waiting /\ ~At("dests")
  BY DEF FlushPort, At
<1>3. o \in Out /\ o \in Ports /\ o \notin In /\ run \in AllThreads
  BY CallAt DEF FlushPort, At, NextType, TypeOK, Out
<1>4. \E k : Goto(k) BY <1>1
<1>5. \A t \in AllThreads : \A q : Offers(t, q) => Offers(t, q)'
  BY <1>2, <1>4, OffersOthers
<1>6. \A q \in Ports \ {o} : port'[q] = port[q]
  BY <1>1 DEF TypeOK
<1>7. \A q \in Ports \ {o} : Reason(q)'
  BY <1>2, <1>5, <1>6, ReasonStays, Reasons
<1>8. Reason(o)'
  <2>1. CASE ToFlush(o)
    <3>1. PICK t \in AllThreads : t = run BY <1>3
    <3>2. call'[t].at = "dests" /\ call'[t].source = o
      BY <1>1, <2>1, <3>1 DEF Goto, TypeOK
    <3>3. t \in Offering(o)' BY <1>2, <3>2, SameSystem DEF Offering
    <3> QED BY <1>2, <1>3, <3>3, SameSystem DEF Reason
  <2>2. CASE ~ToFlush(o)
    <3>1. port' = port BY <1>1, <2>2
    <3> QED BY <1>2, <1>3, <1>5, <3>1, ReasonStays, Reasons
  <2> QED BY <2>1, <2>2
<1> QED BY <1>2, <1>7, <1>8, ReasonsNext

LEMMA FlushDestinationReasons ==
  ASSUME TypeOK, WaitsForReason, FlushDestination PROVE WaitsForReason'
<1> DEFINE k == [call[run] EXCEPT !.dests = Tail(@)]
<1>0. PICK d \in Ports : d = Head(call[run].dests) BY AtDestination
<1>1. /\ Goto(k) /\ k.at = "dests" /\ k.source = call[run].source
      /\ conf' = conf /\ run \in AllThreads
  BY AtDestination DEF FlushDestination, TypeOK
<1> HIDE DEF k
<1>2. \A t \in AllThreads : \A q : Offers(t, q) => Offers(t, q)'
  BY <1>1 DEF Offers, Goto, TypeOK
<1>3. CASE port[d].ready
  <2>1. /\ port' = [port EXCEPT ![d] = Delivered(d, call[run].len)]
        /\ Broadcast(d)
    BY <1>0, <1>3 DEF FlushDestination
  <2>2. /\ \A q \in Ports \ {d} : port'[q] = port[q]
        /\ \A q \in Ports \ {d} : waiting'[q] = waiting[q]
        /\ waiting'[d] = {}
    BY <1>1, <2>1, BroadcastType DEF TypeOK
  <2>3. \A q \in Ports \ {d} : Reason(q)'
    BY <1>1, <1>2, <2>2, ReasonStays, Reasons
  <2>4. Reason(d)' BY <2>2 DEF Reason
  <2> QED BY <1>1, <2>3, <2>4, ReasonsNext
<1>4. CASE ~port[d].ready
  <2>1. port' = port /\ waiting' = waiting
    BY <1>0, <1>4 DEF FlushDestination
  <2> QED BY <1>1, <1>2, <2>1, ReasonStays, Reasons, ReasonsNext
<1> QED BY <1>3, <1>4

LEMMA FlushSourceReasons ==
  ASSUME TypeOK, WaitsForReason, FlushSource PROVE WaitsForReason'
<1> DEFINE k == [call[run] EXCEPT !.at = "clear"]
<1>0. PICK o \in Ports : o = call[run].source
  BY InStep DEF FlushSource, At, InFlight
<1>1. /\ Goto(k) /\ conf' = conf /\ port' = port /\ Broadcast(o)
      /\ run \in AllThreads
  BY <1>0 DEF FlushSource, TypeOK
<1>2. \A t \in AllThreads : \A q \in Ports \ {o} : Offers(t, q) => Offers(t, q)'
  BY <1>0, <1>1 DEF Offers, Goto, TypeOK
<1> HIDE DEF k
<1>3. /\ waiting'[o] = {}
      /\ \A q \in Ports \ {o} : waiting'[q] = waiting[q]
  BY <1>1, BroadcastType
<1>4. \A q \in Ports \ {o} : Reason(q)'
  BY <1>1, <1>2, <1>3, ReasonStays, Reasons
<1>5. Reason(o)' BY <1>3 DEF Reason
<1> QED BY <1>1, <1>4, <1>5, ReasonsNext

LEMMA FlushClearReasons ==
  ASSUME TypeOK, WaitsForReason, FlushClear PROVE WaitsForReason'
<1> DEFINE o == call[run].source
<1>1. /\ conf' = conf /\ waiting' = waiting /\ Goto(Flushing(call[run].todo))
      /\ port' = [port EXCEPT ![o] = [port[o] EXCEPT !.flush = FALSE]]
      /\ ~At("dests") /\ o \in Ports
  BY InStep DEF FlushClear, At, InFlight
<1>2. SameRing([port[o] EXCEPT !.flush = FALSE], port[o])
  BY <1>1, FlagsKeep DEF TypeOK
<1>3. \A q \in Ports : port'[q].empty = port[q].empty /\ port'[q].full = port[q].full
  BY <1>1, <1>2 DEF SameRing, TypeOK
<1>4. \A t \in AllThreads : \A q : Offers(t, q) => Offers(t, q)'
  BY <1>1, OffersOthers
<1> QED BY <1>1, <1>3, <1>4, ReasonStays, Reasons, ReasonsNext

LEMMA EndFlushReasons ==
  ASSUME TypeOK, WaitsForReason, EndFlush PROVE WaitsForReason'
<1>1. conf' = conf /\ port' = port /\ waiting' = waiting /\ ~At("dests") /\ Goto(User)
  BY DEF EndFlush, At
<1> QED BY <1>1, OffersOthers, ReasonStays, Reasons, ReasonsNext

LEMMA CreateReasons ==
  ASSUME TypeOK, WaitsForReason, NEW o \in Ports, Create(o) PROVE WaitsForReason'
<1>1. /\ conf' = conf /\ waiting' = waiting /\ call' = call
      /\ port' = [port EXCEPT ![o] = [port[o] EXCEPT !.ready = TRUE]]
  BY DEF Create, threads
<1>2. SameRing([port[o] EXCEPT !.ready = TRUE], port[o])
  BY FlagsKeep DEF TypeOK
<1>3. \A q \in Ports : port'[q].empty = port[q].empty /\ port'[q].full = port[q].full
  BY <1>1, <1>2 DEF SameRing, TypeOK
<1>4. \A t \in AllThreads : \A q : Offers(t, q) => Offers(t, q)'
  BY <1>1 DEF Offers
<1> QED BY <1>1, <1>3, <1>4, ReasonStays, Reasons, ReasonsNext

LEMMA TimedOutReasons ==
  ASSUME TypeOK, WaitsForReason, NEW o \in Ports, TimedOut(o) PROVE WaitsForReason'
<1>1. conf' = conf /\ port' = port /\ ~At("dests") /\ Goto(User)
  BY DEF TimedOut, At
<1>2. \A q \in Ports : waiting'[q] \subseteq waiting[q]
  BY DEF TimedOut, TypeOK
<1> QED BY <1>1, <1>2, OffersOthers, ReasonStays, Reasons, ReasonsNext

(* A call of send or receive, at its beginning or when its thread is back. *)
LEMMA Trying ==
  ASSUME TypeOK, NEW o, NEW n, MayTry(o, n)
  PROVE  ~At("dests") /\ ~InFlight(run)
BY DEF MayTry, Uses, AtUser, At, Calling, InFlight

LEMMA WaitReasons ==
  ASSUME TypeOK, WaitsForReason, NEW o \in Ports, NEW n, MayTry(o, n), Wait(o, n),
         conf' = conf,
         (o \in In /\ port[o].empty) \/ (o \in Out /\ port[o].full)
  PROVE  WaitsForReason'
<1>1. port' = port /\ Goto(Calling(o, n)) /\ ~At("dests")
  BY Trying DEF Wait
<1>2. \A q \in Ports \ {o} : waiting'[q] = waiting[q]
  BY DEF Wait, TypeOK
<1>3. \A t \in AllThreads : \A q : Offers(t, q) => Offers(t, q)'
  BY <1>1, OffersOthers
<1>4. \A q \in Ports \ {o} : Reason(q)'
  BY <1>1, <1>2, <1>3, ReasonStays, Reasons
<1>5. Reason(o)'
  BY <1>1, SameSystem DEF Reason
<1> QED BY <1>4, <1>5, ReasonsNext

LEMMA SendReasons ==
  ASSUME TypeOK, WaitsForReason, NEW o \in Ports, NEW n \in conf.lengths, Send(o, n)
  PROVE  WaitsForReason'
<1>0. /\ n \in Nat /\ 1 <= n /\ conf' = conf /\ ~At("dests") /\ MayTry(o, n)
      /\ o \in Out /\ o \in Queueing /\ port[o].ready
  BY Configured, Trying DEF Consistent, Send, Sources
<1>1. CASE Fits(o, n)
  <2>1. Put(o, n) BY <1>1 DEF Send, Sources
  <2>2. /\ \A q \in Ports \ {o} : port'[q] = port[q]
        /\ port[o].full => port'[o].full
        /\ waiting' = waiting /\ Goto(User)
    BY <1>0, <2>1, PutKeeps DEF Put, TypeOK
  <2>3. \A t \in AllThreads : \A q : Offers(t, q) => Offers(t, q)'
    BY <1>0, <2>2, OffersOthers
  <2>4. \A q \in Ports : /\ q \in In /\ port[q].empty => port'[q].empty
                         /\ q \in Out /\ port[q].full => port'[q].full
    BY <1>0, <2>2 DEF Out
  <2> QED BY <1>0, <2>2, <2>3, <2>4, ReasonStays, Reasons, ReasonsNext
<1>2. CASE ~Fits(o, n)
  <2>1. Wait(o, n) BY <1>2 DEF Send
  <2>2. /\ Size(o) \in Nat /\ 1 <= Size(o) /\ 2 * Size(o) < SizeLimit
        /\ port[o] \in PortType(Size(o))
    <3>1. Size(o) \in Nat /\ 1 <= Size(o) /\ Size(o) <= MaxSize BY Sizes
    <3>2. 2 * Size(o) < SizeLimit BY <3>1, Limits DEF SizeLimit
    <3> QED BY <3>1, <3>2 DEF TypeOK, Flagged
  <2>3. n <= Size(o) BY DEF Send
  <2>4. port[o].full
    BY <1>0, <1>2, <2>2, <2>3, RoomUnlessFull DEF Fits
  <2> QED BY <1>0, <2>1, <2>4, WaitReasons
<1> QED BY <1>1, <1>2

LEMMA ReceiveReasons ==
  ASSUME TypeOK, WaitsForReason, NEW d \in Ports, NEW n \in conf.most, Receive(d, n)
  PROVE  WaitsForReason'
<1>0. /\ n \in Nat /\ conf' = conf /\ ~At("dests") /\ MayTry(d, n)
      /\ d \in In /\ d \notin Out /\ d \in Queueing
  BY Configured, Trying DEF Consistent, Receive, Sinks, Out
<1>1. CASE ~port[d].empty
  <2>1. Take(d, n) BY <1>1 DEF Receive, Sinks
  <2>2. /\ \A q \in Ports \ {d} : port'[q] = port[q]
        /\ waiting' = waiting /\ Goto(User)
    BY <1>0, <1>1, <2>1, TakeKeeps DEF Take, TypeOK
  <2>3. \A t \in AllThreads : \A q : Offers(t, q) => Offers(t, q)'
    BY <1>0, <2>2, OffersOthers
  <2>4. \A q \in Ports : /\ q \in In /\ port[q].empty => port'[q].empty
                         /\ q \in Out /\ port[q].full => port'[q].full
    BY <1>0, <1>1, <2>2
  <2> QED BY <1>0, <2>2, <2>3, <2>4, ReasonStays, Reasons, ReasonsNext
<1>2. CASE port[d].empty
  <2>1. Wait(d, n) BY <1>2 DEF Receive
  <2>2. (d \in In /\ port[d].empty) \/ (d \in Out /\ port[d].full)
    BY <1>0, <1>2
  <2>3. conf' = conf /\ MayTry(d, n) BY <1>0
  <2> QED BY <2>1, <2>2, <2>3, WaitReasons
<1> QED BY <1>1, <1>2

LEMMA WriteReasons ==
  ASSUME TypeOK, WaitsForReason, NEW o \in Ports, Write(o) PROVE WaitsForReason'
<1>1. /\ conf' = conf /\ waiting' = waiting /\ call' = call /\ o \in Out
  BY DEF Write, threads
<1>2. /\ \A q \in Ports \ {o} : port'[q] = port[q]
      /\ port'[o].full = port[o].full
  BY WriteKeeps DEF TypeOK
<1>3. \A t \in AllThreads : \A q : Offers(t, q) => Offers(t, q)'
  BY <1>1 DEF Offers
<1>4. \A q \in Ports : /\ q \in In /\ port[q].empty => port'[q].empty
                       /\ q \in Out /\ port[q].full => port'[q].full
  BY <1>1, <1>2 DEF Out
<1> QED BY <1>1, <1>3, <1>4, ReasonStays, Reasons, ReasonsNext

LEMMA ReadReasons ==
  ASSUME TypeOK, WaitsForReason, NEW d \in Ports, Read(d) PROVE WaitsForReason'
<1>1. conf' = conf /\ waiting' = waiting /\ call' = call /\ port' = port
  BY DEF Read, threads
<1>2. \A t \in AllThreads : \A q : Offers(t, q) => Offers(t, q)'
  BY <1>1 DEF Offers
<1> QED BY <1>1, <1>2, ReasonStays, Reasons, ReasonsNext

LEMMA ReasonStep ==
  ASSUME TypeOK, WaitsForReason, [Next]_vars PROVE WaitsForReason'
<1>1. CASE Next
  BY <1>1, TickReasons, FlushPortReasons, FlushDestinationReasons,
     FlushSourceReasons, FlushClearReasons, EndFlushReasons, CreateReasons,
     SetNormalReasons, TimedOutReasons, SendReasons, ReceiveReasons,
     WriteReasons, ReadReasons DEF Next, Kernel
<1>2. CASE UNCHANGED vars
  <2>1. conf' = conf /\ waiting' = waiting /\ call' = call /\ port' = port
    BY <1>2 DEF vars, threads
  <2>2. \A t \in AllThreads : \A q : Offers(t, q) => Offers(t, q)'
    BY <2>1 DEF Offers
  <2> QED BY <2>1, <2>2, ReasonStays, Reasons, ReasonsNext
<1> QED BY <1>1, <1>2

(* A receiver sleeps at a port that is empty only, a sender at one that is *)
(* full or whose flush is still to wake it: with any callers, time-outs    *)
(* and configurations.                                                     *)
THEOREM NobodySleepsInVain == Spec => []WaitsForReason
<1>1. Init => WaitsForReason BY DEF Init, WaitsForReason
<1>2. TypeOK /\ WaitsForReason /\ [Next]_vars => WaitsForReason'
  BY ReasonStep
<1> QED BY <1>1, <1>2, PortsTyped, PTL DEF Spec
-----------------------------------------------------------------------------
(* Samples.  While the flush of a sampling port is under way, it has the   *)
(* processor: whoever else runs finds none.                                *)
LEMMA NoneCarried ==
  ASSUME Uninterrupted, ~InFlight(run) \/ call[run].source \in Queueing
  PROVE  \A t \in AllThreads : \A o \in Out \ Queueing : ~Carries(t, o)
BY DEF Uninterrupted, Carries

LEMMA NoneCarriedNext ==
  ASSUME TypeOK, conf' = conf, NEW k, call' = call \/ Goto(k),
         \A t \in AllThreads : \A o \in Out \ Queueing : ~Carries(t, o),
         k.at \in {"dests", "clear"} => k.source \in Queueing
  PROVE  \A t \in AllThreads : \A o \in Out \ Queueing : ~Carries(t, o)'
BY DEF TypeOK, Goto, Carries, InFlight

(* Steps that leave samples alone.                                         *)
SameSamples == \A q \in Ports \ Queueing :
  SameRing(port'[q], port[q]) /\ port'[q].flush = port[q].flush

LEMMA SamplesAlone ==
  ASSUME TypeOK, SamplesInv, conf' = conf, SameSamples,
         \A t \in AllThreads : \A o \in Out \ Queueing : ~Carries(t, o)',
         \A q \in Ports \ Queueing : waiting'[q] = {},
         \A o \in Out \ Queueing : sent'[o] = sent[o]
  PROVE  SamplesInv'
<1>1. OnlyQueuesWait' BY SameSystem DEF OnlyQueuesWait
<1>2. Uninterrupted' BY SameSystem DEF Uninterrupted
<1>3. InHand' BY SameSystem DEF InHand
<1>4. SourceHolds'
  BY SameSystem DEF SourceHolds, SamplesInv, SameSamples, SameRing, Out
<1>5. SamplesCurrent'
  <2> SUFFICES ASSUME NEW o \in Out \ Queueing, NEW d \in ToSet(conf.destinations[o]),
                      ~port'[o].flush, ~port'[d].empty
               PROVE  port'[d].data[0] = sent'[o]
    BY SameSystem DEF SamplesCurrent
  <2>1. d \in Ports \ Queueing /\ o \in Ports \ Queueing
    BY Destinations DEF In, Out
  <2>2. ~port[o].flush /\ ~port[d].empty /\ port'[d].data = port[d].data
    BY <2>1 DEF SameSamples, SameRing
  <2>3. port[d].data[0] = sent[o] BY <2>2 DEF SamplesInv, SamplesCurrent
  <2> QED BY <2>2, <2>3
<1> QED BY <1>1, <1>2, <1>3, <1>4, <1>5 DEF SamplesInv

LEMMA SamplesSame == ASSUME TypeOK, port' = port PROVE SameSamples
BY DEF SameSamples, SameRing

(* ... of a port that is a queue.                                          *)
LEMMA QueueSamples ==
  ASSUME TypeOK, NEW o \in Ports \intersect Queueing, NEW R,
         port' = [port EXCEPT ![o] = R]
  PROVE  SameSamples
BY DEF TypeOK, SameSamples, SameRing

LEMMA NobodyWaits ==
  ASSUME SamplesInv, waiting' = waiting
  PROVE  \A q \in Ports \ Queueing : waiting'[q] = {}
BY DEF SamplesInv, OnlyQueuesWait

LEMMA TickSamples ==
  ASSUME TypeOK, SamplesInv, Tick PROVE SamplesInv'
<1>1. /\ conf' = conf /\ port' = port /\ waiting' = waiting /\ sent' = sent
      /\ ~InFlight(run)
  BY DEF Tick, AtUser, InFlight, seen
<1>2. call' = call \/ \E k : Goto(k) /\ k.at = "next"
  BY GlobalSchedType DEF Tick
<1>3. PICK k : (call' = call \/ Goto(k)) /\ (k.at \in {"dests", "clear"} => k.source \in Queueing)
  <2>1. CASE call' = call BY <2>1, SimpleCalls DEF User
  <2>2. CASE \E k : Goto(k) /\ k.at = "next" BY <2>2
  <2> QED BY <1>2, <2>1, <2>2
<1>4. \A t \in AllThreads : \A o \in Out \ Queueing : ~Carries(t, o)'
  BY <1>1, <1>3, NoneCarried, NoneCarriedNext DEF SamplesInv
<1> QED BY <1>1, <1>4, SamplesSame, NobodyWaits, SamplesAlone

LEMMA SetNormalSamples ==
  ASSUME TypeOK, SamplesInv, SetNormal PROVE SamplesInv'
<1>1. /\ conf' = conf /\ port' = port /\ waiting' = waiting /\ sent' = sent
      /\ ~InFlight(run)
  BY DEF SetNormal, AtUser, InFlight, seen
<1>0. GlobalSched(mode', left, frame) BY DEF SetNormal
<1>2. call' = call \/ \E k : Goto(k) /\ k.at = "next"
  BY <1>0, GlobalSchedType
<1>3. PICK k : (call' = call \/ Goto(k)) /\ (k.at \in {"dests", "clear"} => k.source \in Queueing)
  <2>1. CASE call' = call BY <2>1, SimpleCalls DEF User
  <2>2. CASE \E k : Goto(k) /\ k.at = "next" BY <2>2
  <2> QED BY <1>2, <2>1, <2>2
<1>4. \A t \in AllThreads : \A o \in Out \ Queueing : ~Carries(t, o)'
  BY <1>1, <1>3, NoneCarried, NoneCarriedNext DEF SamplesInv
<1> QED BY <1>1, <1>4, SamplesSame, NobodyWaits, SamplesAlone

LEMMA CreateSamples ==
  ASSUME TypeOK, SamplesInv, NEW o \in Ports, Create(o) PROVE SamplesInv'
<1>1. /\ conf' = conf /\ waiting' = waiting /\ sent' = sent /\ call' = call
      /\ port' = [port EXCEPT ![o] = [port[o] EXCEPT !.ready = TRUE]]
      /\ ~InFlight(run)
  BY DEF Create, AtUser, InFlight, threads, seen
<1>2. /\ SameRing([port[o] EXCEPT !.ready = TRUE], port[o])
      /\ [port[o] EXCEPT !.ready = TRUE].flush = port[o].flush
  BY FlagsKeep DEF TypeOK
<1>3. SameSamples
  <2> SUFFICES ASSUME NEW q \in Ports
               PROVE  SameRing(port'[q], port[q]) /\ port'[q].flush = port[q].flush
    BY DEF SameSamples
  <2>1. CASE q = o BY <1>1, <1>2, <2>1 DEF TypeOK
  <2>2. CASE q # o
    <3>1. port'[q] = port[q] BY <1>1, <2>2 DEF TypeOK
    <3> QED BY <3>1 DEF SameRing
  <2> QED BY <2>1, <2>2
<1>4. \A t \in AllThreads : \A q \in Out \ Queueing : ~Carries(t, q)'
  BY <1>1, NoneCarried DEF SamplesInv, Carries, InFlight
<1> QED BY <1>1, <1>3, <1>4, NobodyWaits, SamplesAlone

LEMMA ReadSamples ==
  ASSUME TypeOK, SamplesInv, NEW d \in Ports, Read(d) PROVE SamplesInv'
<1>1. /\ conf' = conf /\ waiting' = waiting /\ sent' = sent /\ call' = call
      /\ port' = port /\ ~InFlight(run)
  BY DEF Read, Uses, AtUser, InFlight, threads
<1>2. \A t \in AllThreads : \A o \in Out \ Queueing : ~Carries(t, o)'
  BY <1>1, NoneCarried DEF SamplesInv, Carries, InFlight
<1> QED BY <1>1, <1>2, SamplesSame, NobodyWaits, SamplesAlone

(* Steps by which the thread that runs goes to another point of its call.  *)
LEMMA GoneElsewhere ==
  ASSUME TypeOK, SamplesInv, conf' = conf, NEW k, Goto(k),
         ~InFlight(run) \/ call[run].source \in Queueing,
         k.at \in {"dests", "clear"} => k.source \in Queueing
  PROVE  \A t \in AllThreads : \A o \in Out \ Queueing : ~Carries(t, o)'
<1>1. \A t \in AllThreads : \A o \in Out \ Queueing : ~Carries(t, o)
  BY NoneCarried DEF SamplesInv
<1> QED BY <1>1, NoneCarriedNext

LEMMA Nowhere ==
  /\ User.at \notin {"dests", "clear"}
  /\ \A o, n : Calling(o, n).at \notin {"dests", "clear"}
  /\ \A todo : Flushing(todo).at \notin {"dests", "clear"}
BY DEF User, Calling, Flushing

LEMMA TimedOutSamples ==
  ASSUME TypeOK, SamplesInv, NEW o \in Ports, TimedOut(o) PROVE SamplesInv'
<1>1. /\ conf' = conf /\ sent' = sent /\ port' = port /\ Goto(User)
      /\ ~InFlight(run)
  BY DEF TimedOut, At, InFlight, seen
<1>2. \A q \in Ports \ Queueing : waiting'[q] = {}
  BY DEF TimedOut, TypeOK, SamplesInv, OnlyQueuesWait
<1>3. \A t \in AllThreads : \A q \in Out \ Queueing : ~Carries(t, q)'
  BY <1>1, Nowhere, GoneElsewhere
<1> QED BY <1>1, <1>2, <1>3, SamplesSame, SamplesAlone

LEMMA WaitSamples ==
  ASSUME TypeOK, SamplesInv, NEW o \in Ports \intersect Queueing, NEW n,
         MayTry(o, n), Wait(o, n), conf' = conf
  PROVE  SamplesInv'
<1>1. /\ sent' = sent /\ port' = port /\ Goto(Calling(o, n)) /\ ~InFlight(run)
  BY Trying DEF Wait, seen
<1>2. \A q \in Ports \ Queueing : waiting'[q] = {}
  BY DEF Wait, TypeOK, SamplesInv, OnlyQueuesWait
<1>3. \A t \in AllThreads : \A q \in Out \ Queueing : ~Carries(t, q)'
  BY <1>1, Nowhere, GoneElsewhere
<1> QED BY <1>1, <1>2, <1>3, SamplesSame, SamplesAlone

LEMMA SendSamples ==
  ASSUME TypeOK, SamplesInv, NEW o \in Ports, NEW n \in conf.lengths, Send(o, n)
  PROVE  SamplesInv'
<1>0. /\ n \in Nat /\ conf' = conf /\ MayTry(o, n) /\ ~InFlight(run)
      /\ o \in Out \intersect Queueing /\ port[o].ready
      /\ o \in Ports \intersect Queueing
  BY Configured, Trying DEF Consistent, Send, Sources
<1>1. CASE Fits(o, n)
  <2>1. Put(o, n) BY <1>1 DEF Send, Sources
  <2>2. SameSamples BY <1>0, <2>1, PutKeeps, QueueSamples
  <2>3. /\ waiting' = waiting /\ Goto(User)
        /\ \A q \in Out \ Queueing : sent'[q] = sent[q]
    BY <1>0, <2>1 DEF Put, TypeOK
  <2>4. \A t \in AllThreads : \A q \in Out \ Queueing : ~Carries(t, q)'
    BY <1>0, <2>3, Nowhere, GoneElsewhere
  <2> QED BY <1>0, <2>2, <2>3, <2>4, NobodyWaits, SamplesAlone
<1>2. CASE ~Fits(o, n)
  <2>1. Wait(o, n) BY <1>2 DEF Send
  <2> QED BY <1>0, <2>1, WaitSamples
<1> QED BY <1>1, <1>2

LEMMA ReceiveSamples ==
  ASSUME TypeOK, SamplesInv, NEW d \in Ports, NEW n \in conf.most, Receive(d, n)
  PROVE  SamplesInv'
<1>0. /\ n \in Nat /\ conf' = conf /\ MayTry(d, n) /\ ~InFlight(run)
      /\ d \in In \intersect Queueing /\ d \in Ports \intersect Queueing
  BY Configured, Trying DEF Consistent, Receive, Sinks
<1>1. CASE ~port[d].empty
  <2>1. Take(d, n) BY <1>1 DEF Receive, Sinks
  <2>2. SameSamples BY <1>0, <1>1, <2>1, TakeKeeps, QueueSamples
  <2>3. /\ waiting' = waiting /\ Goto(User) /\ sent' = sent
    BY <1>0, <2>1 DEF Take
  <2>4. \A t \in AllThreads : \A q \in Out \ Queueing : ~Carries(t, q)'
    BY <1>0, <2>3, Nowhere, GoneElsewhere
  <2> QED BY <1>0, <2>2, <2>3, <2>4, NobodyWaits, SamplesAlone
<1>2. CASE port[d].empty
  <2>1. Wait(d, n) BY <1>2 DEF Receive
  <2> QED BY <1>0, <2>1, WaitSamples
<1> QED BY <1>1, <1>2

LEMMA EndFlushSamples ==
  ASSUME TypeOK, SamplesInv, EndFlush PROVE SamplesInv'
<1>1. /\ conf' = conf /\ sent' = sent /\ port' = port /\ Goto(User)
      /\ waiting' = waiting /\ ~InFlight(run)
  BY DEF EndFlush, At, InFlight, seen
<1>2. \A t \in AllThreads : \A q \in Out \ Queueing : ~Carries(t, q)'
  BY <1>1, Nowhere, GoneElsewhere
<1> QED BY <1>1, <1>2, SamplesSame, NobodyWaits, SamplesAlone

(* A sample is written when no flush of a sampling port is under way.      *)
LEMMA WriteSamples ==
  ASSUME TypeOK, SamplesInv, NEW o \in Ports, Write(o) PROVE SamplesInv'
<1>1. /\ conf' = conf /\ waiting' = waiting /\ call' = call /\ run' = run
      /\ o \in Out \ Queueing /\ ~InFlight(run)
  BY DEF Write, Uses, AtUser, InFlight, threads
<1>2. /\ \A q \in Ports \ {o} : port'[q] = port[q]
      /\ port'[o].data[0] = sent'[o] /\ port'[o].flush = TRUE
      /\ \A q \in Out \ {o} : sent'[q] = sent[q]
  <2>1. /\ port' = [port EXCEPT ![o] = port'[o]]
        /\ sent' = [sent EXCEPT ![o] = sent'[o]]
        /\ port'[o].data[0] = sent'[o] /\ port'[o].flush = TRUE
    BY WriteKeeps
  <2>2. DOMAIN port = Ports /\ sent \in [Out -> Nat] BY DEF TypeOK
  <2> QED BY <2>1, <2>2
<1>3. \A t \in AllThreads : \A q \in Out \ Queueing : ~Carries(t, q)'
  BY <1>1, NoneCarried DEF SamplesInv, Carries, InFlight
<1>4. OnlyQueuesWait' BY <1>1, SameSystem DEF SamplesInv, OnlyQueuesWait
<1>5. Uninterrupted' /\ InHand' BY <1>1, <1>3, SameSystem DEF Uninterrupted, InHand
<1>6. SourceHolds'
  BY <1>1, <1>2, SameSystem DEF SourceHolds, SamplesInv, Out
<1>7. SamplesCurrent'
  <2> SUFFICES ASSUME NEW q \in Out \ Queueing, NEW d \in ToSet(conf.destinations[q]),
                      ~port'[q].flush, ~port'[d].empty
               PROVE  port'[d].data[0] = sent'[q]
    BY <1>1, SameSystem DEF SamplesCurrent
  <2>1. d \in Ports /\ d # o /\ q # o /\ q \in Ports
    BY <1>1, <1>2, Destinations DEF In, Out
  <2>2. port'[d] = port[d] /\ port'[q] = port[q] /\ sent'[q] = sent[q]
    BY <1>2, <2>1
  <2> QED BY <2>2 DEF SamplesInv, SamplesCurrent
<1> QED BY <1>4, <1>5, <1>6, <1>7 DEF SamplesInv

(* The flush fetches the sample of a port, and has given it to nobody yet. *)
LEMMA FlushPortSamples ==
  ASSUME TypeOK, SamplesInv, FlushPort PROVE SamplesInv'
<1>0. /\ conf' = conf /\ waiting' = waiting /\ run' = run /\ sent' = sent
      /\ ~InFlight(run) /\ run \in AllThreads
  BY DEF FlushPort, At, InFlight, seen, TypeOK
<1>1. PICK o \in call[run].todo :
        LET n    == Consumed(port[o], Size(o))
            rest == call[run].todo \ {o}
        IN  IF ToFlush(o)
            THEN /\ Fetch(o, n)
                 /\ port' = [port EXCEPT ![o] = IF o \in Queueing THEN Got(@, n, Size(o)) ELSE @]
                 /\ Goto([at |-> "dests", todo |-> rest, source |-> o, len |-> n,
                          dests |-> conf.destinations[o]])
            ELSE Goto(Flushing(rest)) /\ UNCHANGED <<port, buffer>>
  BY DEF FlushPort
<1> DEFINE n == Consumed(port[o], Size(o))
           k == [at |-> "dests", todo |-> call[run].todo \ {o}, source |-> o,
                 len |-> n, dests |-> conf.destinations[o]]
<1>2. o \in Out /\ o \in Ports
  BY CallAt DEF FlushPort, At, NextType, TypeOK, Out
<1>3. CASE ~ToFlush(o)
  <2>1. Goto(Flushing(call[run].todo \ {o})) /\ port' = port BY <1>1, <1>3
  <2>2. \A t \in AllThreads : \A q \in Out \ Queueing : ~Carries(t, q)'
    BY <1>0, <2>1, Nowhere, GoneElsewhere
  <2> QED BY <1>0, <2>1, <2>2, SamplesSame, NobodyWaits, SamplesAlone
<1>4. CASE ToFlush(o) /\ o \in Queueing
  <2>1. Goto(k) /\ port' = [port EXCEPT ![o] = Got(port[o], n, Size(o))]
    BY <1>1, <1>4
  <2>2. SameSamples BY <1>2, <1>4, <2>1, QueueSamples
  <2>3. \A t \in AllThreads : \A q \in Out \ Queueing : ~Carries(t, q)'
    <3>1. k.source \in Queueing BY <1>4
    <3> HIDE DEF k
    <3> QED BY <1>0, <2>1, <3>1, GoneElsewhere
  <2> QED BY <1>0, <2>2, <2>3, NobodyWaits, SamplesAlone
<1>5. CASE ToFlush(o) /\ o \notin Queueing
  <2>1. Fetch(o, n) /\ Goto(k) /\ port' = [port EXCEPT ![o] = port[o]]
    BY <1>1, <1>5
  <2>2. \A q \in Ports : port'[q] = port[q] BY <2>1 DEF TypeOK
  <2>3. \A t \in AllThreads : \A q \in Out \ Queueing : ~Carries(t, q)
    BY <1>0, NoneCarried DEF SamplesInv
  <2>4. /\ \A t \in AllThreads \ {run} : call'[t] = call[t]
        /\ call'[run].at = "dests" /\ call'[run].source = o
        /\ call'[run].dests = conf.destinations[o]
    BY <1>0, <2>1 DEF Goto, TypeOK
  <2>5. buffer'[1] = sent[o]
    <3>1. /\ Size(o) = 1 /\ port[o] \in PortType(Size(o)) /\ ~port[o].empty
          /\ port[o].b = 0
      <4>1. Size(o) = 1 /\ port[o] \in PortType(Size(o)) /\ ~port[o].empty
        BY <1>2, <1>5, Sizes DEF TypeOK, Flagged, ToFlush
      <4>2. port[o].b \in 0..0 BY <4>1 DEF PortType
      <4> QED BY <4>1, <4>2
    <3>2. n = 1
      <4>1. n \in 1..1 BY <3>1, ConsumedRange
      <4> QED BY <4>1
    <3>3. buffer'[1] = Units(port[o], 1, 1)[1]
      <4>1. buffer \in [1..MaxSize -> Nat] /\ 1 \in 1..MaxSize
        BY Limits DEF TypeOK
      <4>2. Fetch(o, 1) BY <2>1, <3>2
      <4> QED BY <3>1, <4>1, <4>2 DEF Fetch
    <3>4. Units(port[o], 1, 1)[1] = port[o].data[0]
      <4>1. (0 + 1 - 1) % 1 = 0 BY ModSum
      <4> QED BY <3>1, <4>1 DEF Units
    <3> QED BY <1>2, <1>5, <3>1, <3>3, <3>4 DEF SamplesInv, SourceHolds
  <2>6. \A t \in AllThreads : \A q \in Out \ Queueing :
          Carries(t, q)' => t = run /\ q = o
    BY <1>0, <2>3, <2>4 DEF Carries, InFlight
  <2>7. OnlyQueuesWait' BY <1>0, SameSystem DEF SamplesInv, OnlyQueuesWait
  <2>8. Uninterrupted' BY <1>0, <2>6, SameSystem DEF Uninterrupted
  <2>9. InHand'
    <3> SUFFICES ASSUME NEW t \in AllThreads, NEW q \in Out \ Queueing, Carries(t, q)'
                 PROVE  /\ call'[t].at = "dests" => buffer'[1] = sent'[q]
                        /\ \A d \in ToSet(conf.destinations[q]) \ ToSet(call'[t].dests) :
                              Fresh(d, q)'
                        /\ call'[t].at = "clear" => call'[t].dests = <<>>
      BY <1>0, SameSystem DEF InHand
    <3>1. t = run /\ q = o BY <2>6
    <3> QED BY <1>0, <2>4, <2>5, <3>1
  <2>10. SourceHolds'
    BY <1>0, <2>2, SameSystem DEF SourceHolds, SamplesInv, Out
  <2>11. SamplesCurrent'
    BY <1>0, <2>2, SameSystem, Destinations DEF SamplesCurrent, SamplesInv, Out, In
  <2> QED BY <2>7, <2>8, <2>9, <2>10, <2>11 DEF SamplesInv
<1> QED BY <1>3, <1>4, <1>5

(* A broadcast to a port that nobody waits for changes nothing.            *)
LEMMA BroadcastToNobody ==
  ASSUME TypeOK, SamplesInv, NEW o \in Ports \ Queueing, Broadcast(o)
  PROVE  run' = run /\ waiting' = waiting
<1>1. waiting[o] = {} BY DEF SamplesInv, OnlyQueuesWait
<1>2. waiting' = [waiting EXCEPT ![o] = {}] /\ run' = run
  BY <1>1 DEF Broadcast
<1> QED BY <1>1, <1>2 DEF TypeOK

(* The sample reaches a destination that is created; one that is not holds *)
(* nothing.                                                                *)
LEMMA FlushDestinationSamples ==
  ASSUME TypeOK, SamplesInv, OneSource(conf), FlushDestination PROVE SamplesInv'
<1> DEFINE k == [call[run] EXCEPT !.dests = Tail(@)]
<1>0. PICK d \in Ports : d = Head(call[run].dests) BY AtDestination
<1>1. PICK o \in Out : o = call[run].source BY AtDestination, InStep
<1>2. /\ conf' = conf /\ sent' = sent /\ buffer' = buffer /\ Goto(k)
      /\ InFlight(run) /\ call[run].at = "dests" /\ run \in AllThreads
  BY DEF FlushDestination, At, InFlight, seen, TypeOK
<1>3. /\ d \in In /\ d \in ToSet(conf.destinations[o])
      /\ d \in Queueing <=> o \in Queueing
      /\ k \in StepType /\ k.at = "dests" /\ k.source = o
      /\ ToSet(call[run].dests) = ToSet(k.dests) \union {d}
  BY <1>0, <1>1, AtDestination
<1> HIDE DEF k
<1>4. /\ port[d].ready => /\ port' = [port EXCEPT ![d] = Delivered(d, call[run].len)]
                          /\ Broadcast(d)
      /\ ~port[d].ready => port' = port /\ waiting' = waiting /\ run' = run
  BY <1>0 DEF FlushDestination
<1>5. CASE o \in Queueing
  <2>1. SameSamples
    BY <1>3, <1>4, <1>5, QueueSamples, SamplesSame
  <2>2. \A q \in Ports \ Queueing : waiting'[q] = {}
    <3>1. \A q \in Ports \ {d} : waiting'[q] = waiting[q]
      BY <1>4, BroadcastType
    <3> QED BY <1>3, <1>5, <3>1 DEF SamplesInv, OnlyQueuesWait
  <2>3. \A t \in AllThreads : \A q \in Out \ Queueing : ~Carries(t, q)'
    BY <1>1, <1>2, <1>3, <1>5, GoneElsewhere
  <2> QED BY <1>2, <2>1, <2>2, <2>3, SamplesAlone
<1>6. CASE o \notin Queueing
  <2>1. run' = run /\ waiting' = waiting
    BY <1>3, <1>4, <1>6, BroadcastToNobody
  <2>2. /\ \A t \in AllThreads \ {run} : call'[t] = call[t]
        /\ call'[run] = k
    BY <1>2 DEF Goto, TypeOK
  <2>3. \A t \in AllThreads : \A q \in Out \ Queueing :
          Carries(t, q) => t = run /\ q = o
    BY <1>1, <1>2 DEF SamplesInv, Uninterrupted, Carries
  <2>4. \A t \in AllThreads : \A q \in Out \ Queueing :
          Carries(t, q)' => t = run /\ q = o
    BY <1>3, <2>2, <2>3 DEF Carries, InFlight
  <2>5. Carries(run, o) BY <1>1, <1>2 DEF Carries
  <2>6. /\ buffer[1] = sent[o]
        /\ \A x \in ToSet(conf.destinations[o]) \ ToSet(call[run].dests) : Fresh(x, o)
    BY <1>2, <1>6, <2>5 DEF SamplesInv, InHand
  <2>7. \A q \in Ports \ {d} : port'[q] = port[q]
    BY <1>4 DEF TypeOK
  <2>8. ~port'[d].empty => port'[d].data[0] = sent'[o]
    <3>1. CASE port[d].ready
      <4>1. PICK m \in Nat : m = buffer[1] BY Limits DEF TypeOK
      <4>2. port'[d] = Sampled(port[d], m)
        BY <1>3, <1>4, <1>6, <3>1, <4>1 DEF Delivered, TypeOK
      <4>3. Sampled(port[d], m).data[0] = m
        <5>1. d \in Ports \ Queueing BY <1>3, <1>6
        <5>2. PICK r : r = port[d] OBVIOUS
        <5>3. Flagged(d, r) /\ r.ready BY <3>1, <5>2 DEF TypeOK
        <5>4. Sampled(r, m).data[0] = m BY <5>1, <5>3, SampledKeeps
        <5> QED BY <5>2, <5>4
      <4> QED BY <1>2, <2>6, <4>1, <4>2, <4>3
    <3>2. CASE ~port[d].ready
      BY <1>4, <3>2 DEF TypeOK, Flagged
    <3> QED BY <3>1, <3>2
  <2>9. OnlyQueuesWait' BY <1>2, <2>1, SameSystem DEF SamplesInv, OnlyQueuesWait
  <2>10. Uninterrupted' BY <1>2, <2>1, <2>4, SameSystem DEF Uninterrupted
  <2>11. InHand'
    <3> SUFFICES ASSUME NEW t \in AllThreads, NEW q \in Out \ Queueing, Carries(t, q)'
                 PROVE  /\ call'[t].at = "dests" => buffer'[1] = sent'[q]
                        /\ \A x \in ToSet(conf.destinations[q]) \ ToSet(call'[t].dests) :
                              ~port'[x].empty => port'[x].data[0] = sent'[q]
                        /\ call'[t].at = "clear" => call'[t].dests = <<>>
      BY <1>2, SameSystem DEF InHand, Fresh
    <3>1. t = run /\ q = o BY <2>4
    <3>2. ASSUME NEW x \in ToSet(conf.destinations[o]) \ ToSet(k.dests)
          PROVE  ~port'[x].empty => port'[x].data[0] = sent'[o]
      <4>1. CASE x = d BY <2>8, <4>1
      <4>2. CASE x # d
        <5>1. x \in ToSet(conf.destinations[o]) \ ToSet(call[run].dests) /\ x \in Ports
          BY <1>3, <3>2, <4>2, Destinations DEF In
        <5> QED BY <1>2, <2>6, <2>7, <4>2, <5>1 DEF Fresh
      <4> QED BY <4>1, <4>2
    <3> QED BY <1>2, <1>3, <2>2, <2>6, <3>1, <3>2
  <2>12. SourceHolds'
    BY <1>2, <1>3, <2>7, SameSystem DEF SourceHolds, SamplesInv, Out
  <2>13. SamplesCurrent'
    <3> SUFFICES ASSUME NEW q \in Out \ Queueing, NEW x \in ToSet(conf.destinations[q]),
                        ~port'[q].flush, ~port'[x].empty
                 PROVE  port'[x].data[0] = sent'[q]
      BY <1>2, SameSystem DEF SamplesCurrent
    <3>1. x \in Ports /\ q \in Ports /\ q # d
      BY <1>3, Destinations DEF In, Out
    <3>2. CASE x # d
      BY <1>2, <2>7, <3>1, <3>2 DEF SamplesInv, SamplesCurrent
    <3>3. CASE x = d
      <4>1. q = o
        <5>1. /\ q \in Ports /\ o \in Ports /\ conf.direction[q] = "OUT"
              /\ conf.direction[o] = "OUT"
          BY Configured DEF Out, In, Consistent, Ports
        <5> QED BY <1>3, <3>3, <5>1 DEF OneSource, Ports
      <4> QED BY <2>8, <3>3, <4>1
    <3> QED BY <3>2, <3>3
  <2> QED BY <2>9, <2>10, <2>11, <2>12, <2>13 DEF SamplesInv
<1> QED BY <1>5, <1>6

LEMMA FlushSourceSamples ==
  ASSUME TypeOK, SamplesInv, FlushSource PROVE SamplesInv'
<1> DEFINE k == [call[run] EXCEPT !.at = "clear"]
<1>0. /\ conf' = conf /\ sent' = sent /\ port' = port /\ buffer' = buffer
      /\ Goto(k) /\ InFlight(run) /\ run \in AllThreads /\ call[run].dests = <<>>
  BY DEF FlushSource, At, InFlight, seen, TypeOK
<1>1. PICK o \in Out : o = call[run].source BY <1>0, InStep
<1>2. Broadcast(o) /\ o \in Ports BY <1>1 DEF FlushSource, Out
<1>3. k.at = "clear" /\ k.source = o /\ k.dests = <<>>
  BY <1>0, <1>1, InStep DEF StepType
<1> HIDE DEF k
<1>4. CASE o \in Queueing
  <2>1. \A q \in Ports \ Queueing : waiting'[q] = {}
    BY <1>2, <1>4, BroadcastType DEF SamplesInv, OnlyQueuesWait
  <2>2. \A t \in AllThreads : \A q \in Out \ Queueing : ~Carries(t, q)'
    BY <1>0, <1>1, <1>3, <1>4, GoneElsewhere
  <2> QED BY <1>0, <2>1, <2>2, SamplesSame, SamplesAlone
<1>5. CASE o \notin Queueing
  <2>1. run' = run /\ waiting' = waiting
    BY <1>2, <1>5, BroadcastToNobody
  <2>2. /\ \A t \in AllThreads \ {run} : call'[t] = call[t]
        /\ call'[run] = k
    BY <1>0 DEF Goto, TypeOK
  <2>3. \A t \in AllThreads : \A q \in Out \ Queueing :
          Carries(t, q)' => t = run /\ q = o
    BY <1>0, <1>1, <1>3, <2>2 DEF SamplesInv, Uninterrupted, Carries, InFlight
  <2>4. \A x \in ToSet(conf.destinations[o]) \ ToSet(call[run].dests) : Fresh(x, o)
    BY <1>0, <1>1, <1>5 DEF SamplesInv, InHand, Carries
  <2>5. OnlyQueuesWait' BY <1>0, <2>1, SameSystem DEF SamplesInv, OnlyQueuesWait
  <2>6. Uninterrupted' BY <1>0, <2>1, <2>3, SameSystem DEF Uninterrupted
  <2>7. InHand'
    <3> SUFFICES ASSUME NEW t \in AllThreads, NEW q \in Out \ Queueing, Carries(t, q)'
                 PROVE  /\ call'[t].at = "dests" => buffer'[1] = sent'[q]
                        /\ \A x \in ToSet(conf.destinations[q]) \ ToSet(call'[t].dests) :
                              ~port'[x].empty => port'[x].data[0] = sent'[q]
                        /\ call'[t].at = "clear" => call'[t].dests = <<>>
      BY <1>0, SameSystem DEF InHand, Fresh
    <3>1. t = run /\ q = o BY <2>3
    <3> QED BY <1>0, <1>3, <2>2, <2>4, <3>1 DEF Fresh
  <2>8. SourceHolds' /\ SamplesCurrent'
    BY <1>0, SameSystem DEF SourceHolds, SamplesCurrent, SamplesInv
  <2> QED BY <2>5, <2>6, <2>7, <2>8 DEF SamplesInv
<1> QED BY <1>4, <1>5

(* When the mark is cleared, all destinations have the sample.             *)
LEMMA FlushClearSamples ==
  ASSUME TypeOK, SamplesInv, FlushClear PROVE SamplesInv'
<1>0. /\ conf' = conf /\ sent' = sent /\ waiting' = waiting
      /\ Goto(Flushing(call[run].todo)) /\ InFlight(run) /\ run \in AllThreads
      /\ call[run].at = "clear"
  BY DEF FlushClear, At, InFlight, seen, TypeOK
<1>1. PICK o \in Out : o = call[run].source BY <1>0, InStep
<1>2. o \in Ports /\ port' = [port EXCEPT ![o] = [port[o] EXCEPT !.flush = FALSE]]
  BY <1>1 DEF FlushClear, Out
<1>3. CASE o \in Queueing
  <2>1. SameSamples BY <1>2, <1>3, QueueSamples
  <2>2. \A t \in AllThreads : \A q \in Out \ Queueing : ~Carries(t, q)'
    BY <1>0, <1>1, <1>3, Nowhere, GoneElsewhere
  <2> QED BY <1>0, <2>1, <2>2, NobodyWaits, SamplesAlone
<1>4. CASE o \notin Queueing
  <2>1. SameRing([port[o] EXCEPT !.flush = FALSE], port[o])
    BY <1>2, FlagsKeep DEF TypeOK
  <2>2. /\ \A q \in Ports \ {o} : port'[q] = port[q]
        /\ \A q \in Ports : SameRing(port'[q], port[q])
    <3>1. port'[o] = [port[o] EXCEPT !.flush = FALSE] BY <1>2 DEF TypeOK
    <3>2. \A q \in Ports \ {o} : port'[q] = port[q] BY <1>2 DEF TypeOK
    <3> QED BY <2>1, <3>1, <3>2 DEF SameRing
  <2>3. \A x \in ToSet(conf.destinations[o]) : Fresh(x, o)
    <3>1. Carries(run, o) BY <1>0, <1>1 DEF Carries
    <3>2. call[run].dests = <<>> BY <1>0, <1>4, <3>1 DEF SamplesInv, InHand
    <3>3. ToSet(call[run].dests) = {} BY <3>2 DEF ToSet
    <3> QED BY <1>0, <1>4, <3>1, <3>3 DEF SamplesInv, InHand
  <2>4. \A t \in AllThreads : \A q \in Out \ Queueing : ~Carries(t, q)'
    BY <1>0, Nowhere DEF SamplesInv, Uninterrupted, Carries, InFlight, Goto, TypeOK
  <2>5. OnlyQueuesWait' BY <1>0, SameSystem DEF SamplesInv, OnlyQueuesWait
  <2>6. Uninterrupted' /\ InHand' BY <1>0, <2>4, SameSystem DEF Uninterrupted, InHand
  <2>7. SourceHolds'
    BY <1>0, <2>2, SameSystem DEF SourceHolds, SamplesInv, SameRing, Out
  <2>8. SamplesCurrent'
    <3> SUFFICES ASSUME NEW q \in Out \ Queueing, NEW x \in ToSet(conf.destinations[q]),
                        ~port'[q].flush, ~port'[x].empty
                 PROVE  port'[x].data[0] = sent'[q]
      BY <1>0, SameSystem DEF SamplesCurrent
    <3>1. x \in Ports /\ q \in Ports BY Destinations DEF In, Out
    <3>2. ~port[x].empty /\ port'[x].data = port[x].data
      BY <2>2, <3>1 DEF SameRing
    <3>3. CASE q = o BY <1>0, <2>3, <3>2, <3>3 DEF Fresh
    <3>4. CASE q # o
      <4>1. ~port[q].flush BY <2>2, <3>1, <3>4
      <4> QED BY <1>0, <3>2, <4>1 DEF SamplesInv, SamplesCurrent
    <3> QED BY <3>3, <3>4
  <2> QED BY <2>5, <2>6, <2>7, <2>8 DEF SamplesInv
<1> QED BY <1>3, <1>4

LEMMA SamplesStep ==
  ASSUME TypeOK, SamplesInv, OneSource(conf), [Next]_vars PROVE SamplesInv'
<1>1. CASE Next
  BY <1>1, TickSamples, FlushPortSamples, FlushDestinationSamples,
     FlushSourceSamples, FlushClearSamples, EndFlushSamples, CreateSamples,
     SetNormalSamples, TimedOutSamples, SendSamples, ReceiveSamples,
     WriteSamples, ReadSamples DEF Next, Kernel
<1>2. CASE UNCHANGED vars
  <2>1. /\ conf' = conf /\ waiting' = waiting /\ call' = call /\ port' = port
        /\ sent' = sent /\ run' = run /\ buffer' = buffer
    BY <1>2 DEF vars, threads, seen
  <2>2. OnlyQueuesWait' /\ Uninterrupted'
    BY <2>1, SameSystem DEF OnlyQueuesWait, Uninterrupted, Carries, InFlight, SamplesInv
  <2>3. InHand'
    BY <2>1, SameSystem DEF InHand, Carries, InFlight, Fresh, SamplesInv
  <2>4. SourceHolds' /\ SamplesCurrent'
    BY <2>1, SameSystem DEF SourceHolds, SamplesCurrent, SamplesInv
  <2> QED BY <2>2, <2>3, <2>4 DEF SamplesInv
<1> QED BY <1>1, <1>2

LEMMA SamplesStart == ASSUME Init PROVE SamplesInv
<1>1. TypeOK BY InitType
<1>2. \A t \in AllThreads : ~InFlight(t) BY DEF Init, User, InFlight
<1>3. \A o \in Ports : port[o].empty /\ waiting[o] = {}
  BY DEF Init, NewPort
<1>4. OnlyQueuesWait /\ Uninterrupted /\ InHand
  BY <1>2, <1>3 DEF OnlyQueuesWait, Uninterrupted, InHand, Carries
<1>5. SourceHolds BY <1>3 DEF SourceHolds, Out
<1>6. SamplesCurrent
  BY <1>1, <1>3, Destinations DEF SamplesCurrent, In
<1> QED BY <1>4, <1>5, <1>6 DEF SamplesInv

(* A sample that does not wait for the flush is the one that destinations  *)
(* hold, if no port is the destination of two.  The assumption is needed:  *)
(* the port would hold the sample of one of them.                          *)
THEOREM SamplesAreCurrent ==
  ASSUME \A c \in Configs : OneSource(c)
  PROVE  Spec => []SamplesCurrent
<1>1. Init => SamplesInv BY SamplesStart
<1>2. TypeOK => OneSource(conf) BY DEF TypeOK
<1>3. TypeOK /\ SamplesInv /\ [Next]_vars => SamplesInv'
  BY <1>2, SamplesStep
<1>4. SamplesInv => SamplesCurrent BY DEF SamplesInv
<1> QED BY <1>1, <1>3, <1>4, PortsTyped, PTL DEF Spec
-----------------------------------------------------------------------------
(* The order of messages.  What a port holds is a sequence of units.       *)
LEMMA Wrap ==
  ASSUME NEW s \in Nat, 1 <= s, NEW a \in Nat, a < s + s
  PROVE  a % s = IF a < s THEN a ELSE a - s
<1>1. CASE a < s BY <1>1, ModSum
<1>2. CASE ~(a < s)
  <2>1. a - s \in Nat /\ a - s < s /\ s + (a - s) = a BY <1>2
  <2> QED BY <1>2, <2>1, ModSum
<1> QED BY <1>1, <1>2

LEMMA WrapBack ==
  ASSUME NEW s \in Nat, 1 <= s, NEW a \in Int, -s <= a, a < s
  PROVE  a % s = IF a < 0 THEN a + s ELSE a
BY Z3

(* The flags that tell an empty ring from a full one.                      *)
Ring(r, s) == /\ r \in PortType(s)
              /\ r.empty => r.b = r.e /\ ~r.full
              /\ r.b = r.e => r.empty \/ r.full

LEMMA RingEnd ==
  ASSUME NEW s \in Nat, 1 <= s, NEW r, Ring(r, s)
  PROVE  /\ Consumed(r, s) \in 0..s
         /\ r.b + Consumed(r, s) = r.e \/ r.b + Consumed(r, s) = s + r.e
         /\ ~r.full => Consumed(r, s) < s
         /\ ~r.empty => 1 <= Consumed(r, s)
<1>1. /\ r.b \in 0..(s - 1) /\ r.e \in 0..(s - 1)
      /\ r.empty => r.b = r.e /\ ~r.full
      /\ r.b = r.e => r.empty \/ r.full
  BY DEF Ring, PortType
<1>2. CASE r.empty BY <1>1, <1>2 DEF Consumed
<1>3. CASE ~r.empty /\ r.b < r.e BY <1>1, <1>3 DEF Consumed
<1>4. CASE ~r.empty /\ ~(r.b < r.e) BY <1>1, <1>4 DEF Consumed
<1> QED BY <1>2, <1>3, <1>4

LEMMA UnitsAreNumbers ==
  ASSUME NEW s \in Nat, 1 <= s, NEW r, Ring(r, s), NEW n \in Nat
  PROVE  /\ Units(r, n, s) \in Seq(Nat) /\ Len(Units(r, n, s)) = n
         /\ \A i \in 1..n : Units(r, n, s)[i] = r.data[(r.b + i - 1) % s]
<1>1. ASSUME NEW i \in 1..n PROVE r.data[(r.b + i - 1) % s] \in Nat
  <2>1. r.b \in 0..(s - 1) /\ r.data \in [0..(s - 1) -> Nat]
    BY DEF Ring, PortType
  <2>2. r.b + i - 1 \in Nat BY <2>1
  <2>3. (r.b + i - 1) % s \in 0..(s - 1) BY <2>2, ModInRange
  <2> QED BY <2>1, <2>3
<1>2. Units(r, n, s) \in [1..n -> Nat] BY <1>1 DEF Units
<1>3. Units(r, n, s) \in Seq(Nat) BY <1>2, SeqDef
<1>4. DOMAIN Units(r, n, s) = 1..n BY <1>2
<1> QED BY <1>3, <1>4 DEF Units

LEMMA ContentsAreUnits ==
  ASSUME NEW s \in Nat, 1 <= s, NEW r, Ring(r, s)
  PROVE  /\ Contents(r, s) \in Seq(Nat)
         /\ Len(Contents(r, s)) = Consumed(r, s)
         /\ \A i \in 1..Consumed(r, s) :
              Contents(r, s)[i] = r.data[(r.b + i - 1) % s]
         /\ r.empty => Contents(r, s) = <<>>
<1>1. Consumed(r, s) \in Nat BY RingEnd
<1>2. /\ Contents(r, s) \in Seq(Nat) /\ Len(Contents(r, s)) = Consumed(r, s)
      /\ \A i \in 1..Consumed(r, s) :
           Contents(r, s)[i] = r.data[(r.b + i - 1) % s]
  BY <1>1, UnitsAreNumbers DEF Contents
<1>3. ASSUME r.empty PROVE Contents(r, s) = <<>>
  <2>1. Consumed(r, s) = 0 BY <1>3 DEF Consumed
  <2> QED BY <1>2, <2>1, EmptySeq
<1> QED BY <1>2, <1>3

(* Flags that are set by hand do not change it.                            *)
SameUnits(R, r) == R.b = r.b /\ R.e = r.e /\ R.empty = r.empty /\ R.data = r.data

LEMMA SameContents ==
  ASSUME NEW s, NEW r, NEW R, SameUnits(R, r)
  PROVE  Contents(R, s) = Contents(r, s) /\ Consumed(R, s) = Consumed(r, s)
<1>1. Consumed(R, s) = Consumed(r, s) BY DEF SameUnits, Consumed
<1> QED BY <1>1 DEF SameUnits, Contents, Units

(* Where pok_port_write puts what it is given, and pok_port_get begins.    *)
LEMMA WrittenFields ==
  ASSUME NEW s \in Nat, 1 <= s, NEW r, Ring(r, s), ~r.full,
         NEW n \in 1..s, NEW u \in [1..n -> Nat]
  PROVE  LET R == Written(r, u, s)
         IN  /\ R.b = r.b /\ R.e = (r.e + n) % s /\ R.empty = FALSE
             /\ \A i \in 0..(s - 1) :
                  R.data[i] = IF ((i - r.e) % s) + 1 <= n THEN u[((i - r.e) % s) + 1]
                                                       ELSE r.data[i]
<1> DEFINE e == (r.e + Len(u)) % s
           F == (e = r.b) \/ r.full
           D == [i \in 0..(s - 1) |->
                   LET k == ((i - r.e) % s) + 1
                   IN  IF k <= Len(u) THEN u[k] ELSE r.data[i]]
           R == Written(r, u, s)
<1>1. Len(u) = n
  <2>1. u \in Seq(Nat) BY SeqDef
  <2>2. DOMAIN u = 1..n OBVIOUS
  <2> QED BY <2>1, <2>2
<1>2. R = [r EXCEPT !.e = e, !.empty = FALSE, !.full = F, !.data = D]
  BY <1>1 DEF Written
<1> HIDE DEF e, F, D, R
<1>3. R.b = r.b /\ R.e = e /\ R.empty = FALSE /\ R.data = D
  BY <1>2 DEF Ring, PortType
<1>4. \A i \in 0..(s - 1) :
        D[i] = IF ((i - r.e) % s) + 1 <= n THEN u[((i - r.e) % s) + 1] ELSE r.data[i]
  BY <1>1 DEF D
<1> QED BY <1>1, <1>3, <1>4 DEF e, R

(* A port holds what it held and what is written behind it, less the       *)
(* oldest units where there is no room for all.                            *)
LEMMA WrittenContents ==
  ASSUME NEW s \in Nat, 1 <= s, NEW r, Ring(r, s), ~r.full,
         NEW n \in 1..s, NEW u \in [1..n -> Nat],
         Ring(Written(r, u, s), s)
  PROVE  LET R == Written(r, u, s)
             c == Consumed(r, s)
             L == Consumed(R, s)
         IN  /\ L = IF c + n <= s THEN c + n ELSE c + n - s
             /\ \A i \in 1..L :
                  Contents(R, s)[i] = LET k == c + n - L + i
                                      IN  IF k <= c THEN Contents(r, s)[k] ELSE u[k - c]
<1>0. PICK R : R = Written(r, u, s) OBVIOUS
<1>1. PICK b \in 0..(s - 1) : b = r.b BY DEF Ring, PortType
<1>2. PICK e \in 0..(s - 1) : e = r.e BY DEF Ring, PortType
<1>3. PICK c \in 0..s : c = Consumed(r, s) BY RingEnd
<1>4. PICK L \in 0..s : L = Consumed(R, s) BY <1>0, RingEnd
<1>5. /\ R.b = b /\ R.e = (e + n) % s /\ R.empty = FALSE
      /\ \A i \in 0..(s - 1) :
           R.data[i] = IF ((i - e) % s) + 1 <= n THEN u[((i - e) % s) + 1] ELSE r.data[i]
  <2>1. R.b = r.b /\ R.e = (r.e + n) % s /\ R.empty = FALSE BY <1>0, WrittenFields
  <2>2. \A i \in 0..(s - 1) :
          R.data[i] = IF ((i - r.e) % s) + 1 <= n THEN u[((i - r.e) % s) + 1] ELSE r.data[i]
    BY <1>0, WrittenFields
  <2> QED BY <1>1, <1>2, <2>1, <2>2
<1>6. /\ b + c = e \/ b + c = s + e
      /\ c < s
  BY <1>1, <1>2, <1>3, RingEnd
<1>7. /\ b + L = R.e \/ b + L = s + R.e
      /\ 1 <= L
  BY <1>0, <1>4, <1>5, RingEnd
<1>8. PICK f : f = (e + n) % s OBVIOUS
<1>w. f = IF e + n < s THEN e + n ELSE e + n - s
  <2>1. PICK a \in Nat : a = e + n OBVIOUS
  <2>2. a < s + s BY <2>1
  <2>3. a % s = IF a < s THEN a ELSE a - s BY <2>2, Wrap
  <2> QED BY <1>8, <2>1, <2>3
<1>f. R.e = f BY <1>5, <1>8
<1>9. L = IF c + n <= s THEN c + n ELSE c + n - s
  <2>1. b + L = f \/ b + L = s + f BY <1>7, <1>f
  <2>2. CASE e + n < s BY <1>6, <1>7, <1>w, <2>1, <2>2
  <2>3. CASE ~(e + n < s) BY <1>6, <1>7, <1>w, <2>1, <2>3
  <2> QED BY <2>2, <2>3
<1>10. ASSUME NEW i \in 1..L
       PROVE  Contents(R, s)[i] = LET k == c + n - L + i
                                  IN  IF k <= c THEN Contents(r, s)[k] ELSE u[k - c]
  <2>1. PICK k : k = c + n - L + i OBVIOUS
  <2>k. /\ k \in Int /\ 1 <= k /\ k <= c + n
        /\ (c + n <= s /\ k = i) \/ (s < c + n /\ k = s + i /\ i <= c + n - s)
    BY <1>9, <2>1
  <2>2. PICK p \in 0..(s - 1) : p = (b + i - 1) % s
    <3>1. b + i - 1 \in Nat OBVIOUS
    <3> QED BY <3>1, ModInRange
  <2>3. p = IF b + i - 1 < s THEN b + i - 1 ELSE b + i - 1 - s
    <3>1. PICK a \in Nat : a = b + i - 1 OBVIOUS
    <3>2. a < s + s BY <3>1
    <3>3. a % s = IF a < s THEN a ELSE a - s BY <3>2, Wrap
    <3> QED BY <2>2, <3>1, <3>3
  <2>m. PICK q : q = (p - e) % s OBVIOUS
  <2>4. q = IF p - e < 0 THEN p - e + s ELSE p - e
    <3>1. p - e \in Int /\ -s <= p - e /\ p - e < s OBVIOUS
    <3> QED BY <2>m, <3>1, WrapBack
  <2>d. R.data[p] = IF q + 1 <= n THEN u[q + 1] ELSE r.data[p]
    BY <1>5, <2>m
  <2>5. Contents(R, s)[i] = R.data[p]
    BY <1>0, <1>4, <1>5, <2>2, ContentsAreUnits
  <2>6. CASE k <= c
    <3>1. k = i /\ c + n <= s BY <1>6, <2>k, <2>6
    <3>2. ~(q + 1 <= n)
      <4>1. CASE b + c = e BY <2>3, <2>4, <2>6, <3>1, <4>1
      <4>2. CASE b + c = s + e BY <2>3, <2>4, <2>6, <3>1, <4>2
      <4> QED BY <1>6, <4>1, <4>2
    <3>3. R.data[p] = r.data[p] BY <2>d, <3>2
    <3>4. Contents(r, s)[k] = r.data[p]
      <4>1. \A j \in 1..c : Contents(r, s)[j] = r.data[(b + j - 1) % s]
        BY <1>1, <1>3, ContentsAreUnits
      <4>2. i \in 1..c BY <2>6, <3>1
      <4> QED BY <2>2, <3>1, <4>1, <4>2
    <3> QED BY <2>1, <2>5, <2>6, <3>3, <3>4
  <2>7. CASE ~(k <= c)
    <3>1. q + 1 = k - c
      <4>1. CASE b + c = e BY <1>6, <2>k, <2>3, <2>4, <2>7, <4>1
      <4>2. CASE b + c = s + e BY <1>6, <2>k, <2>3, <2>4, <2>7, <4>2
      <4> QED BY <1>6, <4>1, <4>2
    <3>2. k - c <= n BY <2>k
    <3>3. R.data[p] = u[k - c] BY <2>d, <3>1, <3>2
    <3> QED BY <2>1, <2>5, <2>7, <3>3
  <2> QED BY <2>6, <2>7
<1> QED BY <1>0, <1>3, <1>4, <1>9, <1>10

(* A port that is read of m units holds the others.                        *)
LEMMA GotContents ==
  ASSUME NEW s \in Nat, 1 <= s, NEW r, Ring(r, s), ~r.empty,
         NEW m \in 1..Consumed(r, s), Ring(Got(r, m, s), s)
  PROVE  Contents(r, s) = Units(r, m, s) \o Contents(Got(r, m, s), s)
<1>0. PICK R : R = Got(r, m, s) OBVIOUS
<1>1. PICK b \in 0..(s - 1) : b = r.b BY DEF Ring, PortType
<1>2. PICK e \in 0..(s - 1) : e = r.e BY DEF Ring, PortType
<1>3. PICK c \in 1..s : c = Consumed(r, s) BY RingEnd
<1>4. PICK L \in 0..s : L = Consumed(R, s) BY <1>0, RingEnd
<1>5. /\ R.b = (b + m) % s /\ R.e = e /\ R.data = r.data
      /\ R.empty = ((b + m) % s = e)
  BY <1>0, <1>1, <1>2 DEF Got, Ring, PortType
<1>6. b + c = e \/ b + c = s + e BY <1>1, <1>2, <1>3, RingEnd
<1>7. /\ R.b + L = e \/ R.b + L = s + e
      /\ ~R.empty => 1 <= L
      /\ ~R.full => L < s
      /\ R.empty => L = 0
  BY <1>0, <1>4, <1>5, RingEnd DEF Consumed
<1>m. m \in 1..c BY <1>3
<1>8. PICK f : f = (b + m) % s OBVIOUS
<1>w. f = IF b + m < s THEN b + m ELSE b + m - s
  <2>1. PICK a \in Nat : a = b + m BY <1>m
  <2>2. a < s + s BY <1>m, <2>1
  <2>3. a % s = IF a < s THEN a ELSE a - s BY <2>2, Wrap
  <2> QED BY <1>8, <2>1, <2>3
<1>f. R.b = f /\ R.empty = (f = e) BY <1>5, <1>8
<1>9. L = c - m
  <2>1. CASE R.empty
    BY <1>6, <1>7, <1>f, <1>w, <1>m, <2>1
  <2>2. CASE ~R.empty
    <3>1. f # e /\ 1 <= L /\ (f + L = e \/ f + L = s + e) BY <1>7, <1>f, <2>2
    <3>2. CASE b + m < s BY <1>6, <1>w, <1>m, <3>1, <3>2
    <3>3. CASE ~(b + m < s) BY <1>6, <1>w, <1>m, <3>1, <3>3
    <3> QED BY <3>2, <3>3
  <2> QED BY <2>1, <2>2
<1>10. ASSUME NEW i \in 1..L PROVE Contents(R, s)[i] = Contents(r, s)[m + i]
  <2>1. m + i \in 1..c BY <1>m, <1>9
  <2>2. (R.b + i - 1) % s = (b + (m + i) - 1) % s
    <3>1. f \in 0..(s - 1) BY <1>m, <1>w
    <3>g. PICK g \in Nat : g = f + i - 1 BY <3>1
    <3>2. g % s = IF g < s THEN g ELSE g - s
      <4>1. g < s + s BY <3>1, <3>g
      <4> QED BY <4>1, Wrap
    <3>3. PICK a : a = b + (m + i) - 1 OBVIOUS
    <3>4. /\ a \in Nat /\ a < s + s
          /\ a = b + m + i - 1
      BY <2>1, <3>3, <1>m
    <3>5. a % s = IF a < s THEN a ELSE a - s
      BY <3>4, Wrap
    <3>6. (IF g < s THEN g ELSE g - s) = IF a < s THEN a ELSE a - s
      BY <1>w, <1>m, <3>g, <3>4
    <3>7. (R.b + i - 1) % s = g % s BY <1>f, <3>g
    <3>8. a % s = (b + (m + i) - 1) % s BY <3>3
    <3> QED BY <3>2, <3>5, <3>6, <3>7, <3>8
  <2>3. Contents(R, s)[i] = R.data[(R.b + i - 1) % s]
    BY <1>0, <1>4, ContentsAreUnits
  <2>4. Contents(r, s)[m + i] = r.data[(b + (m + i) - 1) % s]
    BY <1>1, <1>3, <2>1, ContentsAreUnits
  <2> QED BY <1>5, <2>2, <2>3, <2>4
<1>11. /\ Contents(r, s) \in Seq(Nat) /\ Len(Contents(r, s)) = c
       /\ Contents(R, s) \in Seq(Nat) /\ Len(Contents(R, s)) = L
  BY <1>0, <1>3, <1>4, ContentsAreUnits
<1>12. /\ Units(r, m, s) \in Seq(Nat) /\ Len(Units(r, m, s)) = m
       /\ \A i \in 1..m : Units(r, m, s)[i] = Contents(r, s)[i]
  BY <1>3, <1>m, UnitsAreNumbers, ContentsAreUnits
<1>13. /\ Units(r, m, s) \o Contents(R, s) \in Seq(Nat)
       /\ Len(Units(r, m, s) \o Contents(R, s)) = c
       /\ \A i \in 1..c : (Units(r, m, s) \o Contents(R, s))[i]
            = IF i <= m THEN Units(r, m, s)[i] ELSE Contents(R, s)[i - m]
  <2>1. /\ Len(Units(r, m, s) \o Contents(R, s)) = m + L
        /\ Units(r, m, s) \o Contents(R, s) \in Seq(Nat)
    BY <1>11, <1>12, ConcatProperties
  <2>2. m + L = c BY <1>m, <1>9
  <2>3. \A i \in 1..(m + L) : (Units(r, m, s) \o Contents(R, s))[i]
          = IF i <= m THEN Units(r, m, s)[i] ELSE Contents(R, s)[i - m]
    <3>1. PICK U \in Seq(Nat) : U = Units(r, m, s) BY <1>12
    <3>2. PICK C \in Seq(Nat) : C = Contents(R, s) BY <1>11
    <3>3. \A i \in 1..(Len(U) + Len(C)) :
            (U \o C)[i] = IF i <= Len(U) THEN U[i] ELSE C[i - Len(U)]
      BY ConcatProperties
    <3>4. Len(U) = m /\ Len(C) = L BY <1>11, <1>12, <3>1, <3>2
    <3> QED BY <3>1, <3>2, <3>3, <3>4
  <2> QED BY <2>1, <2>2, <2>3
<1>14. \A i \in 1..c : (Units(r, m, s) \o Contents(R, s))[i] = Contents(r, s)[i]
  <2> SUFFICES ASSUME NEW i \in 1..c
               PROVE  (Units(r, m, s) \o Contents(R, s))[i] = Contents(r, s)[i]
    OBVIOUS
  <2>1. CASE i <= m
    <3>1. i \in 1..m BY <1>m, <2>1
    <3> QED BY <1>12, <1>13, <2>1, <3>1
  <2>2. CASE ~(i <= m)
    <3>1. i - m \in 1..L /\ m + (i - m) = i BY <1>m, <1>9, <2>2
    <3> QED BY <1>10, <1>13, <2>2, <3>1
  <2> QED BY <2>1, <2>2
<1> QED BY <1>0, <1>11, <1>13, <1>14, SeqEqual

(* Suffixes and prefixes, by their elements.                               *)
LEMMA SuffixIs ==
  ASSUME NEW X \in Seq(Nat), NEW Y \in Seq(Nat), Len(X) <= Len(Y),
         \A i \in 1..Len(X) : X[i] = Y[Len(Y) - Len(X) + i]
  PROVE  IsSuffix(X, Y)
<1>0. PICK m \in Nat : m = Len(X) BY LenProperties
<1>1. PICK n \in Nat : n = Len(Y) BY LenProperties
<1>2. PICK A : A = [i \in 1..m |-> X[m - i + 1]] OBVIOUS
<1>3. PICK B : B = [i \in 1..n |-> Y[n - i + 1]] OBVIOUS
<1>4. Reverse(X) = A /\ Reverse(Y) = B BY <1>0, <1>1, <1>2, <1>3 DEF Reverse
<1>5. A \in Seq(Nat) /\ Len(A) = m
  <2>1. ASSUME NEW i \in 1..m PROVE X[m - i + 1] \in Nat
    <3>1. m - i + 1 \in 1..Len(X) BY <1>0
    <3> QED BY <3>1, ElementOfSeq
  <2>2. A \in [1..m -> Nat] BY <1>2, <2>1
  <2>3. A \in Seq(Nat) BY <2>2, SeqDef
  <2>4. DOMAIN A = 1..m BY <2>2
  <2> QED BY <2>3, <2>4
<1>6. B \in Seq(Nat) /\ Len(B) = n
  <2>1. ASSUME NEW i \in 1..n PROVE Y[n - i + 1] \in Nat
    <3>1. n - i + 1 \in 1..Len(Y) BY <1>1
    <3> QED BY <3>1, ElementOfSeq
  <2>2. B \in [1..n -> Nat] BY <1>3, <2>1
  <2>3. B \in Seq(Nat) BY <2>2, SeqDef
  <2>4. DOMAIN B = 1..n BY <2>2
  <2> QED BY <2>3, <2>4
<1>7. ASSUME NEW i \in 1..m PROVE A[i] = B[i]
  <2>1. PICK j \in 1..m : j = m - i + 1 OBVIOUS
  <2>2. i \in 1..n /\ n - i + 1 = n - m + j BY <1>0, <1>1, <2>1
  <2>3. X[j] = Y[n - m + j] BY <1>0, <1>1, <2>1
  <2> QED BY <1>2, <1>3, <2>1, <2>2, <2>3
<1>8. SubSeq(A, 1, m) = SubSeq(B, 1, m)
  <2>1. SubSeq(A, 1, m) = [i \in 1..m |-> A[i]] OBVIOUS
  <2>2. SubSeq(B, 1, m) = [i \in 1..m |-> B[i]] OBVIOUS
  <2> QED BY <1>7, <2>1, <2>2
<1> QED BY <1>0, <1>1, <1>4, <1>5, <1>6, <1>8 DEF IsSuffix, IsPrefix

LEMMA PrefixIs ==
  ASSUME NEW X \in Seq(Nat), NEW Y \in Seq(Nat), Len(X) < Len(Y),
         \A i \in 1..Len(X) : Y[i] = X[i]
  PROVE  IsStrictPrefix(X, Y)
<1>0. PICK m \in Nat : m = Len(X) BY LenProperties
<1>1. Len(Y) \in Nat BY LenProperties
<1>2. SubSeq(X, 1, m) = SubSeq(Y, 1, m)
  <2>1. SubSeq(X, 1, m) = [i \in 1..m |-> X[i]] OBVIOUS
  <2>2. SubSeq(Y, 1, m) = [i \in 1..m |-> Y[i]] OBVIOUS
  <2> QED BY <1>0, <2>1, <2>2
<1> QED BY <1>0, <1>1, <1>2 DEF IsPrefix, IsStrictPrefix

(* Multiples of n are n apart.                                             *)
LEMMA Quotient ==
  ASSUME NEW n \in Nat, 1 <= n, NEW a \in Nat, a % n = 0
  PROVE  \E q \in Nat : a = q * n
<1>1. a \div n \in Nat BY Z3
<1>2. a = (a \div n) * n BY Z3
<1> QED BY <1>1, <1>2

LEMMA MultipleOf ==
  ASSUME NEW n \in Nat, 1 <= n, NEW q \in Nat
  PROVE  (q * n) % n = 0
BY Z3

LEMMA MultiplesApart ==
  ASSUME NEW n \in Nat, 1 <= n, NEW a \in Nat, NEW b \in Nat,
         a % n = 0, b % n = 0, a < b
  PROVE  a + n <= b /\ (a + n) % n = 0
<1>1. PICK q \in Nat : a = q * n BY Quotient
<1>2. PICK p \in Nat : b = p * n BY Quotient
<1>3. q < p
  <2>1. ASSUME p <= q PROVE FALSE
    <3>1. PICK k \in Nat : q = p + k
      <4>1. q - p \in Nat /\ q = p + (q - p) BY <2>1
      <4> QED BY <4>1
    <3>2. q * n = p * n + k * n /\ k * n \in Nat BY <3>1
    <3> QED BY <1>1, <1>2, <3>2
  <2> QED BY <2>1
<1>4. PICK k \in Nat : p = q + 1 + k
  <2>1. p - (q + 1) \in Nat /\ p = q + 1 + (p - (q + 1)) BY <1>3
  <2> QED BY <2>1
<1>5. p * n = q * n + n + k * n /\ k * n \in Nat BY <1>4
<1>6. a + n = (q + 1) * n BY <1>1
<1>7. ((q + 1) * n) % n = 0 BY MultipleOf
<1> QED BY <1>1, <1>2, <1>5, <1>6, <1>7
-----------------------------------------------------------------------------
(* What the flush of a queueing port relies on.  Who has destinations left *)
(* goes on with the flush at once; they are not the same port; nobody      *)
(* sleeps where calls do not wait; and a source holds whole messages.      *)
Handing(t) == /\ call[t].at = "dests" /\ call[t].source \in Queueing
              /\ call[t].dests # <<>>

Alone == \A t \in AllThreads : Handing(t) => run = t
Patient == ~conf.blocking => \A o \in Ports : waiting[o] = {}
Once == \A t \in AllThreads : Handing(t) =>
          /\ IsInjective(call[t].dests)
          /\ conf.blocking => Len(call[t].dests) <= 1
Whole == \A o \in Sources : \A n \in conf.lengths : Consumed(port[o], Size(o)) % n = 0

FlushInv == Alone /\ Patient /\ Once /\ DOMAIN got = In
OrderInv == FlushInv /\ Whole

LEMMA NobodyHands ==
  ASSUME TypeOK, Alone, ~Handing(run)
  PROVE  \A t \in AllThreads : ~Handing(t)
BY DEF Alone

(* Steps of whoever has nothing to hand over, to somewhere else.           *)
LEMMA NobodyHandsNext ==
  ASSUME TypeOK, conf' = conf, \A t \in AllThreads : ~Handing(t), NEW k,
         call' = call \/ Goto(k),
         ~(k.at = "dests" /\ k.source \in Queueing /\ k.dests # <<>>)
  PROVE  \A t \in AllThreads : ~Handing(t)'
<1> SUFFICES ASSUME NEW t \in AllThreads, Handing(t)' PROVE FALSE
  OBVIOUS
<1>1. call'[t] = call[t] \/ call'[t] = k
  BY DEF Goto, TypeOK
<1> QED BY <1>1, SameSystem DEF Handing

LEMMA FlushInvNext ==
  ASSUME TypeOK, FlushInv, conf' = conf,
         \A t \in AllThreads : ~Handing(t)',
         ~conf.blocking => \A o \in Ports : waiting'[o] \subseteq waiting[o],
         DOMAIN got' = DOMAIN got
  PROVE  FlushInv'
<1>1. Alone' /\ Once' BY SameSystem DEF Alone, Once
<1>2. Patient' BY SameSystem DEF FlushInv, Patient
<1> QED BY <1>1, <1>2, SameSystem DEF FlushInv

LEMMA BroadcastQuiet ==
  ASSUME TypeOK, Patient, NEW o \in Ports, Broadcast(o)
  PROVE  /\ ~conf.blocking => \A q \in Ports : waiting'[q] \subseteq waiting[q]
         /\ ~conf.blocking => run' = run
<1>1. waiting'[o] = {} /\ \A q \in Ports \ {o} : waiting'[q] = waiting[q]
  BY BroadcastType
<1>2. ASSUME ~conf.blocking PROVE run' = run
  <2>1. waiting[o] = {} BY <1>2 DEF Patient
  <2> QED BY <2>1 DEF Broadcast
<1> QED BY <1>1, <1>2

(* What is handed over, where nobody hands anything over and where the     *)
(* processor does.                                                         *)
LEMMA QuietMap ==
  (\A t \in AllThreads : ~Handing(t)) =>
    /\ Air = [o \in Sources |-> <<>>]
    /\ Due = [o \in Sources |-> {}]
<1> SUFFICES ASSUME \A t \in AllThreads : ~Handing(t)
             PROVE  /\ Air = [o \in Sources |-> <<>>]
                    /\ Due = [o \in Sources |-> {}]
  OBVIOUS
<1>1. \A o \in Sources : Open(o) = {} BY DEF Open, Offering, Handing, Sources
<1> QED BY <1>1 DEF Air, Due

LEMMA BusyMap ==
  (run \in AllThreads /\ Alone /\ Handing(run)) =>
    /\ Air = [o \in Sources |-> IF o = call[run].source THEN Batch(call[run].len) ELSE <<>>]
    /\ Due = [o \in Sources |-> IF o = call[run].source THEN ToSet(call[run].dests) ELSE {}]
<1> SUFFICES ASSUME run \in AllThreads, Alone, Handing(run)
             PROVE  /\ Air = [o \in Sources |-> IF o = call[run].source
                                                THEN Batch(call[run].len) ELSE <<>>]
                    /\ Due = [o \in Sources |-> IF o = call[run].source
                                                THEN ToSet(call[run].dests) ELSE {}]
  OBVIOUS
<1>1. \A o \in Sources : Open(o) = IF o = call[run].source THEN {run} ELSE {}
  BY DEF Open, Offering, Handing, Sources, Alone
<1>2. (CHOOSE t \in {run} : TRUE) = run OBVIOUS
<1>3. UNION {ToSet(call[t].dests) : t \in {run}} = ToSet(call[run].dests) OBVIOUS
<1> QED BY <1>1, <1>2, <1>3 DEF Air, Due

LEMMA QuietMapNext ==
  ((\A t \in AllThreads : ~Handing(t)) =>
    /\ Air = [o \in Sources |-> <<>>]
    /\ Due = [o \in Sources |-> {}])'
BY QuietMap, PTL

LEMMA SameEnds ==
  ASSUME conf' = conf
  PROVE  /\ Sources' = Sources /\ Sinks' = Sinks /\ Ends' = Ends
         /\ \A o \in Ports : Size(o)' = Size(o)
BY SameSystem DEF Sources, Sinks, Ends, Size

LEMMA SamePorts ==
  ASSUME conf' = conf,
         \A o \in Ports \intersect Queueing :
           Contents(port'[o], Size(o)) = Contents(port[o], Size(o))
  PROVE  Held' = Held /\ Arrived' = Arrived
BY SameEnds DEF Held, Arrived, Sources, Sinks, In, Out

LEMMA ChannelSame ==
  ASSUME TypeOK, conf' = conf,
         \A t \in AllThreads : ~Handing(t), \A t \in AllThreads : ~Handing(t)',
         \A o \in Ports \intersect Queueing :
           Contents(port'[o], Size(o)) = Contents(port[o], Size(o)),
         \A o \in Sources : sent'[o] = sent[o], \A d \in Sinks : got'[d] = got[d]
  PROVE  UNCHANGED Channel!vars
<1>1. Ends' = Ends /\ Sources' = Sources /\ Sinks' = Sinks BY SameEnds
<1>2. Held' = Held /\ Arrived' = Arrived BY SamePorts
<1>3. Air = [o \in Sources |-> <<>>] /\ Due = [o \in Sources |-> {}]
  BY QuietMap
<1>4. Air' = [o \in Sources |-> <<>>] /\ Due' = [o \in Sources |-> {}]
  <2>1. (\A t \in AllThreads : ~Handing(t))' BY SameSystem
  <2> QED BY <1>1, <2>1, QuietMapNext
<1>5. /\ Restrict(sent, Sources)' = Restrict(sent, Sources)
      /\ Restrict(got, Sinks)' = Restrict(got, Sinks)
  BY <1>1 DEF Restrict
<1> QED BY <1>1, <1>2, <1>3, <1>4, <1>5 DEF Channel!vars
-----------------------------------------------------------------------------
(* A step does what the channel may do, or nothing that it sees.           *)
Simulated == Channel!Next \/ UNCHANGED Channel!vars

LEMMA QuietStep ==
  ASSUME TypeOK, OrderInv, conf' = conf, ~Handing(run), NEW k,
         call' = call \/ Goto(k),
         ~(k.at = "dests" /\ k.source \in Queueing /\ k.dests # <<>>),
         ~conf.blocking => \A o \in Ports : waiting'[o] \subseteq waiting[o],
         \A o \in Ports \intersect Queueing : SameUnits(port'[o], port[o]),
         \A o \in Sources : sent'[o] = sent[o],
         DOMAIN got' = DOMAIN got, \A d \in Sinks : got'[d] = got[d]
  PROVE  OrderInv' /\ Simulated
<1>1. \A t \in AllThreads : ~Handing(t)
  BY NobodyHands DEF OrderInv, FlushInv
<1>2. \A t \in AllThreads : ~Handing(t)'
  BY <1>1, NobodyHandsNext
<1>3. FlushInv' BY <1>2, FlushInvNext DEF OrderInv
<1>4. \A o \in Ports \intersect Queueing :
        /\ Contents(port'[o], Size(o)) = Contents(port[o], Size(o))
        /\ Consumed(port'[o], Size(o)) = Consumed(port[o], Size(o))
  BY SameContents
<1>5. Whole'
  BY <1>4, SameEnds DEF OrderInv, Whole, Sources, Out
<1>6. UNCHANGED Channel!vars BY <1>1, <1>2, <1>4, ChannelSame
<1> QED BY <1>3, <1>5, <1>6 DEF OrderInv, Simulated

LEMMA UnitsSame ==
  ASSUME port' = port
  PROVE  \A o \in Ports \intersect Queueing : SameUnits(port'[o], port[o])
BY DEF SameUnits

(* Where the flags of a port are set by hand.                              *)
LEMMA UnitsFlagged ==
  ASSUME TypeOK, NEW o \in Ports, NEW R,
         port' = [port EXCEPT ![o] = R], o \in Queueing => SameUnits(R, port[o])
  PROVE  \A q \in Ports \intersect Queueing : SameUnits(port'[q], port[q])
BY DEF TypeOK, SameUnits

LEMMA FlagsOnly ==
  ASSUME TypeOK, NEW o \in Ports
  PROVE  /\ SameUnits([port[o] EXCEPT !.ready = TRUE], port[o])
         /\ SameUnits([port[o] EXCEPT !.flush = FALSE], port[o])
<1>1. port[o] \in PortType(Size(o)) BY DEF TypeOK, Flagged
<1> QED BY <1>1 DEF PortType, SameUnits

LEMMA UserHands == ~(User.at = "dests")
BY DEF User

LEMMA TickSimulates ==
  ASSUME TypeOK, OrderInv, Tick PROVE OrderInv' /\ Simulated
<1>1. /\ conf' = conf /\ port' = port /\ waiting' = waiting /\ sent' = sent
      /\ got' = got /\ ~Handing(run)
  BY DEF Tick, AtUser, Handing, seen
<1>2. PICK k : (call' = call \/ Goto(k)) /\ k.at # "dests"
  <2>1. call' = call \/ \E k : Goto(k) /\ k.at = "next" BY GlobalSchedType DEF Tick
  <2>2. CASE call' = call BY <2>2, UserHands
  <2>3. CASE \E k : Goto(k) /\ k.at = "next" BY <2>3
  <2> QED BY <2>1, <2>2, <2>3
<1> QED BY <1>1, <1>2, UnitsSame, QuietStep

LEMMA SetNormalSimulates ==
  ASSUME TypeOK, OrderInv, SetNormal PROVE OrderInv' /\ Simulated
<1>1. /\ conf' = conf /\ port' = port /\ waiting' = waiting /\ sent' = sent
      /\ got' = got /\ ~Handing(run) /\ GlobalSched(mode', left, frame)
  BY DEF SetNormal, AtUser, Handing, seen
<1>2. PICK k : (call' = call \/ Goto(k)) /\ k.at # "dests"
  <2>1. call' = call \/ \E k : Goto(k) /\ k.at = "next" BY <1>1, GlobalSchedType
  <2>2. CASE call' = call BY <2>2, UserHands
  <2>3. CASE \E k : Goto(k) /\ k.at = "next" BY <2>3
  <2> QED BY <2>1, <2>2, <2>3
<1> QED BY <1>1, <1>2, UnitsSame, QuietStep

LEMMA EndFlushSimulates ==
  ASSUME TypeOK, OrderInv, EndFlush PROVE OrderInv' /\ Simulated
<1>1. /\ conf' = conf /\ port' = port /\ waiting' = waiting /\ sent' = sent
      /\ got' = got /\ ~Handing(run) /\ Goto(User)
  BY DEF EndFlush, At, Handing, seen
<1> QED BY <1>1, UserHands, UnitsSame, QuietStep

LEMMA FlushClearSimulates ==
  ASSUME TypeOK, OrderInv, FlushClear PROVE OrderInv' /\ Simulated
<1>0. PICK o \in Ports : o = call[run].source
  BY InStep DEF FlushClear, At, InFlight
<1>1. /\ conf' = conf /\ waiting' = waiting /\ sent' = sent /\ got' = got
      /\ ~Handing(run) /\ Goto(Flushing(call[run].todo))
      /\ port' = [port EXCEPT ![o] = [port[o] EXCEPT !.flush = FALSE]]
  BY <1>0 DEF FlushClear, At, Handing, seen
<1>2. \A q \in Ports \intersect Queueing : SameUnits(port'[q], port[q])
  BY <1>1, FlagsOnly, UnitsFlagged
<1>3. Flushing(call[run].todo).at # "dests" BY DEF Flushing
<1> QED BY <1>1, <1>2, <1>3, QuietStep

LEMMA FlushSourceSimulates ==
  ASSUME TypeOK, OrderInv, FlushSource PROVE OrderInv' /\ Simulated
<1>0. PICK o \in Ports : o = call[run].source
  BY InStep DEF FlushSource, At, InFlight
<1>1. /\ conf' = conf /\ port' = port /\ sent' = sent /\ got' = got
      /\ ~Handing(run) /\ Broadcast(o)
  BY <1>0 DEF FlushSource, Handing, seen
<1>2. PICK k : Goto(k) /\ k.at = "clear"
  <2>1. call[run] \in StepType BY InStep DEF FlushSource, At, InFlight
  <2>2. [call[run] EXCEPT !.at = "clear"].at = "clear" BY <2>1 DEF StepType
  <2> QED BY <2>2 DEF FlushSource
<1>3. ~conf.blocking => \A q \in Ports : waiting'[q] \subseteq waiting[q]
  BY <1>1, BroadcastQuiet DEF OrderInv, FlushInv
<1> QED BY <1>1, <1>2, <1>3, UnitsSame, QuietStep

LEMMA CreateSimulates ==
  ASSUME TypeOK, OrderInv, NEW o \in Ports, Create(o) PROVE OrderInv' /\ Simulated
<1>1. /\ conf' = conf /\ waiting' = waiting /\ sent' = sent /\ got' = got
      /\ ~Handing(run) /\ call' = call
      /\ port' = [port EXCEPT ![o] = [port[o] EXCEPT !.ready = TRUE]]
  BY DEF Create, AtUser, Handing, seen, threads
<1>2. \A q \in Ports \intersect Queueing : SameUnits(port'[q], port[q])
  BY <1>1, FlagsOnly, UnitsFlagged
<1> QED BY <1>1, <1>2, UserHands, QuietStep

LEMMA TimedOutSimulates ==
  ASSUME TypeOK, OrderInv, NEW o \in Ports, TimedOut(o) PROVE OrderInv' /\ Simulated
<1>1. /\ conf' = conf /\ port' = port /\ sent' = sent /\ got' = got
      /\ ~Handing(run) /\ Goto(User)
  BY DEF TimedOut, At, Handing, seen
<1>2. \A q \in Ports : waiting'[q] \subseteq waiting[q]
  BY DEF TimedOut, TypeOK
<1> QED BY <1>1, <1>2, UserHands, UnitsSame, QuietStep

LEMMA WriteSimulates ==
  ASSUME TypeOK, OrderInv, NEW o \in Ports, Write(o) PROVE OrderInv' /\ Simulated
<1>1. /\ conf' = conf /\ waiting' = waiting /\ got' = got
      /\ ~Handing(run) /\ call' = call /\ o \notin Queueing
  BY DEF Write, Uses, AtUser, Handing, threads
<1>2. /\ port' = [port EXCEPT ![o] = port'[o]]
      /\ sent' = [sent EXCEPT ![o] = sent'[o]]
  BY WriteKeeps
<1>3. \A q \in Ports \intersect Queueing : SameUnits(port'[q], port[q])
  BY <1>1, <1>2 DEF TypeOK, SameUnits
<1>4. \A q \in Sources : sent'[q] = sent[q]
  BY <1>1, <1>2 DEF TypeOK, Sources
<1> QED BY <1>1, <1>3, <1>4, UserHands, QuietStep

LEMMA ReadSimulates ==
  ASSUME TypeOK, OrderInv, NEW d \in Ports, Read(d) PROVE OrderInv' /\ Simulated
<1>1. /\ conf' = conf /\ port' = port /\ waiting' = waiting /\ sent' = sent
      /\ ~Handing(run) /\ call' = call /\ d \notin Queueing
      /\ got' = [got EXCEPT ![d] = <<port[d].data[0]>>]
  BY DEF Read, Uses, AtUser, Handing, threads
<1>2. DOMAIN got' = DOMAIN got /\ \A q \in Sinks : got'[q] = got[q]
  BY <1>1 DEF Sinks
<1> QED BY <1>1, <1>2, UnitsSame, UserHands, QuietStep

(* A call that begins to wait.                                             *)
LEMMA WaitSimulates ==
  ASSUME TypeOK, OrderInv, NEW o \in Ports, NEW n, MayTry(o, n), Wait(o, n),
         conf' = conf
  PROVE  OrderInv' /\ Simulated
<1>1. /\ port' = port /\ sent' = sent /\ got' = got /\ Goto(Calling(o, n))
      /\ conf.blocking
  BY DEF Wait, seen
<1>2. ~Handing(run) BY Trying DEF At, Handing
<1>3. Calling(o, n).at # "dests" BY DEF Calling
<1> QED BY <1>1, <1>2, <1>3, UnitsSame, QuietStep

(* Messages enter the channel.                                             *)
LEMMA ChannelOrder ==
  ASSUME NEW X, NEW Y
  PROVE  /\ Channel!IsStrictPrefix(X, Y) <=> IsStrictPrefix(X, Y)
         /\ Channel!IsSuffix(X, Y) <=> IsSuffix(X, Y)
BY DEF Channel!IsStrictPrefix, Channel!IsPrefix, Channel!IsSuffix, Channel!Reverse,
       IsStrictPrefix, IsPrefix, IsSuffix, Reverse

LEMMA RingOf ==
  ASSUME TypeOK, NEW o \in Ports \intersect Queueing, NEW r, Flagged(o, r)
  PROVE  Ring(r, Size(o)) /\ Size(o) \in Nat /\ 1 <= Size(o)
BY Sizes DEF Flagged, Ring

(* The places of the channel that a step of port o changes.                *)
LEMMA HeldReplaced ==
  ASSUME conf' = conf, NEW o \in Sources,
         \A q \in Sources \ {o} : Contents(port'[q], Size(q)) = Contents(port[q], Size(q))
  PROVE  /\ Held[o] = Contents(port[o], Size(o))
         /\ Held'[o] = Contents(port'[o], Size(o))
         /\ Held' = [Held EXCEPT ![o] = Held'[o]]
<1>1. Held' = [q \in Sources |-> Contents(port'[q], Size(q))]
  BY SameEnds DEF Held, Sources, Out
<1> QED BY <1>1 DEF Held

LEMMA ArrivedReplaced ==
  ASSUME conf' = conf, NEW d \in Sinks,
         \A q \in Sinks \ {d} : Contents(port'[q], Size(q)) = Contents(port[q], Size(q))
  PROVE  /\ Arrived[d] = Contents(port[d], Size(d))
         /\ Arrived'[d] = Contents(port'[d], Size(d))
         /\ Arrived' = [Arrived EXCEPT ![d] = Arrived'[d]]
<1>1. Arrived' = [q \in Sinks |-> Contents(port'[q], Size(q))]
  BY SameEnds DEF Arrived, Sinks, In
<1> QED BY <1>1 DEF Arrived

LEMMA QuietAir ==
  ASSUME TypeOK, conf' = conf,
         \A t \in AllThreads : ~Handing(t), \A t \in AllThreads : ~Handing(t)'
  PROVE  Air' = Air /\ Due' = Due
<1>1. Sources' = Sources BY SameEnds
<1>2. (\A t \in AllThreads : ~Handing(t))' BY SameSystem
<1> QED BY <1>1, <1>2, QuietMap, QuietMapNext

(* A message that is accepted fits as a whole, behind what the port holds. *)
LEMMA PutContents ==
  ASSUME TypeOK, OrderInv, Orderly(conf), NEW o \in Sources, port[o].ready,
         NEW n \in conf.lengths, n <= Size(o), Fits(o, n), Put(o, n)
  PROVE  /\ IsStrictPrefix(Contents(port[o], Size(o)), Contents(port'[o], Size(o)))
         /\ \A i \in (Len(Contents(port[o], Size(o))) + 1)..Len(Contents(port'[o], Size(o))) :
              Contents(port'[o], Size(o))[i] = sent'[o]
         /\ Consumed(port'[o], Size(o)) % n = 0
<1>0. /\ o \in Ports \intersect Queueing /\ o \in Ports /\ o \in Out
      /\ Flagged(o, port[o])
  BY DEF Sources, Out, TypeOK
<1>n. n \in Nat /\ 1 <= n BY Configured DEF Consistent
<1>1. PICK s \in Nat : s = Size(o) /\ 1 <= s BY <1>0, RingOf
<1>2. PICK r : r = port[o] OBVIOUS
<1>3. Ring(r, s) BY <1>0, <1>1, <1>2, RingOf
<1>4. ~r.full
  <2>1. r.full => Available(r, s) = 0 BY DEF Available
  <2> QED BY <1>1, <1>2, <1>n, <2>1 DEF Fits
<1>5. PICK m \in Nat : m = sent'[o]
  BY <1>0 DEF Put, TypeOK
<1>6. PICK u : u = [i \in 1..n |-> m] OBVIOUS
<1>7. u \in [1..n -> Nat] /\ \A i \in 1..n : u[i] = m BY <1>6
<1>8. PICK R : R = Written(r, u, s) OBVIOUS
<1>9. Flagged(o, R)
  BY <1>0, <1>1, <1>2, <1>7, <1>8, <1>n, WrittenKeeps
<1>10. Ring(R, s) BY <1>0, <1>1, <1>9, RingOf
<1>11. SameUnits(port'[o], R)
  <2>1. port' = [port EXCEPT ![o] = [R EXCEPT !.flush = TRUE]]
    BY <1>1, <1>2, <1>5, <1>6, <1>8 DEF Put
  <2>2. port'[o] = [R EXCEPT !.flush = TRUE] BY <1>0, <2>1 DEF TypeOK
  <2> QED BY <1>10, <2>2 DEF Ring, PortType, SameUnits
<1>12. /\ Contents(port'[o], s) = Contents(R, s)
       /\ Consumed(port'[o], s) = Consumed(R, s)
  BY <1>11, SameContents
<1>13. PICK c \in 0..s : c = Consumed(r, s) BY <1>1, <1>3, RingEnd
<1>14. c < s BY <1>1, <1>3, <1>4, <1>13, RingEnd
<1>15. c + n <= s /\ (c + n) % n = 0
  <2>1. c % n = 0 BY <1>1, <1>2, <1>13 DEF OrderInv, Whole
  <2>2. s % n = 0
    <3>1. conf.direction[o] = "OUT" /\ conf.queueing[o] /\ o \in DOMAIN conf.owner
      BY <1>0, Configured DEF Consistent, Out, In, Ports, Queueing
    <3> QED BY <1>1, <3>1 DEF Orderly, Size
  <2>3. c \in Nat BY <1>1, <1>13
  <2> QED BY <1>n, <1>14, <2>1, <2>2, <2>3, MultiplesApart, Zenon
<1>16. n \in 1..s BY <1>1, <1>n
<1>17. Consumed(R, s) = c + n
  <2>1. Consumed(R, s) = IF c + n <= s THEN c + n ELSE c + n - s
    BY <1>3, <1>4, <1>7, <1>8, <1>10, <1>13, <1>16, WrittenContents
  <2> QED BY <1>15, <2>1
<1>18. ASSUME NEW i \in 1..(c + n)
       PROVE  Contents(R, s)[i] = IF i <= c THEN Contents(r, s)[i] ELSE m
  <2>1. Contents(R, s)[i] = LET k == c + n - (c + n) + i
                            IN  IF k <= c THEN Contents(r, s)[k] ELSE u[k - c]
    BY <1>3, <1>4, <1>7, <1>8, <1>10, <1>13, <1>16, <1>17, WrittenContents
  <2>2. c + n - (c + n) + i = i BY <1>n
  <2>3. Contents(R, s)[i] = IF i <= c THEN Contents(r, s)[i] ELSE u[i - c]
    BY <2>1, <2>2
  <2>4. ~(i <= c) => i - c \in 1..n BY <1>n
  <2> QED BY <1>7, <2>3, <2>4
<1>19. /\ Contents(r, s) \in Seq(Nat) /\ Len(Contents(r, s)) = c
       /\ Contents(R, s) \in Seq(Nat) /\ Len(Contents(R, s)) = c + n
  BY <1>1, <1>3, <1>10, <1>13, <1>17, ContentsAreUnits
<1>20. IsStrictPrefix(Contents(r, s), Contents(R, s))
  <2>1. c < c + n BY <1>n
  <2>2. \A i \in 1..c : Contents(R, s)[i] = Contents(r, s)[i]
    BY <1>18, <1>n
  <2> QED BY <1>19, <2>1, <2>2, PrefixIs
<1>21. \A i \in (c + 1)..(c + n) : Contents(R, s)[i] = m BY <1>18
<1> QED BY <1>1, <1>2, <1>5, <1>12, <1>15, <1>17, <1>19, <1>20, <1>21

LEMMA PutSimulates ==
  ASSUME TypeOK, OrderInv, Orderly(conf), NEW o \in Sources, port[o].ready,
         NEW n \in conf.lengths, n <= Size(o), Fits(o, n), MayTry(o, n), Put(o, n),
         conf' = conf
  PROVE  OrderInv' /\ Simulated
<1>0. o \in Ports /\ o \in Queueing /\ o \in Out /\ n \in Nat
  BY Configured DEF Sources, Out, Consistent
<1>1. waiting' = waiting /\ got' = got /\ Goto(User) BY DEF Put
<1>2. \A t \in AllThreads : ~Handing(t)
  BY Trying, NobodyHands DEF OrderInv, FlushInv, Handing, At
<1>3. \A t \in AllThreads : ~Handing(t)'
  BY <1>1, <1>2, UserHands, NobodyHandsNext DEF Put
<1>4. FlushInv' BY <1>1, <1>3, FlushInvNext DEF OrderInv
<1>5. \A q \in Ports \ {o} : port'[q] = port[q]
  BY <1>0, PutKeeps DEF TypeOK
<1>6. Whole'
  <2> SUFFICES ASSUME NEW q \in Sources, NEW m \in conf.lengths
               PROVE  Consumed(port'[q], Size(q)) % m = 0
    BY SameEnds DEF Whole, Sources, Out
  <2>1. m = n BY DEF Orderly
  <2>2. CASE q = o BY <2>1, <2>2, PutContents
  <2>3. CASE q # o BY <1>5, <2>3 DEF OrderInv, Whole, Sources, Out
  <2> QED BY <2>2, <2>3
<1>7. Channel!Send(o)
  <2>1. /\ Held[o] = Contents(port[o], Size(o))
        /\ Held'[o] = Contents(port'[o], Size(o))
        /\ Held' = [Held EXCEPT ![o] = Held'[o]]
    BY <1>5, HeldReplaced DEF Sources, Out
  <2>2. Arrived' = Arrived
    <3>1. \A q \in Sinks : port'[q] = port[q] BY <1>0, <1>5 DEF Sinks, Out, In
    <3> QED BY <3>1, SameEnds DEF Arrived, Sinks, In
  <2>3. Ends' = Ends /\ Air' = Air /\ Due' = Due BY <1>2, <1>3, QuietAir, SameEnds
  <2>4. Restrict(got, Sinks)' = Restrict(got, Sinks) BY <1>1, SameEnds DEF Restrict
  <2>5. /\ Restrict(sent, Sources)' = [Restrict(sent, Sources) EXCEPT ![o] = @ + 1]
        /\ Restrict(sent, Sources)'[o] = sent'[o]
    BY SameEnds DEF Restrict, Put, TypeOK, Sources
  <2>6. /\ IsStrictPrefix(Held[o], Held'[o])
        /\ \A i \in (Len(Held[o]) + 1)..Len(Held'[o]) :
             Held'[o][i] = Restrict(sent, Sources)'[o]
    BY <2>1, <2>5, PutContents
  <2>7. Channel!IsStrictPrefix(Held[o], Held'[o]) BY <2>6, ChannelOrder
  <2> QED BY <2>1, <2>2, <2>3, <2>4, <2>5, <2>6, <2>7 DEF Channel!Send
<1>8. o \in DOMAIN Ends BY DEF Ends
<1>9. Simulated BY <1>7, <1>8 DEF Simulated, Channel!Next
<1> QED BY <1>4, <1>6, <1>9 DEF OrderInv

LEMMA SendSimulates ==
  ASSUME TypeOK, OrderInv, Orderly(conf), NEW o \in Ports, NEW n \in conf.lengths,
         Send(o, n)
  PROVE  OrderInv' /\ Simulated
<1>1. o \in Sources /\ port[o].ready /\ n <= Size(o) /\ MayTry(o, n) /\ conf' = conf
  BY DEF Send
<1>2. CASE Fits(o, n)
  BY <1>1, <1>2, PutSimulates DEF Send
<1>3. CASE ~Fits(o, n)
  BY <1>1, <1>3, WaitSimulates DEF Send
<1> QED BY <1>2, <1>3

(* A receiver gets what came first.                                        *)
LEMMA TakeContents ==
  ASSUME TypeOK, NEW d \in Sinks, ~port[d].empty, NEW n \in conf.most, Take(d, n),
         DOMAIN got = In
  PROVE  /\ got'[d] # <<>>
         /\ Contents(port[d], Size(d)) = got'[d] \o Contents(port'[d], Size(d))
         /\ DOMAIN got' = In /\ \A q \in In \ {d} : got'[q] = got[q]
<1>0. /\ d \in Ports \intersect Queueing /\ d \in In \intersect Queueing
      /\ d \in In /\ d \in Ports /\ Flagged(d, port[d])
  BY DEF Sinks, In, TypeOK
<1>n. n \in Nat /\ 1 <= n BY Configured DEF Consistent
<1>1. PICK s \in Nat : s = Size(d) /\ 1 <= s BY <1>0, RingOf
<1>2. PICK r : r = port[d] OBVIOUS
<1>3. Ring(r, s) BY <1>0, <1>1, <1>2, RingOf
<1>4. PICK c \in 1..s : c = Consumed(r, s) BY <1>1, <1>2, <1>3, RingEnd
<1>5. PICK m \in 1..c : m = IF n < c THEN n ELSE c BY <1>n
<1>6. /\ got' = [got EXCEPT ![d] = Units(r, m, s)]
      /\ port' = [port EXCEPT ![d] = Got(r, m, s)]
  BY <1>1, <1>2, <1>4, <1>5 DEF Take
<1>7. got'[d] = Units(r, m, s) /\ port'[d] = Got(r, m, s)
  BY <1>0, <1>6 DEF TypeOK
<1>g. DOMAIN got' = In /\ \A q \in In \ {d} : got'[q] = got[q] BY <1>6
<1>8. Flagged(d, port'[d])
  BY <1>0, <1>n, TakeKeeps
<1>9. Ring(Got(r, m, s), s) BY <1>0, <1>1, <1>7, <1>8, RingOf
<1>10. Contents(r, s) = Units(r, m, s) \o Contents(Got(r, m, s), s)
  BY <1>1, <1>2, <1>3, <1>4, <1>9, GotContents
<1>11. Units(r, m, s) # <<>>
  <2>1. Units(r, m, s) \in Seq(Nat) /\ Len(Units(r, m, s)) = m
    BY <1>1, <1>3, UnitsAreNumbers
  <2> QED BY <2>1, EmptySeq
<1> QED BY <1>1, <1>2, <1>7, <1>g, <1>10, <1>11

LEMMA TakeSimulates ==
  ASSUME TypeOK, OrderInv, NEW d \in Sinks, ~port[d].empty,
         NEW n \in conf.most, MayTry(d, n), Take(d, n), conf' = conf
  PROVE  OrderInv' /\ Simulated
<1>0. d \in Ports /\ d \in In /\ d \in In \intersect Queueing /\ n \in Nat
  BY Configured DEF Sinks, In, Consistent
<1>1. waiting' = waiting /\ sent' = sent /\ Goto(User) /\ DOMAIN got = In
  BY DEF Take, OrderInv, FlushInv
<1>2. \A t \in AllThreads : ~Handing(t)
  BY Trying, NobodyHands DEF OrderInv, FlushInv, Handing, At
<1>3. \A t \in AllThreads : ~Handing(t)'
  BY <1>1, <1>2, UserHands, NobodyHandsNext DEF Take
<1>4. /\ got'[d] # <<>>
      /\ Contents(port[d], Size(d)) = got'[d] \o Contents(port'[d], Size(d))
      /\ DOMAIN got' = In /\ \A q \in In \ {d} : got'[q] = got[q]
  BY <1>1, TakeContents
<1>5. FlushInv' BY <1>1, <1>3, <1>4, FlushInvNext DEF OrderInv
<1>6. \A q \in Ports \ {d} : port'[q] = port[q]
  BY <1>0, TakeKeeps DEF TypeOK
<1>7. \A q \in Sources : port'[q] = port[q]
  BY <1>0, <1>6 DEF Sources, Out
<1>8. Whole' BY <1>7, SameEnds DEF OrderInv, Whole, Sources, Out
<1>9. Channel!Receive(d)
  <2>1. /\ Arrived[d] = Contents(port[d], Size(d))
        /\ Arrived'[d] = Contents(port'[d], Size(d))
        /\ Arrived' = [Arrived EXCEPT ![d] = Arrived'[d]]
    BY <1>6, ArrivedReplaced DEF Sinks, In
  <2>2. Held' = Held BY <1>7, SameEnds DEF Held, Sources, Out
  <2>3. Ends' = Ends /\ Air' = Air /\ Due' = Due BY <1>2, <1>3, QuietAir, SameEnds
  <2>4. Restrict(sent, Sources)' = Restrict(sent, Sources) BY <1>1, SameEnds DEF Restrict
  <2>5. /\ Restrict(got, Sinks)' = [Restrict(got, Sinks) EXCEPT ![d] = Restrict(got, Sinks)'[d]]
        /\ Restrict(got, Sinks)'[d] = got'[d]
    <3>1. \A q \in Sinks \ {d} : got'[q] = got[q] BY <1>4 DEF Sinks
    <3> QED BY <3>1, SameEnds DEF Restrict
  <2>6. /\ Restrict(got, Sinks)'[d] # <<>>
        /\ Arrived[d] = Restrict(got, Sinks)'[d] \o Arrived'[d]
    BY <1>4, <2>1, <2>5
  <2> QED BY <2>1, <2>2, <2>3, <2>4, <2>5, <2>6 DEF Channel!Receive
<1>10. d \in DOMAIN Arrived BY DEF Arrived
<1>11. Simulated BY <1>9, <1>10 DEF Simulated, Channel!Next
<1> QED BY <1>5, <1>8, <1>11 DEF OrderInv

LEMMA ReceiveSimulates ==
  ASSUME TypeOK, OrderInv, NEW d \in Ports, NEW n \in conf.most, Receive(d, n)
  PROVE  OrderInv' /\ Simulated
<1>1. d \in Sinks /\ MayTry(d, n) /\ conf' = conf
  BY DEF Receive
<1>2. CASE port[d].empty
  BY <1>1, <1>2, WaitSimulates DEF Receive
<1>3. CASE ~port[d].empty
  BY <1>1, <1>3, TakeSimulates DEF Receive
<1> QED BY <1>2, <1>3

(* The flush takes what a source holds, ...                                *)
LEMMA BusyMapNext ==
  ((run \in AllThreads /\ Alone /\ Handing(run)) =>
    /\ Air = [o \in Sources |-> IF o = call[run].source THEN Batch(call[run].len) ELSE <<>>]
    /\ Due = [o \in Sources |-> IF o = call[run].source THEN ToSet(call[run].dests) ELSE {}])'
BY BusyMap, PTL

(* What the port held is in the buffer, and the port is empty.             *)
LEMMA FetchedAll ==
  ASSUME TypeOK, NEW o \in Sources, ~port[o].empty, NEW n, n = Consumed(port[o], Size(o)),
         Fetch(o, n), port' = [port EXCEPT ![o] = Got(port[o], n, Size(o))]
  PROVE  /\ n \in 1..MaxSize
         /\ Contents(port[o], Size(o)) # <<>>
         /\ [i \in 1..n |-> buffer'[i]] = Contents(port[o], Size(o))
         /\ Contents(port'[o], Size(o)) = <<>>
         /\ Consumed(port'[o], Size(o)) = 0
<1>0. o \in Ports \intersect Queueing /\ o \in Ports /\ Flagged(o, port[o])
  BY DEF Sources, Out, TypeOK
<1>1. PICK s \in Nat : s = Size(o) /\ 1 <= s /\ s <= MaxSize BY <1>0, Sizes
<1>2. PICK r : r = port[o] OBVIOUS
<1>3. Ring(r, s) /\ r \in PortType(s) BY <1>0, <1>1, <1>2, RingOf DEF Ring
<1>4. n = Consumed(r, s) /\ n \in 1..s /\ n \in Nat
  BY <1>1, <1>2, <1>3, RingEnd
<1>5. n \in 1..MaxSize BY <1>1, <1>4, Limits
<1>6. /\ Contents(r, s) \in Seq(Nat) /\ Len(Contents(r, s)) = n
      /\ Contents(r, s) = Units(r, n, s)
  BY <1>1, <1>3, <1>4, ContentsAreUnits DEF Contents
<1>7. Contents(r, s) # <<>> BY <1>4, <1>6, EmptySeq
<1>8. [i \in 1..n |-> buffer'[i]] = Units(r, n, s)
  <2>1. DOMAIN buffer = 1..MaxSize BY DEF TypeOK
  <2>2. \A i \in 1..n : i \in 1..MaxSize /\ ~(i > n) BY <1>4, <1>5, Limits
  <2>3. \A i \in 1..n : buffer'[i] = Units(r, n, s)[i]
    BY <1>1, <1>2, <2>1, <2>2 DEF Fetch
  <2> QED BY <2>3 DEF Units
<1>9. Got(r, n, s).empty = TRUE BY <1>1, <1>2, <1>3, <1>4, GotAll
<1>10. port'[o] = Got(r, n, s) BY <1>0, <1>1, <1>2 DEF TypeOK
<1>11. Consumed(port'[o], s) = 0 BY <1>9, <1>10 DEF Consumed
<1>12. Contents(port'[o], s) = <<>>
  <2>1. Contents(port'[o], s) = Units(port'[o], 0, s) BY <1>11 DEF Contents
  <2> QED BY <2>1 DEF Units
<1> QED BY <1>1, <1>2, <1>5, <1>6, <1>7, <1>8, <1>11, <1>12

LEMMA FlushPortSimulates ==
  ASSUME TypeOK, OrderInv, Orderly(conf), FlushPort PROVE OrderInv' /\ Simulated
<1>0. /\ conf' = conf /\ waiting' = waiting /\ run' = run /\ sent' = sent
      /\ got' = got /\ ~Handing(run) /\ run \in AllThreads
  BY DEF FlushPort, At, Handing, seen, TypeOK
<1>1. PICK o \in call[run].todo :
        LET n    == Consumed(port[o], Size(o))
            rest == call[run].todo \ {o}
        IN  IF ToFlush(o)
            THEN /\ Fetch(o, n)
                 /\ port' = [port EXCEPT ![o] = IF o \in Queueing THEN Got(@, n, Size(o)) ELSE @]
                 /\ Goto([at |-> "dests", todo |-> rest, source |-> o, len |-> n,
                          dests |-> conf.destinations[o]])
            ELSE Goto(Flushing(rest)) /\ UNCHANGED <<port, buffer>>
  BY DEF FlushPort
<1> DEFINE n == Consumed(port[o], Size(o))
           k == [at |-> "dests", todo |-> call[run].todo \ {o}, source |-> o,
                 len |-> n, dests |-> conf.destinations[o]]
<1>2. o \in Out /\ o \in Ports
  BY CallAt DEF FlushPort, At, NextType, TypeOK, Out
<1>3. CASE ~ToFlush(o)
  <2>1. Goto(Flushing(call[run].todo \ {o})) /\ port' = port BY <1>1, <1>3
  <2>2. Flushing(call[run].todo \ {o}).at # "dests" BY DEF Flushing
  <2> QED BY <1>0, <2>1, <2>2, UnitsSame, QuietStep
<1>4. CASE ToFlush(o) /\ o \notin Queueing
  <2>1. Goto(k) /\ port' = [port EXCEPT ![o] = port[o]] BY <1>1, <1>4
  <2>2. k.source \notin Queueing BY <1>4
  <2>3. \A q \in Ports \intersect Queueing : SameUnits(port'[q], port[q])
    BY <1>2, <1>4, <2>1, UnitsFlagged
  <2> QED BY <1>0, <2>1, <2>2, <2>3, QuietStep
<1>5. CASE ToFlush(o) /\ o \in Queueing
  <2>0. o \in Sources /\ ~port[o].empty BY <1>2, <1>5 DEF Sources, ToFlush
  <2>1. /\ Goto(k) /\ Fetch(o, n)
        /\ port' = [port EXCEPT ![o] = Got(port[o], n, Size(o))]
    BY <1>1, <1>5
  <2>2. /\ k.at = "dests" /\ k.source = o /\ k.len = n /\ k.dests = conf.destinations[o]
    OBVIOUS
  <2>3. /\ n \in 1..MaxSize /\ Contents(port[o], Size(o)) # <<>>
        /\ [i \in 1..n |-> buffer'[i]] = Contents(port[o], Size(o))
        /\ Contents(port'[o], Size(o)) = <<>> /\ Consumed(port'[o], Size(o)) = 0
    BY <2>0, <2>1, FetchedAll
  <2> HIDE DEF k, n
  <2>4. \A q \in Ports \ {o} : port'[q] = port[q] BY <2>1 DEF TypeOK
  <2>5. /\ call'[run] = k /\ \A t \in AllThreads \ {run} : call'[t] = call[t]
    BY <1>0, <2>1 DEF Goto, TypeOK
  <2>6. \A t \in AllThreads : ~Handing(t)
    BY <1>0, NobodyHands DEF OrderInv, FlushInv
  <2>7. \A t \in AllThreads \ {run} : ~Handing(t)'
    BY <1>0, <2>5, <2>6, SameSystem DEF Handing
  <2>8. /\ IsInjective(conf.destinations[o])
        /\ conf.blocking => Len(conf.destinations[o]) <= 1
    <3>1. conf.direction[o] = "OUT" /\ conf.queueing[o] /\ o \in DOMAIN conf.owner
      BY <1>2, <1>5, Configured DEF Consistent, Out, In, Ports, Queueing
    <3> QED BY <3>1 DEF Orderly
  <2>9. FlushInv'
    <3>1. Alone' BY <1>0, <2>7, SameSystem DEF Alone
    <3>2. Once' BY <1>0, <2>2, <2>5, <2>7, <2>8, SameSystem DEF Once
    <3>3. Patient' BY <1>0, SameSystem DEF OrderInv, FlushInv, Patient
    <3>4. DOMAIN got' = In' BY <1>0, SameSystem DEF OrderInv, FlushInv
    <3> QED BY <3>1, <3>2, <3>3, <3>4 DEF FlushInv
  <2>10. Whole'
    <3> SUFFICES ASSUME NEW q \in Sources, NEW m \in conf.lengths
                 PROVE  Consumed(port'[q], Size(q)) % m = 0
      BY <1>0, SameEnds DEF Whole, Sources, Out
    <3>1. CASE q = o
      <4>1. m \in Nat /\ 1 <= m BY Configured DEF Consistent
      <4>2. 0 % m = 0 BY <4>1
      <4> QED BY <2>3, <3>1, <4>2
    <3>2. CASE q # o BY <2>4, <3>2 DEF OrderInv, Whole, Sources, Out
    <3> QED BY <3>1, <3>2
  <2>11. /\ Held[o] = Contents(port[o], Size(o))
         /\ Held'[o] = Contents(port'[o], Size(o))
         /\ Held' = [Held EXCEPT ![o] = Held'[o]]
    BY <1>0, <2>0, <2>4, HeldReplaced DEF Sources, Out
  <2>12. Arrived' = Arrived
    <3>1. \A q \in Sinks : port'[q] = port[q] BY <1>2, <2>4 DEF Sinks, Out, In
    <3> QED BY <1>0, <3>1, SameEnds DEF Arrived, Sinks, In
  <2>13. /\ Ends' = Ends /\ Sources' = Sources
         /\ Restrict(sent, Sources)' = Restrict(sent, Sources)
         /\ Restrict(got, Sinks)' = Restrict(got, Sinks)
    BY <1>0, SameEnds DEF Restrict
  <2>14. Air = [q \in Sources |-> <<>>] /\ Due = [q \in Sources |-> {}]
    BY <2>6, QuietMap
  <2>15. Ends[o] = ToSet(conf.destinations[o]) BY <2>0 DEF Ends
  <2>16. /\ Air' = [Air EXCEPT ![o] = IF Ends[o] = {} THEN <<>> ELSE Held[o]]
         /\ Due' = [Due EXCEPT ![o] = Ends[o]]
    <3>1. CASE conf.destinations[o] = <<>>
      <4>1. (\A t \in AllThreads : ~Handing(t))'
        BY <1>0, <2>2, <2>5, <2>7, <3>1, SameSystem DEF Handing
      <4>2. Ends[o] = {} BY <2>15, <3>1 DEF ToSet
      <4> QED BY <2>13, <2>14, <4>1, <4>2, QuietMapNext
    <3>2. CASE conf.destinations[o] # <<>>
      <4>1. Handing(run)'
        BY <1>0, <1>5, <2>2, <2>5, <3>2, SameSystem DEF Handing
      <4>2. (run \in AllThreads)' BY <1>0, SameSystem
      <4>3. Alone' BY <2>9 DEF FlushInv
      <4>4. call'[run'].source = o /\ call'[run'].len = n
            /\ call'[run'].dests = conf.destinations[o]
        BY <1>0, <2>2, <2>5
      <4>5. Batch(call[run].len)' = Held[o] BY <2>3, <2>11, <4>4 DEF Batch
      <4>6. Ends[o] # {}
        <5>1. conf.destinations[o] \in Seq(Ports) BY <1>2, Destinations
        <5>2. Head(conf.destinations[o]) \in ToSet(conf.destinations[o])
          BY <3>2, <5>1, Popped
        <5> QED BY <2>15, <5>2
      <4>7. /\ Air' = [q \in Sources |-> IF q = o THEN Held[o] ELSE <<>>]
            /\ Due' = [q \in Sources |-> IF q = o THEN Ends[o] ELSE {}]
        <5>1. /\ Air' = [q \in Sources' |-> IF q = call'[run'].source
                                            THEN Batch(call[run].len)' ELSE <<>>]
              /\ Due' = [q \in Sources' |-> IF q = call'[run'].source
                                            THEN ToSet(call'[run'].dests) ELSE {}]
          BY <4>1, <4>2, <4>3, BusyMapNext
        <5> QED BY <2>13, <2>15, <4>4, <4>5, <5>1
      <4> QED BY <2>14, <4>6, <4>7
    <3> QED BY <3>1, <3>2
  <2>17. Channel!Take(o)
    <3>1. Due[o] = {} BY <2>0, <2>14
    <3>2. Held[o] # <<>> /\ Held' = [Held EXCEPT ![o] = <<>>] BY <2>3, <2>11
    <3> QED BY <2>12, <2>13, <2>16, <3>1, <3>2 DEF Channel!Take
  <2>18. o \in DOMAIN Ends BY <2>0 DEF Ends
  <2>19. Simulated BY <2>17, <2>18 DEF Simulated, Channel!Next
  <2> QED BY <2>9, <2>10, <2>19 DEF OrderInv
<1> QED BY <1>3, <1>4, <1>5

(* A destination holds the end of what it held and was offered.            *)
LEMMA DeliveredContents ==
  ASSUME TypeOK, NEW d \in Sinks, port[d].ready, NEW n \in 1..MaxSize
  PROVE  \/ Delivered(d, n) = port[d]
         \/ IsSuffix(Contents(Delivered(d, n), Size(d)), Contents(port[d], Size(d)) \o Batch(n))
<1>0. /\ d \in Ports \intersect Queueing /\ d \in In \intersect Queueing /\ d \in In
      /\ d \in Queueing /\ d \in Ports /\ Flagged(d, port[d])
  BY DEF Sinks, In, TypeOK
<1>1. PICK s \in Nat : s = Size(d) /\ 1 <= s /\ s <= MaxSize BY <1>0, Sizes
<1>2. PICK r : r = port[d] OBVIOUS
<1>3. Ring(r, s) BY <1>0, <1>1, <1>2, RingOf
<1>4. PICK u : u = Batch(n) OBVIOUS
<1>n. n \in Nat /\ 1 <= n BY Limits
<1>5. u \in [1..n -> Nat]
  <2>1. \A i \in 1..n : i \in 1..MaxSize BY Limits
  <2> QED BY <1>4, <2>1 DEF Batch, TypeOK
<1>6. u \in Seq(Nat) /\ Len(u) = n
  <2>1. u \in Seq(Nat) BY <1>5, <1>n, SeqDef
  <2>2. DOMAIN u = 1..n BY <1>5
  <2> QED BY <1>n, <2>1, <2>2, LenProperties
<1>7. PICK R : R = Written(r, u, s) OBVIOUS
<1>8. Delivered(d, n) = R BY <1>0, <1>1, <1>2, <1>4, <1>7 DEF Delivered
<1>9. CASE r.full \/ Len(u) > s
  BY <1>2, <1>7, <1>8, <1>9 DEF Written
<1>10. CASE ~r.full /\ ~(Len(u) > s)
  <2>1. n \in 1..s BY <1>1, <1>n, <1>6, <1>10
  <2>2. Flagged(d, R)
    <3>1. Flagged(d, Written(r, u, s))
      BY <1>0, <1>1, <1>2, <1>5, <1>n, WrittenKeeps
    <3> QED BY <1>7, <3>1
  <2>3. Ring(R, s) BY <1>0, <1>1, <2>2, RingOf
  <2>4. PICK c \in Nat : c = Consumed(r, s) BY <1>1, <1>3, RingEnd
  <2>5. PICK L \in Nat : L = Consumed(R, s) BY <1>1, <2>3, RingEnd
  <2>6. /\ L = IF c + n <= s THEN c + n ELSE c + n - s
        /\ \A i \in 1..L :
             Contents(R, s)[i] = LET k == c + n - L + i
                                 IN  IF k <= c THEN Contents(r, s)[k] ELSE u[k - c]
    <3>1. Ring(Written(r, u, s), s) BY <1>7, <2>3
    <3>2. u \in [1..n -> Nat] /\ ~r.full BY <1>5, <1>10
    <3>3. /\ Consumed(Written(r, u, s), s) = IF Consumed(r, s) + n <= s
                                             THEN Consumed(r, s) + n
                                             ELSE Consumed(r, s) + n - s
          /\ \A i \in 1..Consumed(Written(r, u, s), s) :
               Contents(Written(r, u, s), s)[i] =
                 LET k == Consumed(r, s) + n - Consumed(Written(r, u, s), s) + i
                 IN  IF k <= Consumed(r, s) THEN Contents(r, s)[k] ELSE u[k - Consumed(r, s)]
      BY <1>1, <1>3, <2>1, <3>1, <3>2, WrittenContents
    <3> QED BY <1>7, <2>4, <2>5, <3>3
  <2>7. L <= c + n BY <1>1, <1>n, <2>4, <2>6
  <2>8. /\ Contents(r, s) \in Seq(Nat) /\ Len(Contents(r, s)) = c
        /\ Contents(R, s) \in Seq(Nat) /\ Len(Contents(R, s)) = L
    BY <1>1, <1>3, <2>3, <2>4, <2>5, ContentsAreUnits
  <2>9. PICK C : C = Contents(r, s) OBVIOUS
  <2>10. PICK X : X = Contents(R, s) OBVIOUS
  <2>11. PICK Y : Y = C \o u OBVIOUS
  <2>12. /\ Y \in Seq(Nat) /\ Len(Y) = c + n
         /\ \A i \in 1..(c + n) : Y[i] = IF i <= c THEN C[i] ELSE u[i - c]
    BY <1>6, <2>8, <2>9, <2>11, ConcatProperties
  <2>13. ASSUME NEW i \in 1..L PROVE X[i] = Y[c + n - L + i]
    <3>1. PICK k \in Nat : k = c + n - L + i BY <2>7
    <3>2. k \in 1..(c + n) BY <2>7, <3>1
    <3>3. X[i] = IF k <= c THEN C[k] ELSE u[k - c] BY <2>6, <2>9, <2>10, <3>1
    <3> QED BY <2>12, <3>1, <3>2, <3>3
  <2>14. IsSuffix(X, Y)
    <3>1. X \in Seq(Nat) /\ Len(X) = L BY <2>8, <2>10
    <3>2. Y \in Seq(Nat) /\ Len(Y) = c + n BY <2>12
    <3>3. \A i \in 1..Len(X) : X[i] = Y[Len(Y) - Len(X) + i] BY <2>13, <3>1, <3>2
    <3> QED BY <2>7, <3>1, <3>2, <3>3, SuffixIs
  <2> QED BY <1>1, <1>2, <1>4, <1>8, <2>9, <2>10, <2>11, <2>14
<1> QED BY <1>9, <1>10

(* The first of different destinations is none of the others.              *)
LEMMA PoppedOnce ==
  ASSUME NEW S, NEW s \in Seq(S), s # <<>>, IsInjective(s)
  PROVE  /\ Head(s) \notin ToSet(Tail(s)) /\ IsInjective(Tail(s))
         /\ Tail(s) # <<>> => 2 <= Len(s)
<1>1. Len(s) \in Nat /\ 1 <= Len(s) BY EmptySeq, LenProperties
<1>2. /\ Head(s) = s[1] /\ Tail(s) \in Seq(S) /\ Len(Tail(s)) = Len(s) - 1
      /\ \A i \in 1..Len(Tail(s)) : Tail(s)[i] = s[i + 1]
  BY <1>1, HeadTailProperties
<1>3. /\ DOMAIN s = 1..Len(s)
      /\ DOMAIN Tail(s) = 1..Len(Tail(s))
  BY <1>2, LenProperties
<1>4. ASSUME NEW i \in 1..Len(s), NEW j \in 1..Len(s), s[i] = s[j] PROVE i = j
  BY <1>3, <1>4 DEF IsInjective
<1>5. ASSUME NEW i \in 1..Len(Tail(s)), Tail(s)[i] = s[1] PROVE FALSE
  <2>1. i + 1 \in 1..Len(s) /\ 1 \in 1..Len(s) /\ i + 1 # 1 BY <1>1, <1>2
  <2> QED BY <1>2, <1>4, <1>5, <2>1
<1>6. ASSUME NEW i \in 1..Len(Tail(s)), NEW j \in 1..Len(Tail(s)),
             Tail(s)[i] = Tail(s)[j]
      PROVE  i = j
  <2>1. i + 1 \in 1..Len(s) /\ j + 1 \in 1..Len(s) BY <1>1, <1>2
  <2>2. s[i + 1] = s[j + 1] BY <1>2, <1>6
  <2>3. i + 1 = j + 1 BY <1>4, <2>1, <2>2
  <2> QED BY <2>3
<1>7. Head(s) \notin ToSet(Tail(s)) BY <1>2, <1>3, <1>5 DEF ToSet
<1>8. IsInjective(Tail(s)) BY <1>3, <1>6 DEF IsInjective
<1>9. ASSUME Tail(s) # <<>> PROVE 2 <= Len(s)
  <2>1. Len(Tail(s)) # 0 BY <1>2, <1>9, EmptySeq
  <2> QED BY <1>1, <1>2, <2>1
<1> QED BY <1>1, <1>2, <1>7, <1>8, <1>9

(* ... and offers it to one destination after the other.                   *)
LEMMA FlushDestinationSimulates ==
  ASSUME TypeOK, OrderInv, FlushDestination PROVE OrderInv' /\ Simulated
<1> DEFINE k == [call[run] EXCEPT !.dests = Tail(@)]
<1>0. PICK d \in Ports : d = Head(call[run].dests) BY AtDestination
<1>1. PICK o \in Out : o = call[run].source BY AtDestination, InStep
<1>2. PICK n \in 1..MaxSize : n = call[run].len BY AtDestination, InStep
<1>3. /\ conf' = conf /\ sent' = sent /\ got' = got /\ buffer' = buffer /\ Goto(k)
      /\ call[run].at = "dests" /\ call[run].dests # <<>> /\ run \in AllThreads
  BY DEF FlushDestination, At, seen, TypeOK
<1>4. /\ d \in In /\ d \in ToSet(conf.destinations[o])
      /\ d \in Queueing <=> o \in Queueing
      /\ k \in StepType /\ k.at = "dests" /\ k.source = o
      /\ k.dests = Tail(call[run].dests)
  BY <1>0, <1>1, AtDestination
<1>5. k.len = n BY <1>2, AtDestination DEF StepType
<1> HIDE DEF k
<1>6. /\ port[d].ready => /\ port' = [port EXCEPT ![d] = Delivered(d, n)]
                          /\ Broadcast(d)
      /\ ~port[d].ready => port' = port /\ waiting' = waiting /\ run' = run
  BY <1>0, <1>2 DEF FlushDestination
<1>7. \A q \in Ports \ {d} : port'[q] = port[q] BY <1>6 DEF TypeOK
<1>8. /\ ~conf.blocking => \A q \in Ports : waiting'[q] \subseteq waiting[q]
      /\ ~conf.blocking => run' = run
  BY <1>6, BroadcastQuiet DEF OrderInv, FlushInv
<1>9. CASE o \notin Queueing
  <2>1. ~Handing(run) BY <1>1, <1>9 DEF Handing
  <2>2. \A q \in Ports \intersect Queueing : SameUnits(port'[q], port[q])
    BY <1>4, <1>7, <1>9 DEF SameUnits
  <2> QED BY <1>3, <1>4, <1>8, <1>9, <2>1, <2>2, QuietStep
<1>10. CASE o \in Queueing
  <2>0. /\ o \in Sources /\ d \in Sinks /\ Handing(run)
    BY <1>1, <1>3, <1>4, <1>10 DEF Sources, Sinks, Handing
  <2>1. PICK D : D = call[run].dests OBVIOUS
  <2>2. /\ D \in Seq(Ports) /\ D # <<>> /\ d = Head(D) /\ k.dests = Tail(D)
        /\ IsInjective(D)
        /\ conf.blocking => Len(D) <= 1
    <3>1. call[run] \in StepType BY AtDestination, InStep
    <3>2. call[run].dests \in Seq(Ports) BY <3>1, StepFields
    <3> QED BY <1>0, <1>3, <1>4, <2>0, <2>1, <3>2 DEF OrderInv, FlushInv, Once
  <2>3. /\ d \notin ToSet(Tail(D)) /\ IsInjective(Tail(D)) /\ Tail(D) \in Seq(Ports)
        /\ ToSet(D) = ToSet(Tail(D)) \union {d}
        /\ Tail(D) # <<>> => 2 <= Len(D)
        /\ Tail(D) # <<>> => ToSet(Tail(D)) # {}
    <3>1. /\ d \in ToSet(D) /\ Tail(D) \in Seq(Ports)
          /\ ToSet(D) = ToSet(Tail(D)) \union {d}
      BY <2>2, Popped
    <3>2. /\ d \notin ToSet(Tail(D)) /\ IsInjective(Tail(D))
          /\ Tail(D) # <<>> => 2 <= Len(D)
      BY <2>2, PoppedOnce
    <3>3. Tail(D) # <<>> => Head(Tail(D)) \in ToSet(Tail(D)) BY <3>1, Popped
    <3> QED BY <3>1, <3>2, <3>3
  <2>4. Tail(D) # <<>> => ~conf.blocking /\ run' = run
    <3>1. Len(D) \in Nat BY <2>2, LenProperties
    <3> QED BY <1>8, <2>2, <2>3, <3>1
  <2>5. /\ call'[run] = k /\ \A t \in AllThreads \ {run} : call'[t] = call[t]
    BY <1>3 DEF Goto, TypeOK
  <2>6. \A t \in AllThreads \ {run} : ~Handing(t)'
    BY <1>3, <2>5, SameSystem DEF Handing, OrderInv, FlushInv, Alone
  <2>7. Tail(D) = <<>> => (\A t \in AllThreads : ~Handing(t))'
    BY <1>3, <2>2, <2>5, <2>6, SameSystem DEF Handing
  <2>8. FlushInv'
    <3>1. Alone' BY <1>3, <2>4, <2>6, <2>7, SameSystem DEF Alone
    <3>2. Once'
      BY <1>3, <2>2, <2>3, <2>4, <2>5, <2>6, <2>7, SameSystem DEF Once
    <3>3. Patient'
      BY <1>3, <1>8, SameSystem DEF OrderInv, FlushInv, Patient
    <3>4. DOMAIN got' = In' BY <1>3, SameSystem DEF OrderInv, FlushInv
    <3> QED BY <3>1, <3>2, <3>3, <3>4 DEF FlushInv
  <2>9. \A q \in Sources : port'[q] = port[q]
    BY <1>4, <1>7 DEF Sources, Out
  <2>10. Whole' BY <1>3, <2>9, SameEnds DEF OrderInv, Whole, Sources, Out
  <2>11. /\ Ends' = Ends /\ Sources' = Sources /\ Held' = Held
         /\ Restrict(sent, Sources)' = Restrict(sent, Sources)
         /\ Restrict(got, Sinks)' = Restrict(got, Sinks)
    BY <1>3, <2>9, SameEnds DEF Restrict, Held, Sources, Out
  <2>12. /\ Air = [q \in Sources |-> IF q = o THEN Batch(n) ELSE <<>>]
         /\ Due = [q \in Sources |-> IF q = o THEN ToSet(D) ELSE {}]
    BY <1>1, <1>2, <1>3, <2>0, <2>1, BusyMap DEF OrderInv, FlushInv
  <2>13. /\ Air' = [q \in Sources |-> IF q = o /\ Tail(D) # <<>> THEN Batch(n) ELSE <<>>]
         /\ Due' = [q \in Sources |-> IF q = o THEN ToSet(Tail(D)) ELSE {}]
    <3>1. CASE Tail(D) = <<>>
      <4>1. ToSet(Tail(D)) = {} BY <3>1 DEF ToSet
      <4> QED BY <2>7, <2>11, <3>1, <4>1, QuietMapNext
    <3>2. CASE Tail(D) # <<>>
      <4>1. Handing(run)'
        BY <1>3, <1>4, <1>10, <2>2, <2>4, <2>5, <3>2, SameSystem DEF Handing
      <4>2. (run \in AllThreads)' BY <1>3, <2>4, <3>2, SameSystem
      <4>3. Alone' BY <2>8 DEF FlushInv
      <4>4. /\ call'[run'].source = o /\ call'[run'].len = n
            /\ call'[run'].dests = Tail(D)
        BY <1>4, <1>5, <2>2, <2>4, <2>5, <3>2
      <4>5. Batch(call[run].len)' = Batch(n) BY <1>3, <4>4 DEF Batch
      <4>6. /\ Air' = [q \in Sources' |-> IF q = call'[run'].source
                                          THEN Batch(call[run].len)' ELSE <<>>]
            /\ Due' = [q \in Sources' |-> IF q = call'[run'].source
                                          THEN ToSet(call'[run'].dests) ELSE {}]
        BY <4>1, <4>2, <4>3, BusyMapNext
      <4> QED BY <2>11, <3>2, <4>4, <4>5, <4>6
    <3> QED BY <3>1, <3>2
  <2>14. /\ d \in Due[o] /\ Air[o] = Batch(n)
         /\ Due' = [Due EXCEPT ![o] = Due[o] \ {d}]
         /\ Air' = [Air EXCEPT ![o] = IF Due'[o] = {} THEN <<>> ELSE Air[o]]
    <3>1. Tail(D) = <<>> => ToSet(Tail(D)) = {} BY DEF ToSet
    <3> QED BY <2>0, <2>3, <2>12, <2>13, <3>1
  <2>15. /\ Arrived[d] = Contents(port[d], Size(d))
         /\ Arrived'[d] = Contents(port'[d], Size(d))
         /\ Arrived' = [Arrived EXCEPT ![d] = Arrived'[d]]
    BY <1>3, <1>7, <2>0, ArrivedReplaced DEF Sinks, In
  <2>16. \/ Arrived' = Arrived
         \/ IsSuffix(Arrived'[d], Arrived[d] \o Air[o])
    <3>1. CASE port'[d] = port[d]
      <4>1. Arrived'[d] = Arrived[d] BY <2>15, <3>1
      <4> QED BY <2>15, <4>1 DEF Arrived
    <3>2. CASE port'[d] # port[d]
      <4>1. port[d].ready /\ port'[d] = Delivered(d, n)
        BY <1>6, <3>2 DEF TypeOK
      <4>2. IsSuffix(Contents(Delivered(d, n), Size(d)),
                     Contents(port[d], Size(d)) \o Batch(n))
        BY <2>0, <3>2, <4>1, DeliveredContents
      <4> QED BY <2>14, <2>15, <4>1, <4>2
    <3> QED BY <3>1, <3>2
  <2>17. Channel!Deliver(o, d)
    <3>1. \/ Arrived' = Arrived
          \/ Channel!IsSuffix(Arrived'[d], Arrived[d] \o Air[o])
      BY <2>16, ChannelOrder
    <3> QED BY <2>11, <2>14, <2>15, <3>1 DEF Channel!Deliver
  <2>18. o \in DOMAIN Ends /\ d \in Ends[o] BY <1>4, <2>0 DEF Ends
  <2>19. Simulated BY <2>17, <2>18 DEF Simulated, Channel!Next
  <2> QED BY <2>8, <2>10, <2>19 DEF OrderInv
<1> QED BY <1>9, <1>10
-----------------------------------------------------------------------------
(* Every step, and the initial states.                                     *)
LEMMA OrderStep ==
  ASSUME TypeOK, OrderInv, Orderly(conf), [Next]_vars PROVE OrderInv' /\ Simulated
<1>1. CASE Tick BY <1>1, TickSimulates
<1>2. CASE FlushPort BY <1>2, FlushPortSimulates
<1>3. CASE FlushDestination BY <1>3, FlushDestinationSimulates
<1>4. CASE FlushSource BY <1>4, FlushSourceSimulates
<1>5. CASE FlushClear BY <1>5, FlushClearSimulates
<1>6. CASE EndFlush BY <1>6, EndFlushSimulates
<1>7. CASE \E o \in Ports : Create(o) \/ TimedOut(o) \/ Write(o) \/ Read(o)
  BY <1>7, CreateSimulates, TimedOutSimulates, WriteSimulates, ReadSimulates
<1>8. CASE \E o \in Ports, n \in conf.lengths : Send(o, n) BY <1>8, SendSimulates
<1>9. CASE \E o \in Ports, n \in conf.most : Receive(o, n) BY <1>9, ReceiveSimulates
<1>10. CASE SetNormal BY <1>10, SetNormalSimulates
<1>11. CASE UNCHANGED vars
  <2>1. OrderInv'
    BY <1>11 DEF vars, threads, clock, seen, OrderInv, FlushInv, Alone, Patient, Once,
       Whole, Handing, AllThreads, Threads, Idle, Main, Partitions, Ports, Queueing, In,
       Out, Sources, Size, Consumed
  <2>2. Ends' = Ends /\ Sources' = Sources /\ Sinks' = Sinks
    BY <1>11, SameEnds DEF vars
  <2>3. Held' = Held /\ Arrived' = Arrived
    BY <1>11, SamePorts DEF vars
  <2>4. \A o : Open(o)' = Open(o)
    BY <1>11, SameSystem DEF vars, threads, Open, Offering
  <2>5. Air' = Air /\ Due' = Due
    BY <1>11, <2>2, <2>4 DEF vars, threads, Air, Due, Batch
  <2>6. /\ Restrict(sent, Sources)' = Restrict(sent, Sources)
        /\ Restrict(got, Sinks)' = Restrict(got, Sinks)
    BY <1>11, <2>2 DEF vars, seen, Restrict
  <2> QED BY <2>1, <2>2, <2>3, <2>5, <2>6 DEF Simulated, Channel!vars
<1> QED BY <1>1, <1>2, <1>3, <1>4, <1>5, <1>6, <1>7, <1>8, <1>9, <1>10, <1>11
    DEF Next, Kernel

LEMMA OrderStart ==
  ASSUME Init PROVE OrderInv /\ Channel!Init
<1>0. TypeOK BY InitType
<1>1. \A t \in AllThreads : ~Handing(t) BY DEF Init, User, Handing
<1>2. /\ port = [o \in Ports |-> NewPort(Size(o))] /\ got = [d \in In |-> <<>>]
      /\ sent = [o \in Out |-> 0] /\ \A o \in Ports : waiting[o] = {}
  BY DEF Init
<1>3. FlushInv
  BY <1>1, <1>2 DEF FlushInv, Alone, Patient, Once
<1>4. \A o \in Ports : Consumed(port[o], Size(o)) = 0 /\ Contents(port[o], Size(o)) = <<>>
  <2> SUFFICES ASSUME NEW o \in Ports
               PROVE  /\ Consumed(port[o], Size(o)) = 0
                      /\ Contents(port[o], Size(o)) = <<>>
    OBVIOUS
  <2>1. port[o].empty = TRUE BY <1>2 DEF NewPort
  <2>2. Consumed(port[o], Size(o)) = 0 BY <2>1 DEF Consumed
  <2>3. Contents(port[o], Size(o)) = Units(port[o], 0, Size(o)) BY <2>2 DEF Contents
  <2> QED BY <2>2, <2>3 DEF Units
<1>5. Whole
  <2>1. \A n \in conf.lengths : n \in Nat /\ 1 <= n BY <1>0, Configured DEF Consistent
  <2>2. \A n \in conf.lengths : 0 % n = 0 BY <2>1
  <2> QED BY <1>4, <2>2 DEF Whole, Sources, Out
<1>6. Channel!Init
  <2>1. DOMAIN Ends = Sources /\ DOMAIN Arrived = Sinks BY DEF Ends, Arrived
  <2>2. Restrict(sent, Sources) = [o \in Sources |-> 0]
    BY <1>2 DEF Restrict, Sources
  <2>3. Held = [o \in Sources |-> <<>>] BY <1>4 DEF Held, Sources, Out
  <2>4. Air = [o \in Sources |-> <<>>] /\ Due = [o \in Sources |-> {}]
    BY <1>1, QuietMap
  <2>5. \A d \in Sinks : Arrived[d] = <<>> /\ Restrict(got, Sinks)[d] = <<>>
    BY <1>2, <1>4 DEF Arrived, Sinks, In, Restrict
  <2>6. ASSUME NEW o \in Sources PROVE Ends[o] \subseteq Sinks
    <3>1. o \in Out /\ o \in Queueing BY DEF Sources
    <3>2. \A d \in ToSet(conf.destinations[o]) : d \in In /\ d \in Queueing
      BY <1>0, <3>1, Destinations
    <3> QED BY <3>2 DEF Ends, Sinks
  <2>7. UNION {Ends[o] : o \in Sources} \subseteq Sinks BY <2>6
  <2> QED BY <2>1, <2>2, <2>3, <2>4, <2>5, <2>7 DEF Channel!Init
<1> QED BY <1>3, <1>5, <1>6 DEF OrderInv

(* Where messages of a port have one length, of which the sizes of ports   *)
(* are multiples, where no port is twice a destination of a source, and    *)
(* where calls do not wait or a source has one destination, queueing ports *)
(* implement the channel: messages arrive in the order in which they were  *)
(* sent, each destination gets a message at most once and batch by batch,  *)
(* through the ring of the source, pok_buffer_flush, the list of           *)
(* destinations and their rings (portutils.c, portflushall.c).             *)
THEOREM MessagesInOrder ==
  ASSUME \A c \in Configs : Orderly(c)
  PROVE  Spec => ImplementsChannel
<1>1. TypeOK => Orderly(conf) BY DEF TypeOK
<1>2. Init => OrderInv /\ Channel!Init BY OrderStart
<1>3. TypeOK /\ OrderInv /\ [Next]_vars => OrderInv' /\ Simulated
  BY <1>1, OrderStep
<1>4. Simulated => [Channel!Next]_(Channel!vars) BY DEF Simulated
<1> QED BY <1>2, <1>3, <1>4, PortsTyped, PTL DEF Spec, ImplementsChannel, Channel!Spec
=============================================================================
