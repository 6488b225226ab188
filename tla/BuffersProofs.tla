--------------------------- MODULE BuffersProofs ---------------------------
(***************************************************************************)
(* Buffers and blackboards work for any threads, objects, sizes and time-  *)
(* outs.  What happens in a buffer supposes that nobody polls one: a       *)
(* receiver without time-out goes on without the lock (bufferreceive.c:49).*)
(*                                                                         *)
(* The invariant says that at most one thread is between the lock and the  *)
(* unlock of an object, and what such a thread knows of it at each point.  *)
(***************************************************************************)
EXTENDS Buffers, TLAPS

NoPolling ==
  \A c \in Configs : \A t \in DOMAIN c.uses : \A use \in c.uses[t] :
    use.op = "receive" => use.timeout > 0

Messages == {<<>>} \union (Threads \X Nat \X (0..2))

Steps == {"lock", "check", "refuse", "wait", "waiting", "woken", "copy",
          "advance", "unlock", "broadcast"}

Calls == [at : Steps, op : {"send", "receive", "display", "read"}, obj : Objects,
          timeout : Nat, msg : Messages \union Seq(Messages)]

Ring(S, s) ==
  [b : 0..(s - 1), e : 0..(s - 1), empty : BOOLEAN, full : BOOLEAN,
   data : [0..(s - 1) -> S]]

(* Equal offsets mean one of empty and full.                               *)
Sound(r) == (r.b = r.e) = (r.empty \/ r.full) /\ ~(r.empty /\ r.full)

Typed ==
  /\ conf \in Configs
  /\ call \in [Threads -> {User} \union Calls]
  /\ locked \in [Objects -> BOOLEAN]
  /\ waiters \in [Objects -> SUBSET Threads]
  /\ buffer = [o \in BufferIds |-> buffer[o]]
  /\ \A o \in BufferIds : buffer[o] \in Ring(Messages, conf.size[o])
  /\ board \in [conf.boards -> Messages \X Messages]
  /\ sent \in [Objects -> Seq(Messages)]
  /\ taken \in [Objects -> Seq(Messages)]

(* A call is for an object of its kind, and made as the program may.       *)
CallFits(t) ==
  call[t] # User =>
    /\ Object(t) \in IF InBuffer(t) THEN BufferIds ELSE conf.boards
    /\ call[t].at \notin {"copy", "advance", "unlock", "lock"} => InBuffer(t)
    /\ At(t, "refuse") => call[t].timeout = 0
    /\ NoPolling /\ Does(t, "receive") => call[t].timeout > 0
    /\ Does(t, "read") \/ call[t].msg \in Messages

Queued ==
  \A o \in Objects : \A t \in waiters[o] : At(t, "waiting") /\ Object(t) = o

(* Between the lock and the unlock.                                        *)
Holds(t) == call[t].at \in {"check", "refuse", "wait", "copy", "advance", "unlock"}

(* A polling receiver gives up locks that it does not have.                *)
Kept(o) == o \in conf.boards \/ NoPolling

Exclusion ==
  \A t \in Threads : Holds(t) /\ Kept(Object(t)) =>
    /\ locked[Object(t)]
    /\ \A u \in Threads : Holds(u) /\ Object(u) = Object(t) => u = t

(* What a thread knows of the blackboard, or buffer, whose lock it has.    *)
KnowsBoard(t) ==
  LET p == board[Object(t)]
  IN  /\ Does(t, "display") /\ At(t, "advance") /\ Reaches(call[t].msg, 1) =>
           p[1] = call[t].msg
      /\ Does(t, "read") /\ At(t, "advance") => call[t].msg = <<p[1]>>
      /\ Does(t, "read") /\ At(t, "unlock") =>
           call[t].msg[1] = p[1] /\ call[t].msg[2] = p[2]

Displaying(t, o) ==
  At(t, "advance") /\ Does(t, "display") /\ Object(t) = o /\ Reaches(call[t].msg, 1)

(* A board is what its displays leave, but for the half that one has begun.*)
BoardWhole(o) ==
  /\ Shows(sent[o], 2, board[o][2])
  /\ Shows(sent[o], 1, board[o][1]) \/ \E t \in Threads : Displaying(t, o)

KnowsBuffer(t) ==
  LET r == buffer[Object(t)]
  IN  InBuffer(t) =>
        /\ At(t, "wait") => MustWait(t)
        /\ call[t].at \in {"copy", "advance"} => ~MustWait(t)
        /\ At(t, "advance") =>
             call[t].msg = IF Does(t, "send") THEN r.data[r.e] ELSE r.data[r.b]

BufferWhole(o) == Sound(buffer[o]) /\ sent[o] = taken[o] \o Contents(o)

IInv ==
  /\ Typed
  /\ \A t \in Threads : CallFits(t)
  /\ Queued
  /\ Exclusion
  /\ \A t \in Threads : call[t] # User => KnowsBoard(t)
  /\ \A o \in conf.boards : BoardWhole(o)
  /\ NoPolling =>
       /\ \A t \in Threads : call[t] # User => KnowsBuffer(t)
       /\ \A o \in BufferIds : BufferWhole(o)
       /\ NobodyLeftBehind
-----------------------------------------------------------------------------
(* Offsets of a ring of s slots: the next, the distance, the i-th.         *)
LEMMA Offsets ==
  ASSUME NEW s \in Nat \ {0}, NEW b \in 0..(s - 1), NEW e \in 0..(s - 1)
  PROVE  /\ (b + 1) % s = IF b + 1 < s THEN b + 1 ELSE 0
         /\ (e - b) % s = IF b <= e THEN e - b ELSE e - b + s
         /\ \A i \in 1..s :
              (b + i - 1) % s = IF b + i - 1 < s THEN b + i - 1 ELSE b + i - 1 - s
<1>1. (b + 1) % s = IF b + 1 < s THEN b + 1 ELSE 0
  <2>1. CASE b + 1 < s BY <2>1
  <2>2. CASE b + 1 = s BY <2>2
  <2> QED BY <2>1, <2>2
<1>2. (e - b) % s = IF b <= e THEN e - b ELSE e - b + s
  <2>1. CASE b <= e BY <2>1
  <2>2. CASE e < b BY <2>2
  <2> QED BY <2>1, <2>2
<1>3. ASSUME NEW i \in 1..s
      PROVE  (b + i - 1) % s = IF b + i - 1 < s THEN b + i - 1 ELSE b + i - 1 - s
  <2>1. CASE b + i - 1 < s BY <2>1
  <2>2. CASE s <= b + i - 1 BY <2>2
  <2> QED BY <2>1, <2>2
<1> QED BY <1>1, <1>2, <1>3

(* How many messages a ring holds, and where.                              *)
Count(r, s) ==
  IF r.empty THEN 0 ELSE IF r.full THEN s
  ELSE IF r.b <= r.e THEN r.e - r.b ELSE r.e - r.b + s

Slot(r, s, i) == IF r.b + i - 1 < s THEN r.b + i - 1 ELSE r.b + i - 1 - s

LEMMA HeldAt ==
  ASSUME NEW S, NEW s \in Nat \ {0}, NEW r \in Ring(S, s), Sound(r)
  PROVE  /\ Count(r, s) \in 0..s
         /\ Held(r, s) = [i \in 1..Count(r, s) |-> r.data[Slot(r, s, i)]]
         /\ Held(r, s) \in Seq(S)
         /\ Len(Held(r, s)) = Count(r, s)
<1>0. r.b \in 0..(s - 1) /\ r.e \in 0..(s - 1) BY DEF Ring
<1>1. Count(r, s) \in 0..s BY <1>0 DEF Count, Ring, Sound
<1>2. (r.e - r.b) % s = IF r.b <= r.e THEN r.e - r.b ELSE r.e - r.b + s
  BY <1>0, Offsets
<1>3. ASSUME NEW i \in 1..Count(r, s)
      PROVE  (r.b + i - 1) % s = Slot(r, s, i) /\ Slot(r, s, i) \in 0..(s - 1)
  <2>1. i \in 1..s BY <1>1
  <2>2. Slot(r, s, i) \in 0..(s - 1) BY <1>0, <2>1 DEF Slot
  <2> QED BY <1>0, <2>1, <2>2, Offsets DEF Slot
<1>4. Held(r, s) = [i \in 1..Count(r, s) |-> r.data[Slot(r, s, i)]]
  BY <1>2, <1>3 DEF Held, Count
<1>5. \A i \in 1..Count(r, s) : r.data[Slot(r, s, i)] \in S BY <1>3 DEF Ring
<1> QED BY <1>1, <1>4, <1>5

(* A message written behind the last one is not among those held.          *)
LEMMA CopyHeld ==
  ASSUME NEW S, NEW s \in Nat \ {0}, NEW r \in Ring(S, s), Sound(r), ~ r.full,
         NEW m \in S
  PROVE  LET c == [r EXCEPT !.data[r.e] = m]
         IN  /\ c \in Ring(S, s) /\ Sound(c)
             /\ Held(c, s) = Held(r, s)
             /\ c.data[c.e] = m
<1> DEFINE c == [r EXCEPT !.data[r.e] = m]
<1>0. r.b \in 0..(s - 1) /\ r.e \in 0..(s - 1) BY DEF Ring
<1>1. c \in Ring(S, s) /\ Sound(c) /\ c.data[c.e] = m BY DEF Ring, Sound
<1>2. Count(c, s) = Count(r, s) BY DEF Count, Ring
<1>3. \A i \in 1..Count(r, s) : c.data[Slot(c, s, i)] = r.data[Slot(r, s, i)]
  BY <1>0 DEF Ring, Count, Slot, Sound
<1> HIDE DEF c
<1>4. Held(c, s) = [i \in 1..Count(c, s) |-> c.data[Slot(c, s, i)]] BY <1>1, HeldAt
<1>5. Held(r, s) = [i \in 1..Count(r, s) |-> r.data[Slot(r, s, i)]] BY HeldAt
<1>6. Held(c, s) = Held(r, s) BY <1>2, <1>3, <1>4, <1>5
<1> QED BY <1>1, <1>6 DEF c

(* To fill the slot at the end of the ring appends its message.            *)
LEMMA FilledHeld ==
  ASSUME NEW S, NEW s \in Nat \ {0}, NEW r \in Ring(S, s), Sound(r), ~ r.full,
         NEW f, f = Filled(r, s)
  PROVE  /\ f \in Ring(S, s) /\ Sound(f) /\ ~ f.empty
         /\ Held(f, s) = Append(Held(r, s), r.data[r.e])
<1>0. r.b \in 0..(s - 1) /\ r.e \in 0..(s - 1) BY DEF Ring
<1>1. (r.e + 1) % s = IF r.e + 1 < s THEN r.e + 1 ELSE 0 BY <1>0, Offsets
<1>2. /\ f = [r EXCEPT !.e = f.e, !.full = f.full, !.empty = FALSE]
      /\ f.e = (r.e + 1) % s /\ f.full = ((f.e = r.b) \/ r.full)
      /\ f.b = r.b /\ f.empty = FALSE /\ f.data = r.data
  BY DEF Filled, Ring
<1>3. f \in Ring(S, s) /\ Sound(f) /\ ~ f.empty
  <2>1. f.e \in 0..(s - 1) /\ f.full \in BOOLEAN BY <1>0, <1>1, <1>2
  <2>2. f \in Ring(S, s) BY <1>2, <2>1 DEF Ring
  <2>3. Sound(f) BY <1>2 DEF Sound
  <2> QED BY <1>2, <2>2, <2>3
<1>4. Count(f, s) = Count(r, s) + 1
  <2>1. CASE r.empty BY <2>1, <1>0, <1>1, <1>2, <1>3 DEF Count, Sound, Ring
  <2>2. CASE ~ r.empty /\ f.full BY <2>2, <1>0, <1>1, <1>2, <1>3 DEF Count, Sound, Ring
  <2>3. CASE ~ r.empty /\ ~ f.full
    <3>1. f.e # r.b BY <1>2, <2>3
    <3>2. Count(f, s) = IF r.b <= f.e THEN f.e - r.b ELSE f.e - r.b + s
      BY <1>2, <2>3 DEF Count
    <3>3. Count(r, s) = IF r.b <= r.e THEN r.e - r.b ELSE r.e - r.b + s
      BY <2>3 DEF Count
    <3>4. f.e = IF r.e + 1 < s THEN r.e + 1 ELSE 0 BY <1>1, <1>2
    <3> QED BY <1>0, <3>1, <3>2, <3>3, <3>4
  <2> QED BY <2>1, <2>2, <2>3
<1>5. \A i \in 1..Count(r, s) : Slot(f, s, i) = Slot(r, s, i) BY <1>2 DEF Slot, Ring
<1>6. Slot(f, s, Count(r, s) + 1) = r.e
  BY <1>0, <1>2 DEF Slot, Ring, Count, Sound
<1>7. f.data = r.data BY <1>2 DEF Ring
<1>8. Held(f, s) = [i \in 1..(Count(r, s) + 1) |-> f.data[Slot(f, s, i)]]
  BY <1>3, <1>4, HeldAt
<1> QED BY <1>3, <1>5, <1>6, <1>7, <1>8, HeldAt

(* To consume the slot at the beginning takes the oldest message away.     *)
LEMMA ConsumedHeld ==
  ASSUME NEW S, NEW s \in Nat \ {0}, NEW r \in Ring(S, s), Sound(r), ~ r.empty,
         NEW f, f = Consumed(r, s)
  PROVE  /\ f \in Ring(S, s) /\ Sound(f) /\ ~ f.full
         /\ Held(r, s) = <<r.data[r.b]>> \o Held(f, s)
<1>0. r.b \in 0..(s - 1) /\ r.e \in 0..(s - 1) BY DEF Ring
<1>1. (r.b + 1) % s = IF r.b + 1 < s THEN r.b + 1 ELSE 0 BY <1>0, Offsets
<1>2. /\ f = [r EXCEPT !.b = f.b, !.empty = f.empty, !.full = FALSE]
      /\ f.b = (r.b + 1) % s /\ f.empty = ((f.b = r.e) \/ r.empty)
      /\ f.e = r.e /\ f.full = FALSE /\ f.data = r.data
  BY DEF Consumed, Ring
<1>3. f \in Ring(S, s) /\ Sound(f) /\ ~ f.full
  <2>1. f.b \in 0..(s - 1) /\ f.empty \in BOOLEAN BY <1>0, <1>1, <1>2
  <2>2. f \in Ring(S, s) BY <1>2, <2>1 DEF Ring
  <2>3. Sound(f) BY <1>2 DEF Sound
  <2> QED BY <1>2, <2>2, <2>3
<1>4. Count(r, s) = Count(f, s) + 1
  BY <1>0, <1>1, <1>2 DEF Ring, Count, Sound
<1>5. \A i \in 1..Count(f, s) : Slot(f, s, i) = Slot(r, s, i + 1)
  <2>1. Count(f, s) \in 0..s BY <1>3, HeldAt
  <2> QED BY <1>0, <1>1, <1>2, <2>1 DEF Slot
<1>6. Slot(r, s, 1) = r.b BY <1>0 DEF Slot
<1>7. f.data = r.data BY <1>2 DEF Ring
<1>8. Held(r, s) = [i \in 1..(Count(f, s) + 1) |-> r.data[Slot(r, s, i)]]
  BY <1>4, HeldAt
<1> QED BY <1>3, <1>5, <1>6, <1>7, <1>8, HeldAt
-----------------------------------------------------------------------------
(* What is taken first from those held is appended to those taken.         *)
LEMMA TakenFirst ==
  ASSUME NEW S, NEW q \in Seq(S), NEW h \in Seq(S), NEW m \in S
  PROVE  q \o (<<m>> \o h) = Append(q, m) \o h
OBVIOUS

(* A display changes the halves that it is long enough for.                *)
LEMMA ShowsLast ==
  ASSUME NEW S, NEW q \in Seq(S), NEW m \in S, NEW i, Reaches(m, i)
  PROVE  Shows(Append(q, m), i, m)
<1> DEFINE a == Append(q, m)
<1>1. Len(a) = Len(q) + 1 /\ a[Len(a)] = m /\ Len(q) \in Nat OBVIOUS
<1> HIDE DEF a
<1>2. Len(a) \in 1..Len(a) /\ (Len(a) + 1)..Len(a) = {} BY <1>1
<1> QED BY <1>1, <1>2 DEF Shows, a

LEMMA ShowsStill ==
  ASSUME NEW S, NEW q \in Seq(S), NEW m \in S, NEW i, NEW h,
         ~ Reaches(m, i), Shows(q, i, h)
  PROVE  Shows(Append(q, m), i, h)
<1> DEFINE a == Append(q, m)
<1>1. /\ Len(a) = Len(q) + 1 /\ a[Len(q) + 1] = m /\ Len(q) \in Nat
      /\ \A k \in 1..Len(q) : a[k] = q[k]
  OBVIOUS
<1> HIDE DEF a
<1>2. \A k \in 1..Len(a) : k = Len(q) + 1 \/ k \in 1..Len(q) BY <1>1
<1>3. CASE h = <<>> /\ \A k \in 1..Len(q) : ~ Reaches(q[k], i)
  <2>1. ASSUME NEW k \in 1..Len(a) PROVE ~ Reaches(a[k], i)
    BY <1>1, <1>2, <1>3
  <2> QED BY <1>3, <2>1 DEF Shows, a
<1>4. ASSUME NEW k \in 1..Len(q), h = q[k], Reaches(q[k], i),
             \A j \in (k + 1)..Len(q) : ~ Reaches(q[j], i)
      PROVE  Shows(a, i, h)
  <2>1. k \in 1..Len(a) /\ a[k] = q[k] BY <1>1
  <2>2. ASSUME NEW j \in (k + 1)..Len(a) PROVE ~ Reaches(a[j], i)
    <3>1. j = Len(q) + 1 \/ (j \in 1..Len(q) /\ j \in (k + 1)..Len(q)) BY <1>1
    <3> QED BY <1>1, <1>4, <3>1
  <2> QED BY <1>4, <2>1, <2>2 DEF Shows
<1> QED BY <1>3, <1>4 DEF Shows, a

(* Sets that depend on the configuration only, which never changes.        *)
LEMMA SameSets ==
  ASSUME conf' = conf
  PROVE  /\ Threads' = Threads /\ BufferIds' = BufferIds /\ Objects' = Objects
         /\ Messages' = Messages /\ Calls' = Calls /\ NoPolling' = NoPolling
         /\ \A o : Kept(o)' = Kept(o)
BY DEF Threads, BufferIds, Objects, Messages, Calls, Kept, NoPolling

LEMMA InitInv == Init => IInv
<1> SUFFICES ASSUME Init PROVE IInv OBVIOUS
<1>1. Typed
  <2>1. \A o \in BufferIds : conf.size[o] \in Nat \ {0}
    BY ConfigsAssumption DEF Init, BufferIds
  <2>2. \A o \in BufferIds : buffer[o] \in Ring(Messages, conf.size[o])
    BY <2>1 DEF Init, Ring, Messages
  <2>3. board \in [conf.boards -> Messages \X Messages] BY DEF Init, Messages
  <2>4. /\ call \in [Threads -> {User} \union Calls]
        /\ locked \in [Objects -> BOOLEAN] /\ waiters \in [Objects -> SUBSET Threads]
        /\ sent \in [Objects -> Seq(Messages)] /\ taken \in [Objects -> Seq(Messages)]
    BY DEF Init
  <2>5. buffer = [o \in BufferIds |-> buffer[o]] BY DEF Init
  <2>6. conf \in Configs BY DEF Init
  <2> QED BY <2>2, <2>3, <2>4, <2>5, <2>6 DEF Typed
<1>2. \A t \in Threads : call[t] = User BY DEF Init
<1>3. \A t \in Threads : ~ Holds(t) BY <1>2 DEF Holds, User
<1>4. Queued /\ NobodyLeftBehind BY DEF Init, Queued, NobodyLeftBehind, Objects
<1>5. \A o \in conf.boards : BoardWhole(o)
  BY DEF Init, BoardWhole, Shows, Objects
<1>6. ASSUME NEW o \in BufferIds PROVE BufferWhole(o)
  <2>1. sent[o] = <<>> /\ taken[o] = <<>> /\ o \in Objects BY DEF Init, Objects
  <2>2. Contents(o) = <<>> BY DEF Init, Contents, Held
  <2>3. Sound(buffer[o]) BY DEF Init, Sound
  <2> QED BY <2>1, <2>2, <2>3 DEF BufferWhole
<1> QED BY <1>1, <1>2, <1>3, <1>4, <1>5, <1>6 DEF IInv, CallFits, Exclusion
-----------------------------------------------------------------------------
(* A step in which no call but that of t changes.                          *)
Alone(t) ==
  /\ conf' = conf
  /\ call' \in [Threads -> {User} \union Calls]
  /\ \A u \in Threads : u # t => call'[u] = call[u]

Continues(t, step) ==
  /\ Alone(t)
  /\ call[t] \in Calls /\ call[t].at # "user"
  /\ call'[t] \in Calls /\ call'[t] # User
  /\ call'[t].at = step /\ call'[t].op = call[t].op
  /\ call'[t].obj = call[t].obj /\ call'[t].timeout = call[t].timeout

Leaves(t) == Alone(t) /\ call'[t] = User /\ call'[t].at = "user"

LEMMA InCall ==
  ASSUME Typed, NEW t \in Threads
  PROVE  \/ call[t] = User /\ call[t].at = "user"
         \/ call[t] # User /\ call[t] \in Calls /\ call[t].at \in Steps
BY DEF Typed, User, Calls, Steps

LEMMA GoCall ==
  ASSUME Typed, NEW t \in Threads, conf' = conf, call[t].at # "user",
         NEW step \in Steps, Go(t, step)
  PROVE  Continues(t, step) /\ call'[t].msg = call[t].msg
<1>1. call[t] \in Calls BY InCall
<1>2. call' = [call EXCEPT ![t] = [call[t] EXCEPT !.at = step]] BY DEF Go
<1>3. [call[t] EXCEPT !.at = step] \in Calls BY <1>1 DEF Calls
<1>4. [call[t] EXCEPT !.at = step].at = step BY <1>1 DEF Calls
<1>5. [call[t] EXCEPT !.at = step] # User BY <1>4 DEF User, Steps
<1>6. Alone(t) BY <1>2, <1>3 DEF Alone, Typed
<1>7. call'[t] = [call[t] EXCEPT !.at = step] BY <1>2 DEF Typed
<1> QED BY <1>1, <1>3, <1>4, <1>5, <1>6, <1>7 DEF Continues, Calls

LEMMA HasCall ==
  ASSUME Typed, NEW t \in Threads, conf' = conf, call[t].at # "user",
         NEW step \in Steps, NEW m \in Messages \union Seq(Messages), Has(t, m, step)
  PROVE  Continues(t, step) /\ call'[t].msg = m
<1> DEFINE c == [call[t] EXCEPT !.msg = m, !.at = step]
<1>1. call[t] \in Calls BY InCall
<1>2. call' = [call EXCEPT ![t] = c] BY <1>1 DEF Has, Typed, Calls
<1>3. /\ c \in Calls /\ c.at = step /\ c.msg = m
      /\ c.op = call[t].op /\ c.obj = call[t].obj /\ c.timeout = call[t].timeout
  BY <1>1 DEF Calls
<1> HIDE DEF c
<1>5. c # User BY <1>3 DEF User, Steps
<1>6. Alone(t) BY <1>2, <1>3 DEF Alone, Typed
<1>7. call'[t] = c BY <1>2 DEF Typed
<1> QED BY <1>1, <1>3, <1>5, <1>6, <1>7 DEF Continues

LEMMA LeaveCall ==
  ASSUME Typed, NEW t \in Threads, conf' = conf, call' = [call EXCEPT ![t] = User]
  PROVE  Leaves(t)
BY DEF Typed, Alone, Leaves, User

(* A call that goes on fits as before.                                     *)
LEMMA FitsOn ==
  ASSUME IInv, NEW t \in Threads, NEW step \in Steps, Continues(t, step),
         step \notin {"copy", "advance", "unlock", "lock"} => InBuffer(t),
         step = "refuse" => call[t].timeout = 0,
         \/ Does(t, "read")
         \/ call'[t].msg \in {call[t].msg} \union Messages
  PROVE  CallFits(t)'
<1>1. CallFits(t) /\ call[t] # User BY DEF IInv, Continues, User
<1>2. conf' = conf BY DEF Continues, Alone
<1> QED BY <1>1, <1>2, SameSets
     DEF CallFits, Continues, InBuffer, Object, At, Does
-----------------------------------------------------------------------------
(* The lock is as before for threads that come to or leave no section.     *)
LEMMA ExclusionKept ==
  ASSUME Exclusion, NEW t \in Threads, Alone(t), locked' = locked,
         Holds(t)' => Holds(t) /\ Object(t)' = Object(t)
  PROVE  Exclusion'
BY SameSets DEF Exclusion, Alone, Holds, Object

LEMMA ExclusionReleased ==
  ASSUME Typed, Exclusion, NEW t \in Threads, Alone(t), Holds(t), Object(t) \in Objects,
         locked' = [locked EXCEPT ![Object(t)] = FALSE],
         Holds(t)' => Object(t)' = Object(t) /\ ~ Kept(Object(t))
  PROVE  Exclusion'
<1> SUFFICES ASSUME NEW u \in Threads, Holds(u)', Kept(Object(u))'
             PROVE  /\ locked'[Object(u)']
                    /\ \A w \in Threads : Holds(w)' /\ Object(w)' = Object(u)' => w = u
  BY SameSets DEF Exclusion, Alone
<1>1. u # t BY SameSets DEF Alone, Kept
<1>2. Holds(u) /\ Object(u)' = Object(u) /\ Kept(Object(u))
  BY <1>1, SameSets DEF Alone, Holds, Object, Kept
<1>3. Object(u) # Object(t) BY <1>1, <1>2 DEF Exclusion
<1>4. locked'[Object(u)] BY <1>2, <1>3 DEF Exclusion, Typed
<1>5. ASSUME NEW w \in Threads, Holds(w)', Object(w)' = Object(u)' PROVE w = u
  <2>1. w # t BY <1>2, <1>5, <1>3
  <2>2. Holds(w) /\ Object(w) = Object(u) BY <2>1, <1>2, <1>5 DEF Alone, Holds, Object
  <2> QED BY <2>2, <1>2 DEF Exclusion
<1> QED BY <1>2, <1>4, <1>5

LEMMA ExclusionTaken ==
  ASSUME Typed, Exclusion, NEW t \in Threads, Alone(t), Object(t) \in Objects,
         ~ locked[Object(t)], locked' = [locked EXCEPT ![Object(t)] = TRUE],
         Object(t)' = Object(t)
  PROVE  Exclusion'
<1> SUFFICES ASSUME NEW u \in Threads, Holds(u)', Kept(Object(u))'
             PROVE  /\ locked'[Object(u)']
                    /\ \A w \in Threads : Holds(w)' /\ Object(w)' = Object(u)' => w = u
  BY SameSets DEF Exclusion, Alone
<1>1. \A w \in Threads : Object(w)' = Object(w) /\ (w # t => (Holds(w)' <=> Holds(w)))
  BY DEF Alone, Holds, Object
<1>2. Kept(Object(u)) BY <1>1, SameSets DEF Alone, Kept
<1>3. \A w \in Threads : Holds(w) /\ Object(w) = Object(u) => Object(u) # Object(t)
  BY <1>2 DEF Exclusion
<1>4. locked'[Object(u)] BY <1>1, <1>2, <1>3 DEF Exclusion, Typed
<1>5. ASSUME NEW w \in Threads, Holds(w)', Object(w)' = Object(u)' PROVE w = u
  BY <1>1, <1>2, <1>3, <1>5 DEF Exclusion
<1> QED BY <1>1, <1>4, <1>5

LEMMA QueuedKept ==
  ASSUME Typed, Queued, NEW t \in Threads, Alone(t), waiters' = waiters, ~ At(t, "waiting")
  PROVE  Queued'
BY SameSets DEF Typed, Queued, Alone, At, Object

(* No waiter is left behind if neither queue nor flags change, and the     *)
(* thread that will broadcast is still there.                              *)
LEMMA NobodyKept ==
  ASSUME Typed, Queued, NobodyLeftBehind, NEW t \in Threads, Alone(t), waiters' = waiters,
         \A o \in BufferIds :
           buffer'[o].full = buffer[o].full /\ buffer'[o].empty = buffer[o].empty,
         ~ At(t, "waiting"),
         call[t].at \in {"unlock", "broadcast"} /\ Object(t) \in BufferIds =>
           call'[t].at \in {"unlock", "broadcast"} /\ Object(t)' = Object(t)
  PROVE  NobodyLeftBehind'
<1> SUFFICES ASSUME NEW o \in BufferIds, NEW w \in waiters[o], ~ MustWait(w)'
             PROVE  \E u \in Threads :
                      call'[u].at \in {"unlock", "broadcast"} /\ Object(u)' = o
  BY SameSets DEF NobodyLeftBehind, Alone
<1>1. w \in Threads /\ At(w, "waiting") /\ Object(w) = o BY DEF Typed, Queued, Objects
<1>2. call'[w] = call[w] BY <1>1 DEF Alone
<1>3. ~ MustWait(w) BY <1>1, <1>2 DEF MustWait, Does, Object
<1>4. PICK u \in Threads : call[u].at \in {"unlock", "broadcast"} /\ Object(u) = o
  BY <1>3 DEF NobodyLeftBehind
<1> QED BY <1>4 DEF Alone, Object
-----------------------------------------------------------------------------
(* A step that writes no object: what is known of objects stays true.      *)
LEMMA QuietKnows ==
  ASSUME Typed, NEW t \in Threads, Alone(t), buffer' = buffer, board' = board
  PROVE  \A u \in Threads : u # t =>
           /\ (call'[u] # User <=> call[u] # User)
           /\ (KnowsBoard(u) => KnowsBoard(u)')
           /\ (KnowsBuffer(u) => KnowsBuffer(u)')
BY DEF Alone, KnowsBoard, KnowsBuffer, Object, Does, At, InBuffer, MustWait

(* A board stays as it is while nobody writes to it or goes on displaying. *)
LEMMA BoardKept ==
  ASSUME IInv, NEW o \in conf.boards, conf' = conf,
         sent'[o] = sent[o], board'[o] = board[o],
         \A u \in Threads : Displaying(u, o) => call'[u] = call[u]
  PROVE  BoardWhole(o)'
<1>1. BoardWhole(o) BY DEF IInv
<1>2. Shows(sent'[o], 2, board'[o][2]) BY <1>1 DEF BoardWhole
<1>3. CASE Shows(sent[o], 1, board[o][1])
  <2>1. Shows(sent'[o], 1, board'[o][1]) BY <1>3
  <2> QED BY <1>2, <2>1 DEF BoardWhole, Shows
<1>4. ASSUME NEW u \in Threads, Displaying(u, o) PROVE BoardWhole(o)'
  <2>1. u \in Threads' /\ Displaying(u, o)'
    BY <1>4, SameSets DEF Displaying, At, Does, Object, Reaches
  <2> QED BY <1>2, <2>1 DEF BoardWhole, Shows
<1> QED BY <1>1, <1>3, <1>4 DEF BoardWhole

LEMMA Quiet ==
  ASSUME IInv, NEW t \in Threads, Alone(t), UNCHANGED <<buffer, board, sent, taken>>,
         locked' \in [Objects -> BOOLEAN], waiters' \in [Objects -> SUBSET Threads],
         call'[t] # User => CallFits(t)' /\ KnowsBoard(t)',
         NoPolling => (call'[t] # User => KnowsBuffer(t)'),
         At(t, "advance") => ~ Does(t, "display"),
         Queued', Exclusion', NoPolling => NobodyLeftBehind'
  PROVE  IInv'
<1>1. Typed' BY SameSets DEF IInv, Typed, Alone
<1>2. \A u \in Threads : CallFits(u)'
  <2>1. \A u \in Threads : u # t => CallFits(u)'
    BY SameSets DEF IInv, Alone, CallFits, Object, InBuffer, At, Does
  <2>2. CallFits(t)' BY DEF CallFits
  <2> QED BY <2>1, <2>2
<1>3. \A u \in Threads : call'[u] # User => KnowsBoard(u)' BY QuietKnows DEF IInv
<1>4. ASSUME NEW o \in conf.boards PROVE BoardWhole(o)'
  <2>1. \A u \in Threads : Displaying(u, o) => call'[u] = call[u]
    BY DEF Alone, Displaying
  <2> QED BY <2>1, BoardKept DEF Alone
<1>5. NoPolling => \A u \in Threads : call'[u] # User => KnowsBuffer(u)'
  BY QuietKnows DEF IInv
<1>6. NoPolling => \A o \in BufferIds : BufferWhole(o)'
  BY DEF IInv, BufferWhole, Contents, Alone
<1> QED BY <1>1, <1>2, <1>3, <1>4, <1>5, <1>6, SameSets DEF IInv, Alone

LEMMA StutterInv == ASSUME IInv, UNCHANGED vars PROVE IInv'
<1>1. Typed' BY SameSets DEF IInv, vars, Typed
<1>2. Queued' /\ Exclusion' /\ \A t \in Threads : CallFits(t)'
  BY SameSets DEF IInv, vars, Queued, Exclusion, CallFits, Holds, Object, At, Does,
     InBuffer, Kept
<1>3. /\ \A t \in Threads : call'[t] # User => KnowsBoard(t)'
      /\ \A o \in conf.boards : BoardWhole(o)'
  BY SameSets, BoardKept DEF IInv, vars, KnowsBoard, Object, At, Does, Reaches
<1>4. NoPolling => \A t \in Threads : call'[t] # User => KnowsBuffer(t)'
  BY SameSets DEF IInv, vars, KnowsBuffer, Object, At, Does, InBuffer, MustWait
<1>5. NoPolling => (\A o \in BufferIds : BufferWhole(o)') /\ NobodyLeftBehind'
  BY SameSets DEF IInv, vars, BufferWhole, Contents, NobodyLeftBehind, MustWait, Does, Object
<1> QED BY <1>1, <1>2, <1>3, <1>4, <1>5, SameSets DEF IInv, vars
-----------------------------------------------------------------------------
LEMMA BeginInv == ASSUME IInv, NEW t \in Threads, Begin(t) PROVE IInv'
<1>0. /\ UNCHANGED <<conf, locked, waiters, buffer, board, sent, taken>>
      /\ call \in [Threads -> {User} \union Calls] /\ call[t].at = "user"
  BY DEF Begin, Data, Observations, IInv, Typed, At
<1>1. PICK use \in conf.uses[t], len \in 0..2 : call' = [call EXCEPT ![t] =
            [at |-> "lock", op |-> use.op, obj |-> use.obj, timeout |-> use.timeout,
             msg |-> IF Puts(use.op) THEN <<t, Len(sent[use.obj]), len>> ELSE <<>>]]
  BY DEF Begin
<1>2. use \in Uses(conf) BY ConfigsAssumption DEF IInv, Typed, Threads
<1>3. Len(sent[use.obj]) \in Nat /\ use.obj \in Objects
  BY <1>2 DEF IInv, Typed, Uses, Objects, BufferIds
<1>4. call'[t] = [at |-> "lock", op |-> use.op, obj |-> use.obj, timeout |-> use.timeout,
             msg |-> IF Puts(use.op) THEN <<t, Len(sent[use.obj]), len>> ELSE <<>>]
  BY <1>0, <1>1
<1>5. call'[t] \in Calls BY <1>2, <1>3, <1>4 DEF Calls, Uses, Steps, Messages
<1>6. Alone(t) BY <1>0, <1>1, <1>4, <1>5 DEF Alone
<1>7. CallFits(t)'
  <2>1. Object(t)' \in IF InBuffer(t)' THEN BufferIds ELSE conf.boards
    BY <1>2, <1>4 DEF Uses, Object, InBuffer, BufferIds
  <2>2. NoPolling /\ Does(t, "receive")' => call'[t].timeout > 0
    BY <1>1, <1>4 DEF NoPolling, Does, IInv, Typed, Threads
  <2>3. call'[t].msg \in Messages BY <1>3, <1>4 DEF Messages
  <2> QED BY <1>0, <1>4, <2>1, <2>2, <2>3, SameSets DEF CallFits, At
<1>8. KnowsBoard(t)' /\ KnowsBuffer(t)' BY <1>4 DEF KnowsBoard, KnowsBuffer, At
<1>9. Queued' /\ ~ At(t, "advance") BY <1>0, <1>6, QueuedKept DEF IInv, At
<1>10. Exclusion' BY <1>0, <1>4, <1>6, ExclusionKept DEF IInv, Holds
<1>11. NoPolling => NobodyLeftBehind' BY <1>0, <1>6, NobodyKept DEF IInv, At
<1> QED BY <1>0, <1>6, <1>7, <1>8, <1>9, <1>10, <1>11, Quiet DEF IInv, Typed

LEMMA LockInv == ASSUME IInv, NEW t \in Threads, Lock(t) PROVE IInv'
<1> DEFINE step == IF InBuffer(t) THEN "check" ELSE "copy"
<1>0. /\ UNCHANGED <<conf, waiters, buffer, board, sent, taken>>
      /\ call[t].at \in {"lock", "woken"} /\ ~ locked[Object(t)]
      /\ locked' = [locked EXCEPT ![Object(t)] = TRUE] /\ Go(t, step)
      /\ step \in Steps
  BY DEF Lock, Data, Observations, Steps
<1>1. Continues(t, step) /\ call'[t].msg = call[t].msg
  BY <1>0, GoCall DEF IInv
<1>2. Object(t) \in Objects BY <1>1 DEF Continues, Calls, Object
<1>3. CallFits(t)' BY <1>0, <1>1, FitsOn
<1>4. KnowsBoard(t)' /\ KnowsBuffer(t)'
  BY <1>1 DEF Continues, KnowsBoard, KnowsBuffer, At, InBuffer
<1>5. Alone(t) /\ Object(t)' = Object(t) BY <1>1 DEF Continues, Object
<1>6. Exclusion' BY <1>0, <1>2, <1>5, ExclusionTaken DEF IInv
<1>7. Queued' /\ ~ At(t, "advance") BY <1>0, <1>5, QueuedKept DEF IInv, At
<1>8. NoPolling => NobodyLeftBehind' BY <1>0, <1>5, NobodyKept DEF IInv, At
<1>9. locked' \in [Objects -> BOOLEAN] BY <1>0 DEF IInv, Typed
<1> QED BY <1>0, <1>3, <1>4, <1>5, <1>6, <1>7, <1>8, <1>9, Quiet DEF IInv, Typed

LEMMA CheckInv == ASSUME IInv, NEW t \in Threads, Check(t) PROVE IInv'
<1> DEFINE step == IF ~ MustWait(t) THEN "copy"
                   ELSE IF call[t].timeout = 0 THEN "refuse" ELSE "wait"
<1>0. /\ UNCHANGED <<conf, locked, waiters, buffer, board, sent, taken>>
      /\ call[t].at = "check" /\ Go(t, step)
      /\ step \in Steps \ {"advance", "unlock", "lock"}
  BY DEF Check, At, Data, Observations, Steps
<1>1. Continues(t, step) /\ call'[t].msg = call[t].msg BY <1>0, GoCall DEF IInv
<1>2. InBuffer(t) BY <1>0, <1>1 DEF IInv, CallFits, Continues, User
<1>3. CallFits(t)' BY <1>0, <1>1, <1>2, FitsOn
<1>4. KnowsBoard(t)' BY <1>0, <1>1 DEF Continues, KnowsBoard, At
<1>5. Alone(t) /\ Object(t)' = Object(t) BY <1>1 DEF Continues, Object
<1>6. KnowsBuffer(t)'
  <2>1. MustWait(t)' = MustWait(t) BY <1>0, <1>1 DEF MustWait, Continues, Does, Object
  <2> QED BY <1>0, <1>1, <2>1 DEF Continues, KnowsBuffer, At
<1>7. Exclusion' BY <1>0, <1>5, ExclusionKept DEF IInv, Holds
<1>8. Queued' /\ ~ At(t, "advance") BY <1>0, <1>5, QueuedKept DEF IInv, At
<1>9. NoPolling => NobodyLeftBehind' BY <1>0, <1>5, NobodyKept DEF IInv, At
<1> QED BY <1>0, <1>3, <1>4, <1>5, <1>6, <1>7, <1>8, <1>9, Quiet DEF IInv, Typed

(* A send goes back to its thread; a receive, which supposes polling, on.  *)
LEMMA RefuseInv == ASSUME IInv, NEW t \in Threads, Refuse(t) PROVE IInv'
<1>0. /\ UNCHANGED <<conf, waiters, buffer, board, sent, taken>>
      /\ call[t].at = "refuse" /\ locked' = [locked EXCEPT ![Object(t)] = FALSE]
  BY DEF Refuse, At, Data, Observations
<1>1. call[t] # User /\ call[t] \in Calls /\ Object(t) \in Objects
  BY <1>0, InCall DEF IInv, Calls, Object
<1>2. InBuffer(t) /\ CallFits(t) /\ call[t].timeout = 0
  BY <1>0, <1>1 DEF IInv, CallFits, At
<1>3. \/ Leaves(t)
      \/ /\ Continues(t, "check") /\ call'[t].msg = call[t].msg
         /\ Does(t, "receive") /\ ~ NoPolling
  <2>1. CASE Does(t, "send") BY <1>0, <2>1, LeaveCall DEF Refuse, IInv
  <2>2. CASE ~ Does(t, "send")
    <3>1. Does(t, "receive") BY <1>2, <2>2 DEF InBuffer, Does
    <3>2. ~ NoPolling BY <1>1, <1>2, <3>1 DEF CallFits
    <3>3. Go(t, "check") BY <2>2 DEF Refuse
    <3> QED BY <1>0, <3>1, <3>2, <3>3, GoCall DEF IInv, Steps
  <2> QED BY <2>1, <2>2
<1>4. call'[t] # User => CallFits(t)' BY <1>2, <1>3, FitsOn DEF Leaves, Steps
<1>5. call'[t] # User => KnowsBoard(t)' BY <1>3 DEF Continues, Leaves, KnowsBoard, At
<1>6. NoPolling => (call'[t] # User => KnowsBuffer(t)') BY <1>3 DEF Leaves
<1>7. Alone(t) BY <1>3 DEF Leaves, Continues
<1>8. Exclusion'
  <2>1. Object(t) \notin conf.boards
    BY <1>1, <1>2, ConfigsAssumption DEF CallFits, BufferIds, IInv, Typed
  <2>2. Holds(t)' => Object(t)' = Object(t) /\ ~ Kept(Object(t))
    BY <1>3, <2>1 DEF Leaves, Continues, Holds, Object, Kept
  <2> QED BY <1>0, <1>1, <1>7, <2>2, ExclusionReleased DEF IInv, Holds
<1>9. Queued' /\ ~ At(t, "advance") BY <1>0, <1>7, QueuedKept DEF IInv, At
<1>10. NoPolling => NobodyLeftBehind' BY <1>0, <1>7, NobodyKept DEF IInv, At
<1>11. locked' \in [Objects -> BOOLEAN] BY <1>0 DEF IInv, Typed
<1> QED
  BY <1>0, <1>4, <1>5, <1>6, <1>7, <1>8, <1>9, <1>10, <1>11, Quiet DEF IInv, Typed

LEMMA WaitInv == ASSUME IInv, NEW t \in Threads, Wait(t) PROVE IInv'
<1>0. /\ UNCHANGED <<conf, buffer, board, sent, taken>>
      /\ call[t].at = "wait" /\ locked' = [locked EXCEPT ![Object(t)] = FALSE]
      /\ waiters' = [waiters EXCEPT ![Object(t)] = @ \union {t}] /\ Go(t, "waiting")
  BY DEF Wait, At, Data, Observations
<1>1. Continues(t, "waiting") /\ call'[t].msg = call[t].msg
  BY <1>0, GoCall DEF IInv, Steps
<1>2. InBuffer(t) /\ Object(t) \in Objects
  BY <1>0, <1>1 DEF IInv, CallFits, Continues, User, Calls, Object
<1>3. CallFits(t)' BY <1>1, <1>2, FitsOn DEF Steps
<1>4. KnowsBoard(t)' /\ KnowsBuffer(t)' BY <1>1 DEF Continues, KnowsBoard, KnowsBuffer, At
<1>5. Alone(t) /\ Object(t)' = Object(t) BY <1>1 DEF Continues, Object
<1>6. Exclusion'
  BY <1>0, <1>1, <1>2, <1>5, ExclusionReleased DEF IInv, Holds, Continues
<1>7. waiters' \in [Objects -> SUBSET Threads] /\ locked' \in [Objects -> BOOLEAN]
  BY <1>0, <1>2 DEF IInv, Typed
<1>8. Queued'
  <2> SUFFICES ASSUME NEW o \in Objects, NEW w \in waiters'[o]
               PROVE  call'[w].at = "waiting" /\ call'[w].obj = o
    BY <1>0, SameSets DEF Queued, At, Object
  <2>1. CASE w = t /\ o = Object(t) BY <2>1, <1>1 DEF Continues, Object
  <2>2. CASE w \in waiters[o]
    <3>1. w \in Threads /\ call[w].at = "waiting" /\ call[w].obj = o
      BY <2>2 DEF IInv, Typed, Queued, At, Object
    <3> QED BY <1>0, <1>5, <3>1 DEF Alone
  <2> QED BY <1>0, <1>2, <2>1, <2>2 DEF IInv, Typed
<1>9. NoPolling => NobodyLeftBehind'
  <2> SUFFICES ASSUME NoPolling, NEW o \in BufferIds, NEW w \in waiters'[o],
                      ~ MustWait(w)'
               PROVE  \E u \in Threads :
                        call'[u].at \in {"unlock", "broadcast"} /\ Object(u)' = o
    BY <1>0, SameSets DEF NobodyLeftBehind
  <2>1. MustWait(t)
    BY <1>0, <1>2, <1>1 DEF IInv, KnowsBuffer, At, Continues, User
  <2>2. MustWait(t)' BY <2>1, <1>0, <1>1 DEF MustWait, Continues, Does, Object
  <2>3. w # t /\ w \in waiters[o] BY <1>0, <1>2, <2>2 DEF IInv, Typed, Objects
  <2>4. w \in Threads BY <2>3 DEF IInv, Typed, Objects
  <2>5. ~ MustWait(w) BY <1>0, <1>5, <2>3, <2>4 DEF Alone, MustWait, Does, Object
  <2>6. PICK u \in Threads : call[u].at \in {"unlock", "broadcast"} /\ Object(u) = o
    BY <2>3, <2>5 DEF IInv, NobodyLeftBehind
  <2> QED BY <1>0, <1>5, <2>6 DEF Alone, Object
<1> QED BY <1>0, <1>3, <1>4, <1>5, <1>6, <1>7, <1>8, <1>9, Quiet DEF At

LEMMA TimeOutInv == ASSUME IInv, NEW t \in Threads, TimeOut(t) PROVE IInv'
<1>0. /\ UNCHANGED <<conf, locked, buffer, board, sent, taken>>
      /\ call[t].at \in {"waiting", "woken"}
      /\ waiters' = [waiters EXCEPT ![Object(t)] = @ \ {t}]
      /\ call' = [call EXCEPT ![t] = User]
  BY DEF TimeOut, Data, Observations
<1>1. Leaves(t) /\ Alone(t) /\ call'[t] = User BY <1>0, LeaveCall DEF IInv, Leaves
<1>2. waiters' \in [Objects -> SUBSET Threads] BY <1>0 DEF IInv, Typed
<1>3. Exclusion' BY <1>0, <1>1, ExclusionKept DEF IInv, Holds, Leaves
<1>4. \A o \in Objects : \A w \in waiters'[o] :
        w \in waiters[o] /\ w \in Threads /\ w # t
  BY <1>0 DEF IInv, Typed, Queued, Object
<1>5. Queued'
  <2> SUFFICES ASSUME NEW o \in Objects, NEW w \in waiters'[o]
               PROVE  call'[w].at = "waiting" /\ call'[w].obj = o
    BY <1>0, SameSets DEF Queued, At, Object
  <2>1. call[w].at = "waiting" /\ call[w].obj = o
    BY <1>4 DEF IInv, Queued, At, Object
  <2> QED BY <1>1, <1>4, <2>1 DEF Alone
<1>6. NoPolling => NobodyLeftBehind'
  <2> SUFFICES ASSUME NoPolling, NEW o \in BufferIds, NEW w \in waiters'[o],
                      ~ MustWait(w)'
               PROVE  \E u \in Threads :
                        call'[u].at \in {"unlock", "broadcast"} /\ Object(u)' = o
    BY <1>0, SameSets DEF NobodyLeftBehind
  <2>1. w \in waiters[o] /\ w \in Threads /\ w # t BY <1>4 DEF Objects
  <2>2. ~ MustWait(w) BY <1>0, <1>1, <2>1 DEF Alone, MustWait, Does, Object
  <2>3. PICK u \in Threads : call[u].at \in {"unlock", "broadcast"} /\ Object(u) = o
    BY <2>1, <2>2 DEF IInv, NobodyLeftBehind
  <2> QED BY <1>0, <1>1, <2>3 DEF Alone, Object
<1> QED BY <1>0, <1>1, <1>2, <1>3, <1>5, <1>6, Quiet DEF At, IInv, Typed

LEMMA ReceiveCopyInv == ASSUME IInv, NEW t \in Threads, ReceiveCopy(t) PROVE IInv'
<1> DEFINE m == buffer[Object(t)].data[buffer[Object(t)].b]
<1>0. /\ UNCHANGED <<conf, locked, waiters, buffer, board, sent, taken>>
      /\ call[t].at = "copy" /\ Does(t, "receive") /\ Has(t, m, "advance")
  BY DEF ReceiveCopy, At, Data, Observations
<1>1. InBuffer(t) /\ call[t] # User BY <1>0, InCall DEF IInv, Does, InBuffer
<1>2. Object(t) \in BufferIds BY <1>1 DEF IInv, CallFits
<1>3. m \in Messages BY <1>2 DEF IInv, Typed, Ring
<1>4. Continues(t, "advance") /\ call'[t].msg = m
  <2> HIDE DEF m
  <2> QED BY <1>0, <1>3, HasCall DEF IInv, Steps
<1>5. CallFits(t)' BY <1>3, <1>4, FitsOn DEF Steps
<1>6. KnowsBoard(t)' BY <1>0, <1>4 DEF Continues, KnowsBoard, Does, At
<1>7. NoPolling => KnowsBuffer(t)'
  <2> SUFFICES ASSUME NoPolling PROVE KnowsBuffer(t)' OBVIOUS
  <2>1. ~ MustWait(t) BY <1>0, <1>1 DEF IInv, KnowsBuffer
  <2>2. ~ MustWait(t)' BY <2>1, <1>0, <1>4 DEF MustWait, Continues, Does, Object
  <2> QED BY <1>0, <1>4, <2>2 DEF Continues, KnowsBuffer, Does, Object, At
<1>8. Alone(t) /\ Object(t)' = Object(t) BY <1>4 DEF Continues, Object
<1>9. Exclusion' BY <1>0, <1>8, ExclusionKept DEF IInv, Holds
<1>10. Queued' /\ ~ At(t, "advance") BY <1>0, <1>8, QueuedKept DEF IInv, At
<1>11. NoPolling => NobodyLeftBehind' BY <1>0, <1>8, NobodyKept DEF IInv, At
<1> QED BY <1>0, <1>5, <1>6, <1>7, <1>8, <1>9, <1>10, <1>11, Quiet DEF IInv, Typed

LEMMA ReadFirstInv == ASSUME IInv, NEW t \in Threads, ReadFirst(t) PROVE IInv'
<1> DEFINE m == <<board[Object(t)][1]>>
<1>0. /\ UNCHANGED <<conf, locked, waiters, buffer, board, sent, taken>>
      /\ call[t].at = "copy" /\ Does(t, "read") /\ Has(t, m, "advance")
  BY DEF ReadFirst, At, Data, Observations
<1>1. ~ InBuffer(t) /\ call[t] # User BY <1>0, InCall DEF IInv, Does, InBuffer
<1>2. Object(t) \in conf.boards BY <1>1 DEF IInv, CallFits
<1>3. m \in Seq(Messages) BY <1>2 DEF IInv, Typed
<1>4. Continues(t, "advance") /\ call'[t].msg = m
  <2> HIDE DEF m
  <2> QED BY <1>0, <1>3, HasCall DEF IInv, Steps
<1>5. CallFits(t)' BY <1>0, <1>4, FitsOn DEF Steps
<1>6. KnowsBoard(t)' BY <1>0, <1>4 DEF Continues, KnowsBoard, Does, At, Object
<1>7. KnowsBuffer(t)' BY <1>1, <1>4 DEF Continues, KnowsBuffer, InBuffer
<1>8. Alone(t) /\ Object(t)' = Object(t) BY <1>4 DEF Continues, Object
<1>9. Exclusion' BY <1>0, <1>8, ExclusionKept DEF IInv, Holds
<1>10. Queued' /\ ~ At(t, "advance") BY <1>0, <1>8, QueuedKept DEF IInv, At
<1>11. NoPolling => NobodyLeftBehind' BY <1>0, <1>8, NobodyKept DEF IInv, At
<1> QED BY <1>0, <1>5, <1>6, <1>7, <1>8, <1>9, <1>10, <1>11, Quiet DEF IInv, Typed

LEMMA ReadSecondInv == ASSUME IInv, NEW t \in Threads, ReadSecond(t) PROVE IInv'
<1> DEFINE p == board[Object(t)]
           m == Append(call[t].msg, p[2])
<1>0. /\ UNCHANGED <<conf, locked, waiters, buffer, board, sent, taken>>
      /\ call[t].at = "advance" /\ Does(t, "read") /\ Has(t, m, "unlock")
  BY DEF ReadSecond, At, Data, Observations
<1>1. ~ InBuffer(t) /\ call[t] # User BY <1>0, InCall DEF IInv, Does, InBuffer
<1>2. Object(t) \in conf.boards BY <1>1 DEF IInv, CallFits
<1>3. p[1] \in Messages /\ p[2] \in Messages BY <1>2 DEF IInv, Typed
<1>4. call[t].msg = <<p[1]>> BY <1>0, <1>1 DEF IInv, KnowsBoard, At
<1>5. m \in Seq(Messages) /\ m[1] = p[1] /\ m[2] = p[2]
  <2> HIDE DEF p
  <2> QED BY <1>3, <1>4
<1>7. Continues(t, "unlock") /\ call'[t].msg = m
  <2> HIDE DEF m
  <2> QED BY <1>0, <1>5, HasCall DEF IInv, Steps
<1>8. CallFits(t)' BY <1>0, <1>7, FitsOn DEF Steps
<1>9. KnowsBoard(t)' BY <1>0, <1>5, <1>7 DEF Continues, KnowsBoard, Does, At, Object
<1>10. KnowsBuffer(t)' BY <1>1, <1>7 DEF Continues, KnowsBuffer, InBuffer
<1>11. Alone(t) /\ Object(t)' = Object(t) BY <1>7 DEF Continues, Object
<1>12. Exclusion' BY <1>0, <1>11, ExclusionKept DEF IInv, Holds
<1>13. Queued' /\ ~ Does(t, "display") BY <1>0, <1>11, QueuedKept DEF IInv, At, Does
<1>14. NoPolling => NobodyLeftBehind' BY <1>0, <1>11, NobodyKept DEF IInv, At
<1> QED BY <1>0, <1>8, <1>9, <1>10, <1>11, <1>12, <1>13, <1>14, Quiet DEF IInv, Typed

LEMMA UnlockInv == ASSUME IInv, NEW t \in Threads, Unlock(t) PROVE IInv'
<1>0. /\ UNCHANGED <<conf, waiters, buffer, board, sent, taken>>
      /\ call[t].at = "unlock" /\ locked' = [locked EXCEPT ![Object(t)] = FALSE]
  BY DEF Unlock, At, Data, Observations
<1>1. call[t] # User /\ call[t] \in Calls /\ Object(t) \in Objects
  BY <1>0, InCall DEF IInv, Calls, Object
<1>2. \/ Leaves(t) /\ ~ InBuffer(t)
      \/ Continues(t, "broadcast") /\ call'[t].msg = call[t].msg /\ InBuffer(t)
  BY <1>0, GoCall, LeaveCall DEF Unlock, IInv, Steps
<1>3. ~ InBuffer(t) => Object(t) \notin BufferIds
  BY <1>1, ConfigsAssumption DEF IInv, Typed, CallFits, BufferIds
<1>4. call'[t] # User => CallFits(t)' BY <1>2, FitsOn DEF Leaves, Steps
<1>5. call'[t] # User => KnowsBoard(t)' /\ KnowsBuffer(t)'
  BY <1>2 DEF Continues, Leaves, KnowsBoard, KnowsBuffer, At
<1>6. Alone(t) BY <1>2 DEF Leaves, Continues
<1>7. Exclusion'
  BY <1>0, <1>1, <1>2, <1>6, ExclusionReleased DEF IInv, Holds, Leaves, Continues
<1>8. Queued' /\ ~ At(t, "advance") BY <1>0, <1>6, QueuedKept DEF IInv, At
<1>9. NoPolling => NobodyLeftBehind'
  BY <1>0, <1>2, <1>3, <1>6, NobodyKept DEF IInv, At, Continues, Object
<1>10. locked' \in [Objects -> BOOLEAN] BY <1>0 DEF IInv, Typed
<1> QED BY <1>0, <1>4, <1>5, <1>6, <1>7, <1>8, <1>9, <1>10, Quiet DEF IInv, Typed
-----------------------------------------------------------------------------
(* What others know of an object stays true when its lock's holder writes: *)
(* it is alone there.                                                      *)
LEMMA BufferWrite ==
  ASSUME IInv, NEW t \in Threads, Alone(t), Holds(t), InBuffer(t),
         Object(t) \in BufferIds, NEW r \in Ring(Messages, conf.size[Object(t)]),
         buffer' = [buffer EXCEPT ![Object(t)] = r],
         UNCHANGED <<locked, waiters, board>>,
         sent' \in [Objects -> Seq(Messages)], taken' \in [Objects -> Seq(Messages)],
         \A o \in Objects : o # Object(t) => sent'[o] = sent[o] /\ taken'[o] = taken[o],
         Holds(t)', Object(t)' = Object(t), CallFits(t)', KnowsBoard(t)',
         ~ At(t, "waiting"),
         NoPolling => KnowsBuffer(t)' /\ BufferWhole(Object(t))' /\ NobodyLeftBehind'
  PROVE  IInv'
<1>1. Typed'
  <2>1. buffer' = [o \in BufferIds |-> buffer'[o]] BY DEF IInv, Typed
  <2>2. \A o \in BufferIds : buffer'[o] \in Ring(Messages, conf.size[o])
    BY DEF IInv, Typed
  <2> QED BY <2>1, <2>2, SameSets DEF IInv, Typed, Alone
<1>2. \A u \in Threads : CallFits(u)'
  BY SameSets DEF IInv, Alone, CallFits, Object, InBuffer, At, Does
<1>3. Queued' /\ Exclusion' BY QueuedKept, ExclusionKept DEF IInv
<1>4. \A u \in Threads : call'[u] # User => KnowsBoard(u)'
  BY DEF IInv, Alone, KnowsBoard, Object, At, Does
<1>5. ASSUME NEW o \in conf.boards PROVE BoardWhole(o)'
  <2>1. \A u \in Threads : Displaying(u, o) => call'[u] = call[u]
    BY DEF Alone, Displaying, InBuffer, Does
  <2>2. o \in Objects /\ o # Object(t)
    BY ConfigsAssumption DEF IInv, Typed, BufferIds, Objects
  <2> QED BY <2>1, <2>2, BoardKept DEF Alone
<1>6. ASSUME NoPolling, NEW u \in Threads, u # t, call'[u] # User PROVE KnowsBuffer(u)'
  <2>1. call'[u] = call[u] /\ call[u] # User BY <1>6 DEF Alone
  <2>2. KnowsBuffer(u) /\ CallFits(u) BY <1>6, <2>1 DEF IInv
  <2>3. CASE Object(u) = Object(t)
    <3>1. ~ Holds(u) BY <1>6, <2>3 DEF IInv, Exclusion, Kept
    <3> QED BY <2>1, <3>1 DEF Holds, KnowsBuffer, At
  <2>4. CASE Object(u) # Object(t) /\ InBuffer(u)
    <3>1. Object(u) \in BufferIds BY <2>1, <2>2, <2>4 DEF CallFits
    <3>2. buffer'[Object(u)] = buffer[Object(u)] BY <2>4, <3>1 DEF IInv, Typed
    <3>3. MustWait(u)' = MustWait(u) BY <2>1, <3>2 DEF MustWait, Does, Object
    <3>4. KnowsBuffer(u)' <=> KnowsBuffer(u)
      BY <2>1, <3>2, <3>3 DEF KnowsBuffer, InBuffer, At, Does, Object
    <3> QED BY <2>2, <3>4
  <2>5. CASE ~ InBuffer(u) BY <2>1, <2>5 DEF KnowsBuffer, InBuffer
  <2> QED BY <2>3, <2>4, <2>5
<1>7. ASSUME NoPolling, NEW o \in BufferIds PROVE BufferWhole(o)'
  <2>1. CASE o = Object(t) BY <1>7, <2>1 DEF BufferWhole, Contents, Alone, Object
  <2>2. CASE o # Object(t)
    <3>1. buffer'[o] = buffer[o] /\ o \in Objects BY <2>2 DEF IInv, Typed, Objects
    <3> QED BY <1>7, <2>2, <3>1 DEF IInv, BufferWhole, Contents, Alone
  <2> QED BY <2>1, <2>2
<1> QED BY <1>1, <1>2, <1>3, <1>4, <1>5, <1>6, <1>7, SameSets DEF IInv, Alone

LEMMA BoardWrite ==
  ASSUME IInv, NEW t \in Threads, Alone(t), Holds(t), ~ InBuffer(t),
         call[t] # User, call'[t].op = call[t].op,
         Object(t) \in conf.boards, NEW p \in Messages \X Messages,
         board' = [board EXCEPT ![Object(t)] = p],
         UNCHANGED <<locked, waiters, buffer, taken>>,
         sent' \in [Objects -> Seq(Messages)],
         \A o \in Objects : o # Object(t) => sent'[o] = sent[o],
         Holds(t)', Object(t)' = Object(t), CallFits(t)', KnowsBoard(t)',
         ~ At(t, "waiting"), BoardWhole(Object(t))'
  PROVE  IInv'
<1>1. Typed' BY SameSets DEF IInv, Typed, Alone
<1>2. \A u \in Threads : CallFits(u)'
  BY SameSets DEF IInv, Alone, CallFits, Object, InBuffer, At, Does
<1>3. Queued' /\ Exclusion' BY QueuedKept, ExclusionKept DEF IInv
<1>4. ASSUME NEW u \in Threads, u # t, call'[u] # User PROVE KnowsBoard(u)'
  <2>1. call'[u] = call[u] /\ call[u] # User BY <1>4 DEF Alone
  <2>2. KnowsBoard(u) /\ CallFits(u) BY <1>4, <2>1 DEF IInv
  <2>3. CASE Object(u) = Object(t)
    <3>1. ~ Holds(u) BY <1>4, <2>3 DEF IInv, Exclusion, Kept
    <3> QED BY <2>1, <3>1 DEF Holds, KnowsBoard, At
  <2>4. CASE Object(u) # Object(t)
    <3>1. board'[Object(u)] = board[Object(u)] BY <2>4 DEF IInv, Typed
    <3> QED BY <2>1, <2>2, <3>1 DEF KnowsBoard, At, Does, Object
  <2> QED BY <2>3, <2>4
<1>5. ASSUME NEW o \in conf.boards, o # Object(t) PROVE BoardWhole(o)'
  <2>1. \A u \in Threads : Displaying(u, o) => call'[u] = call[u]
    BY <1>5 DEF Alone, Displaying
  <2>2. board'[o] = board[o] /\ o \in Objects BY <1>5 DEF IInv, Typed, Objects
  <2> QED BY <1>5, <2>1, <2>2, BoardKept DEF Alone
<1>6. ASSUME NoPolling, NEW u \in Threads, call'[u] # User PROVE KnowsBuffer(u)'
  <2>1. CASE u = t BY <2>1 DEF KnowsBuffer, InBuffer
  <2>2. CASE u # t
    <3>1. call'[u] = call[u] /\ KnowsBuffer(u) BY <1>6, <2>2 DEF Alone, IInv
    <3> QED BY <3>1 DEF KnowsBuffer, At, Does, Object, MustWait, InBuffer
  <2> QED BY <2>1, <2>2
<1>7. Object(t) \notin BufferIds
  BY ConfigsAssumption DEF IInv, Typed, BufferIds
<1>8. ASSUME NoPolling, NEW o \in BufferIds PROVE BufferWhole(o)'
  BY <1>7, <1>8 DEF IInv, BufferWhole, Contents, Alone, Objects
<1>9. NoPolling => NobodyLeftBehind' BY <1>7, NobodyKept DEF IInv
<1> QED
  BY <1>1, <1>2, <1>3, <1>4, <1>5, <1>6, <1>8, <1>9, SameSets DEF IInv, Alone

(* Whoever changes the flags of a buffer is on its way to the broadcast.   *)
LEMMA NobodyWhileUnlocking ==
  ASSUME Typed, Queued, NobodyLeftBehind, NEW t \in Threads, Alone(t), waiters' = waiters,
         \A o \in BufferIds : o # Object(t) => buffer'[o] = buffer[o],
         call[t].at = "advance", call'[t].at = "unlock", Object(t)' = Object(t)
  PROVE  NobodyLeftBehind'
<1> SUFFICES ASSUME NEW o \in BufferIds, NEW w \in waiters[o], ~ MustWait(w)'
             PROVE  \E u \in Threads :
                      call'[u].at \in {"unlock", "broadcast"} /\ Object(u)' = o
  BY SameSets DEF NobodyLeftBehind, Alone
<1>1. CASE o = Object(t) BY <1>1
<1>2. CASE o # Object(t)
  <2>1. w \in Threads /\ At(w, "waiting") /\ Object(w) = o
    BY DEF Typed, Queued, Objects
  <2>2. call'[w] = call[w] BY <2>1 DEF Alone, At
  <2>3. ~ MustWait(w) BY <1>2, <2>1, <2>2 DEF MustWait, Does, Object
  <2>4. PICK u \in Threads : call[u].at \in {"unlock", "broadcast"} /\ Object(u) = o
    BY <2>3 DEF NobodyLeftBehind
  <2> QED BY <2>4 DEF Alone, Object
<1> QED BY <1>1, <1>2

(* The slots of the buffers have a size, and messages what they hold.      *)
LEMMA BufferTyped ==
  ASSUME Typed, NEW o \in BufferIds
  PROVE  /\ conf.size[o] \in Nat \ {0}
         /\ buffer[o] \in Ring(Messages, conf.size[o])
         /\ o \in Objects /\ sent[o] \in Seq(Messages) /\ taken[o] \in Seq(Messages)
BY ConfigsAssumption DEF Typed, BufferIds, Objects

LEMMA RingTyped ==
  ASSUME NEW S, NEW s \in Nat \ {0}, NEW r \in Ring(S, s), NEW m \in S
  PROVE  /\ [r EXCEPT !.data[r.e] = m] \in Ring(S, s)
         /\ Filled(r, s) \in Ring(S, s)
         /\ Consumed(r, s) \in Ring(S, s)
<1>1. (r.e + 1) % s \in 0..(s - 1) /\ (r.b + 1) % s \in 0..(s - 1)
  BY Offsets DEF Ring
<1>2. ((r.e + 1) % s = r.b \/ r.full) \in BOOLEAN /\ ((r.b + 1) % s = r.e \/ r.empty) \in BOOLEAN
  OBVIOUS
<1>3. [r EXCEPT !.data[r.e] = m] \in Ring(S, s) BY DEF Ring
<1>4. Filled(r, s) \in Ring(S, s) BY <1>1, <1>2 DEF Ring, Filled
<1>5. Consumed(r, s) \in Ring(S, s) BY <1>1, <1>2 DEF Ring, Consumed
<1> QED BY <1>3, <1>4, <1>5

LEMMA SendCopyInv == ASSUME IInv, NEW t \in Threads, SendCopy(t) PROVE IInv'
<1> DEFINE o == Object(t)
           m == call[t].msg
           r == [buffer[o] EXCEPT !.data[buffer[o].e] = m]
<1>0. /\ UNCHANGED <<conf, locked, waiters, board, sent, taken>>
      /\ call[t].at = "copy" /\ Does(t, "send") /\ Go(t, "advance")
  BY DEF SendCopy, At, Observations
<1>1. Continues(t, "advance") /\ call'[t].msg = m BY <1>0, GoCall DEF IInv, Steps
<1>2. InBuffer(t) /\ call[t] # User BY <1>0, <1>1 DEF Does, InBuffer, Continues, User
<1>3. CallFits(t) /\ o \in BufferIds BY <1>2 DEF IInv, CallFits
<1>4. m \in Messages BY <1>0, <1>2, <1>3 DEF CallFits, Does
<1>5. /\ conf.size[o] \in Nat \ {0} /\ buffer[o] \in Ring(Messages, conf.size[o])
      /\ sent[o] \in Seq(Messages) /\ taken[o] \in Seq(Messages)
  BY <1>3, BufferTyped DEF IInv
<1>6. r \in Ring(Messages, conf.size[o]) BY <1>4, <1>5, RingTyped
<1>7. buffer' = [buffer EXCEPT ![o] = r]
  BY <1>3 DEF SendCopy, IInv, Typed
<1>8. buffer'[o] = r BY <1>3, <1>7 DEF IInv, Typed
<1>9. Alone(t) /\ Object(t)' = o /\ Holds(t) /\ Holds(t)' /\ ~ At(t, "waiting")
  BY <1>0, <1>1 DEF Continues, Object, Holds, At
<1>10. CallFits(t)' BY <1>0, <1>1, FitsOn DEF Steps
<1>11. KnowsBoard(t)' BY <1>0, <1>1 DEF Continues, KnowsBoard, Does, At
<1>12. r.full = buffer[o].full /\ r.empty = buffer[o].empty BY <1>5 DEF Ring
<1>13. ASSUME NoPolling
       PROVE  KnowsBuffer(t)' /\ BufferWhole(o)' /\ NobodyLeftBehind'
  <2>1. ~ buffer[o].full
    BY <1>0, <1>2, <1>13 DEF IInv, KnowsBuffer, MustWait, Does
  <2>2. Sound(buffer[o]) /\ sent[o] = taken[o] \o Held(buffer[o], conf.size[o])
    BY <1>3, <1>13 DEF IInv, BufferWhole, Contents
  <2>3. Sound(r) /\ Held(r, conf.size[o]) = Held(buffer[o], conf.size[o]) /\ r.data[r.e] = m
    <3> HIDE DEF o, m
    <3> QED BY <1>4, <1>5, <2>1, <2>2, CopyHeld
  <2>4. KnowsBuffer(t)'
    <3> HIDE DEF r
    <3> QED BY <1>0, <1>1, <1>8, <1>9, <1>12, <2>1, <2>3
         DEF Continues, KnowsBuffer, MustWait, Does, At
  <2>5. BufferWhole(o)'
    <3> HIDE DEF r
    <3> QED BY <1>0, <1>8, <1>9, <2>2, <2>3 DEF BufferWhole, Contents
  <2>6. NobodyLeftBehind'
    <3>1. \A b \in BufferIds :
            buffer'[b].full = buffer[b].full /\ buffer'[b].empty = buffer[b].empty
      <4> HIDE DEF r
      <4> QED BY <1>7, <1>12 DEF IInv, Typed
    <3> QED BY <1>0, <1>9, <1>13, <3>1, NobodyKept DEF IInv
  <2> QED BY <2>4, <2>5, <2>6
<1>14. sent' \in [Objects -> Seq(Messages)] /\ taken' \in [Objects -> Seq(Messages)]
  BY <1>0 DEF IInv, Typed
<1> HIDE DEF r
<1> QED
  BY <1>0, <1>2, <1>3, <1>6, <1>7, <1>9, <1>10, <1>11, <1>13, <1>14, BufferWrite

LEMMA SendAdvanceInv == ASSUME IInv, NEW t \in Threads, SendAdvance(t) PROVE IInv'
<1> DEFINE o == Object(t)
           m == call[t].msg
           r == Filled(buffer[o], conf.size[o])
<1>0. /\ UNCHANGED <<conf, locked, waiters, board, taken>>
      /\ call[t].at = "advance" /\ Does(t, "send") /\ Go(t, "unlock")
      /\ sent' = [sent EXCEPT ![o] = Append(@, m)]
  BY DEF SendAdvance, At, Put
<1>1. Continues(t, "unlock") /\ call'[t].msg = m BY <1>0, GoCall DEF IInv, Steps
<1>2. InBuffer(t) /\ call[t] # User BY <1>0, <1>1 DEF Does, InBuffer, Continues, User
<1>3. CallFits(t) /\ o \in BufferIds BY <1>2 DEF IInv, CallFits
<1>4. m \in Messages BY <1>0, <1>2, <1>3 DEF CallFits, Does
<1>5. /\ conf.size[o] \in Nat \ {0} /\ buffer[o] \in Ring(Messages, conf.size[o])
      /\ o \in Objects /\ sent[o] \in Seq(Messages) /\ taken[o] \in Seq(Messages)
  BY <1>3, BufferTyped DEF IInv
<1>6. r \in Ring(Messages, conf.size[o]) BY <1>4, <1>5, RingTyped
<1>7. buffer' = [buffer EXCEPT ![o] = r] BY <1>3 DEF SendAdvance, IInv, Typed
<1>8. buffer'[o] = r BY <1>3, <1>7 DEF IInv, Typed
<1>9. Alone(t) /\ Object(t)' = o /\ Holds(t) /\ Holds(t)' /\ ~ At(t, "waiting")
  BY <1>0, <1>1 DEF Continues, Object, Holds, At
<1>10. CallFits(t)' BY <1>0, <1>1, FitsOn DEF Steps
<1>11. KnowsBoard(t)' /\ KnowsBuffer(t)'
  BY <1>0, <1>1 DEF Continues, KnowsBoard, KnowsBuffer, Does, At
<1>12. /\ sent' \in [Objects -> Seq(Messages)] /\ taken' \in [Objects -> Seq(Messages)]
       /\ sent'[o] = Append(sent[o], m) /\ taken'[o] = taken[o]
       /\ \A b \in Objects : b # o => sent'[b] = sent[b] /\ taken'[b] = taken[b]
  <2> HIDE DEF o, m
  <2>1. Append(sent[o], m) \in Seq(Messages) BY <1>4, <1>5
  <2> QED BY <1>0, <1>5, <2>1 DEF IInv, Typed, Objects
<1>13. ASSUME NoPolling PROVE BufferWhole(o)' /\ NobodyLeftBehind'
  <2>1. ~ buffer[o].full /\ m = buffer[o].data[buffer[o].e]
    BY <1>0, <1>2, <1>13 DEF IInv, KnowsBuffer, MustWait, Does, At
  <2>2. Sound(buffer[o]) /\ sent[o] = taken[o] \o Held(buffer[o], conf.size[o])
    BY <1>3, <1>13 DEF IInv, BufferWhole, Contents
  <2>3. Sound(r) /\ Held(r, conf.size[o]) = Append(Held(buffer[o], conf.size[o]), m)
    BY <1>5, <2>1, <2>2, FilledHeld
  <2>4. Held(buffer[o], conf.size[o]) \in Seq(Messages) BY <1>5, <2>2, HeldAt
  <2>5. sent'[o] = taken'[o] \o Held(r, conf.size[o])
    <3> DEFINE h == Held(buffer[o], conf.size[o])
               q == taken[o]
    <3>1. q \in Seq(Messages) /\ h \in Seq(Messages) BY <1>5, <2>4
    <3>2. sent'[o] = Append(q \o h, m) /\ taken'[o] = q BY <1>12, <2>2
    <3>3. Held(r, conf.size[o]) = Append(h, m) BY <2>3
    <3> HIDE DEF o, m, r, h, q
    <3>4. Append(q \o h, m) = q \o Append(h, m) BY <1>4, <3>1
    <3> QED BY <3>2, <3>3, <3>4
  <2>6. BufferWhole(o)'
    <3> HIDE DEF r
    <3> QED BY <1>0, <1>8, <1>9, <2>3, <2>5 DEF BufferWhole, Contents
  <2>7. \A b \in BufferIds : b # o => buffer'[b] = buffer[b]
    BY <1>7 DEF IInv, Typed
  <2>8. NobodyLeftBehind'
    BY <1>0, <1>1, <1>9, <1>13, <2>7, NobodyWhileUnlocking DEF IInv, Continues
  <2> QED BY <2>6, <2>8
<1> HIDE DEF r
<1> QED
  BY <1>0, <1>2, <1>3, <1>6, <1>7, <1>9, <1>10, <1>11, <1>12, <1>13, BufferWrite

LEMMA ReceiveAdvanceInv ==
  ASSUME IInv, NEW t \in Threads, ReceiveAdvance(t) PROVE IInv'
<1> DEFINE o == Object(t)
           m == call[t].msg
           r == Consumed(buffer[o], conf.size[o])
<1>0. /\ UNCHANGED <<conf, locked, waiters, board, sent>>
      /\ call[t].at = "advance" /\ Does(t, "receive") /\ Go(t, "unlock")
      /\ taken' = [taken EXCEPT ![o] = Append(@, m)]
  BY DEF ReceiveAdvance, At
<1>1. Continues(t, "unlock") /\ call'[t].msg = m BY <1>0, GoCall DEF IInv, Steps
<1>2. InBuffer(t) /\ call[t] # User BY <1>0, <1>1 DEF Does, InBuffer, Continues, User
<1>3. CallFits(t) /\ o \in BufferIds BY <1>2 DEF IInv, CallFits
<1>4. m \in Messages BY <1>0, <1>2, <1>3 DEF CallFits, Does
<1>5. /\ conf.size[o] \in Nat \ {0} /\ buffer[o] \in Ring(Messages, conf.size[o])
      /\ o \in Objects /\ sent[o] \in Seq(Messages) /\ taken[o] \in Seq(Messages)
  BY <1>3, BufferTyped DEF IInv
<1>6. r \in Ring(Messages, conf.size[o]) BY <1>4, <1>5, RingTyped
<1>7. buffer' = [buffer EXCEPT ![o] = r] BY <1>3 DEF ReceiveAdvance, IInv, Typed
<1>8. buffer'[o] = r BY <1>3, <1>7 DEF IInv, Typed
<1>9. Alone(t) /\ Object(t)' = o /\ Holds(t) /\ Holds(t)' /\ ~ At(t, "waiting")
  BY <1>0, <1>1 DEF Continues, Object, Holds, At
<1>10. CallFits(t)' BY <1>0, <1>1, FitsOn DEF Steps
<1>11. KnowsBoard(t)' /\ KnowsBuffer(t)'
  BY <1>0, <1>1 DEF Continues, KnowsBoard, KnowsBuffer, Does, At
<1>12. /\ sent' \in [Objects -> Seq(Messages)] /\ taken' \in [Objects -> Seq(Messages)]
       /\ taken'[o] = Append(taken[o], m) /\ sent'[o] = sent[o]
       /\ \A b \in Objects : b # o => sent'[b] = sent[b] /\ taken'[b] = taken[b]
  <2> HIDE DEF o, m
  <2>1. Append(taken[o], m) \in Seq(Messages) BY <1>4, <1>5
  <2> QED BY <1>0, <1>5, <2>1 DEF IInv, Typed, Objects
<1>13. ASSUME NoPolling PROVE BufferWhole(o)' /\ NobodyLeftBehind'
  <2>1. ~ buffer[o].empty /\ m = buffer[o].data[buffer[o].b]
    BY <1>0, <1>2, <1>13 DEF IInv, KnowsBuffer, MustWait, Does, At
  <2>2. Sound(buffer[o]) /\ sent[o] = taken[o] \o Held(buffer[o], conf.size[o])
    BY <1>3, <1>13 DEF IInv, BufferWhole, Contents
  <2>3. Sound(r) /\ Held(buffer[o], conf.size[o]) = <<m>> \o Held(r, conf.size[o])
    <3> DEFINE x == buffer[o]
               s == conf.size[o]
    <3>1. /\ s \in Nat \ {0} /\ x \in Ring(Messages, s) /\ Sound(x) /\ ~ x.empty
          /\ m = x.data[x.b] /\ r = Consumed(x, s)
      BY <1>5, <2>1, <2>2
    <3> HIDE DEF x, s, m, r
    <3>2. Sound(r) /\ Held(x, s) = <<x.data[x.b]>> \o Held(r, s)
      BY <3>1, ConsumedHeld
    <3> QED BY <3>1, <3>2 DEF x, s
  <2>4. Held(r, conf.size[o]) \in Seq(Messages)
    <3> HIDE DEF r
    <3> QED BY <1>5, <1>6, <2>3, HeldAt
  <2>5. sent'[o] = taken'[o] \o Held(r, conf.size[o])
    <3> DEFINE h == Held(r, conf.size[o])
               q == taken[o]
    <3>1. q \in Seq(Messages) /\ h \in Seq(Messages) BY <1>5, <2>4
    <3>2. sent'[o] = q \o (<<m>> \o h) /\ taken'[o] = Append(q, m)
      BY <1>12, <2>2, <2>3
    <3> HIDE DEF o, m, r, h, q
    <3>3. q \o (<<m>> \o h) = Append(q, m) \o h BY <1>4, <3>1, TakenFirst
    <3> QED BY <3>2, <3>3 DEF h
  <2>6. BufferWhole(o)'
    <3> HIDE DEF r
    <3> QED BY <1>0, <1>8, <1>9, <2>3, <2>5 DEF BufferWhole, Contents
  <2>7. \A b \in BufferIds : b # o => buffer'[b] = buffer[b]
    BY <1>7 DEF IInv, Typed
  <2>8. NobodyLeftBehind'
    BY <1>0, <1>1, <1>9, <1>13, <2>7, NobodyWhileUnlocking DEF IInv, Continues
  <2> QED BY <2>6, <2>8
<1> HIDE DEF r
<1> QED
  BY <1>0, <1>2, <1>3, <1>6, <1>7, <1>9, <1>10, <1>11, <1>12, <1>13, BufferWrite

LEMMA DisplayFirstInv == ASSUME IInv, NEW t \in Threads, DisplayFirst(t) PROVE IInv'
<1> DEFINE o == Object(t)
           m == call[t].msg
           p == <<IF Reaches(m, 1) THEN m ELSE board[o][1], board[o][2]>>
<1>0. /\ UNCHANGED <<conf, locked, waiters, buffer, sent, taken>>
      /\ call[t].at = "copy" /\ Does(t, "display") /\ Go(t, "advance")
      /\ board' = IF Reaches(m, 1) THEN [board EXCEPT ![o][1] = m] ELSE board
  BY DEF DisplayFirst, At, Observations
<1>1. Continues(t, "advance") /\ call'[t].msg = m BY <1>0, GoCall DEF IInv, Steps
<1>2. ~ InBuffer(t) /\ call[t] # User BY <1>0, <1>1 DEF Does, InBuffer, Continues, User
<1>3. o \in conf.boards /\ m \in Messages
  BY <1>0, <1>2 DEF IInv, CallFits, Does
<1>4. /\ p \in Messages \X Messages /\ board' = [board EXCEPT ![o] = p]
      /\ board'[o][1] = p[1] /\ board'[o][2] = board[o][2]
  <2>1. board \in [conf.boards -> Messages \X Messages] BY DEF IInv, Typed
  <2>2. PICK x \in Messages, y \in Messages : board[o] = <<x, y>> BY <1>3, <2>1
  <2>3. CASE Reaches(m, 1)
    <3>1. board' = [board EXCEPT ![o] = [board[o] EXCEPT ![1] = m]] BY <1>0, <2>3
    <3>2. p = <<m, y>> BY <2>2, <2>3
    <3> HIDE DEF o, m, p
    <3>3. [<<x, y>> EXCEPT ![1] = m] = <<m, y>> OBVIOUS
    <3>4. board' = [board EXCEPT ![o] = p] BY <2>2, <3>1, <3>2, <3>3
    <3> QED BY <1>3, <2>1, <2>2, <3>2, <3>4
  <2>4. CASE ~ Reaches(m, 1)
    <3>1. board' = board BY <1>0, <2>4
    <3>2. p = <<x, y>> BY <2>2, <2>4
    <3> HIDE DEF o, m, p
    <3> QED BY <1>3, <2>1, <2>2, <3>1, <3>2
  <2> QED BY <2>3, <2>4
<1>6. Alone(t) /\ Object(t)' = o /\ Holds(t) /\ Holds(t)' /\ ~ At(t, "waiting")
  BY <1>0, <1>1 DEF Continues, Object, Holds, At
<1>7. CallFits(t)' BY <1>0, <1>1, FitsOn DEF Steps
<1>8. KnowsBoard(t)'
  BY <1>0, <1>1, <1>4, <1>6 DEF Continues, KnowsBoard, Does, At, Reaches
<1>9. BoardWhole(o)'
  <2>1. BoardWhole(o) BY <1>3 DEF IInv
  <2>2. Shows(sent'[o], 2, board'[o][2]) BY <1>0, <1>4, <2>1 DEF BoardWhole
  <2>3. CASE Reaches(m, 1)
    <3>1. t \in Threads' /\ Displaying(t, o)'
      BY <1>0, <1>1, <1>6, <2>3, SameSets
         DEF Continues, Displaying, Does, At, Reaches
    <3> QED BY <1>6, <2>2, <3>1 DEF BoardWhole, Shows, Displaying
  <2>4. CASE ~ Reaches(m, 1)
    <3>1. board' = board BY <1>0, <2>4
    <3>2. ~ \E u \in Threads : Displaying(u, o)
      BY <1>0, <1>3, <1>6 DEF IInv, Exclusion, Kept, Displaying, Holds, At
    <3>3. Shows(sent'[o], 1, board'[o][1]) BY <1>0, <2>1, <3>1, <3>2 DEF BoardWhole
    <3> QED BY <1>6, <2>2, <3>3 DEF BoardWhole, Shows
  <2> QED BY <2>3, <2>4
<1>10. sent' \in [Objects -> Seq(Messages)] BY <1>0 DEF IInv, Typed
<1> HIDE DEF p
<1> QED
  BY <1>0, <1>1, <1>2, <1>3, <1>4, <1>6, <1>7, <1>8, <1>9, <1>10, BoardWrite DEF Continues

LEMMA DisplaySecondInv == ASSUME IInv, NEW t \in Threads, DisplaySecond(t) PROVE IInv'
<1> DEFINE o == Object(t)
           m == call[t].msg
           p == <<board[o][1], IF Reaches(m, 2) THEN m ELSE board[o][2]>>
<1>0. /\ UNCHANGED <<conf, locked, waiters, buffer, taken>>
      /\ call[t].at = "advance" /\ Does(t, "display") /\ Go(t, "unlock")
      /\ board' = IF Reaches(m, 2) THEN [board EXCEPT ![o][2] = m] ELSE board
      /\ sent' = [sent EXCEPT ![o] = Append(@, m)]
  BY DEF DisplaySecond, At, Put
<1>1. Continues(t, "unlock") /\ call'[t].msg = m BY <1>0, GoCall DEF IInv, Steps
<1>2. ~ InBuffer(t) /\ call[t] # User BY <1>0, <1>1 DEF Does, InBuffer, Continues, User
<1>3. /\ o \in conf.boards /\ m \in Messages
      /\ Reaches(m, 1) => board[o][1] = m
  BY <1>0, <1>2 DEF IInv, CallFits, KnowsBoard, Does, At
<1>4. /\ p \in Messages \X Messages /\ board' = [board EXCEPT ![o] = p]
      /\ board'[o][1] = board[o][1] /\ board'[o][2] = p[2]
  <2>1. board \in [conf.boards -> Messages \X Messages] BY DEF IInv, Typed
  <2>2. PICK x \in Messages, y \in Messages : board[o] = <<x, y>> BY <1>3, <2>1
  <2>3. CASE Reaches(m, 2)
    <3>1. board' = [board EXCEPT ![o] = [board[o] EXCEPT ![2] = m]] BY <1>0, <2>3
    <3>2. p = <<x, m>> BY <2>2, <2>3
    <3> HIDE DEF o, m, p
    <3>3. [<<x, y>> EXCEPT ![2] = m] = <<x, m>> OBVIOUS
    <3>4. board' = [board EXCEPT ![o] = p] BY <2>2, <3>1, <3>2, <3>3
    <3> QED BY <1>3, <2>1, <2>2, <3>2, <3>4
  <2>4. CASE ~ Reaches(m, 2)
    <3>1. board' = board BY <1>0, <2>4
    <3>2. p = <<x, y>> BY <2>2, <2>4
    <3> HIDE DEF o, m, p
    <3> QED BY <1>3, <2>1, <2>2, <3>1, <3>2
  <2> QED BY <2>3, <2>4
<1>6. Alone(t) /\ Object(t)' = o /\ Holds(t) /\ Holds(t)' /\ ~ At(t, "waiting")
  BY <1>0, <1>1 DEF Continues, Object, Holds, At
<1>7. CallFits(t)' BY <1>0, <1>1, FitsOn DEF Steps
<1>8. KnowsBoard(t)' BY <1>0, <1>1 DEF Continues, KnowsBoard, Does, At
<1>5. sent[o] \in Seq(Messages) /\ o \in Objects /\ sent'[o] = Append(sent[o], m)
  <2>1. o \in Objects /\ sent \in [Objects -> Seq(Messages)]
    BY <1>3 DEF IInv, Typed, Objects
  <2> HIDE DEF o, m
  <2> QED BY <1>0, <2>1
<1>9. BoardWhole(o)'
  <2>1. BoardWhole(o) BY <1>3 DEF IInv
  <2>2. Shows(sent'[o], 2, board'[o][2])
    <3>1. CASE Reaches(m, 2)
      <4>1. board'[o][2] = m BY <1>4, <3>1
      <4> QED BY <1>3, <1>5, <3>1, <4>1, ShowsLast
    <3>2. CASE ~ Reaches(m, 2)
      <4>1. board'[o][2] = board[o][2] BY <1>0, <3>2
      <4>2. Shows(sent[o], 2, board[o][2]) BY <2>1 DEF BoardWhole
      <4> QED BY <1>3, <1>5, <3>2, <4>1, <4>2, ShowsStill
    <3> QED BY <3>1, <3>2
  <2>3. Shows(sent'[o], 1, board'[o][1])
    <3>1. CASE Reaches(m, 1)
      <4>1. board'[o][1] = m BY <1>3, <1>4, <3>1
      <4> QED BY <1>3, <1>5, <3>1, <4>1, ShowsLast
    <3>2. CASE ~ Reaches(m, 1)
      <4>1. ~ \E u \in Threads : Displaying(u, o)
        BY <1>0, <1>3, <1>6, <3>2
           DEF IInv, Exclusion, Kept, Displaying, Holds, At
      <4>2. Shows(sent[o], 1, board[o][1]) BY <2>1, <4>1 DEF BoardWhole
      <4> QED BY <1>3, <1>4, <1>5, <3>2, <4>2, ShowsStill
    <3> QED BY <3>1, <3>2
  <2> QED BY <1>6, <2>2, <2>3 DEF BoardWhole, Shows
<1>10. /\ sent' \in [Objects -> Seq(Messages)]
       /\ \A b \in Objects : b # o => sent'[b] = sent[b]
  <2>1. Append(sent[o], m) \in Seq(Messages) BY <1>3, <1>5
  <2> HIDE DEF o, m
  <2> QED BY <1>0, <1>5, <2>1 DEF IInv, Typed
<1> HIDE DEF p
<1> QED
  BY <1>0, <1>1, <1>2, <1>3, <1>4, <1>6, <1>7, <1>8, <1>9, <1>10, BoardWrite DEF Continues
-----------------------------------------------------------------------------
(* The broadcast ends one call and moves others from waiting to woken.     *)
LEMMA BroadcastInv == ASSUME IInv, NEW t \in Threads, Broadcast(t) PROVE IInv'
<1> DEFINE o == Object(t)
<1>0. /\ UNCHANGED <<conf, locked, buffer, board, sent, taken>>
      /\ call[t].at = "broadcast" /\ waiters' = [waiters EXCEPT ![o] = {}]
      /\ call' = [u \in Threads |->
            IF u = t THEN User
            ELSE IF u \in waiters[o] THEN [call[u] EXCEPT !.at = "woken"] ELSE call[u]]
  BY DEF Broadcast, At, Data, Observations
<1>1. call[t] \in Calls /\ call[t] # User /\ InBuffer(t)
  BY <1>0, InCall DEF IInv, CallFits
<1>2. o \in BufferIds /\ o \in Objects BY <1>1 DEF IInv, CallFits, Objects
<1>3. call'[t] = User /\ call'[t].at = "user" BY <1>0 DEF User
<1>4. ASSUME NEW u \in waiters[o]
      PROVE  /\ u \in Threads /\ u # t
             /\ call[u].at = "waiting" /\ call[u].obj = o
             /\ call[u] \in Calls /\ call[u] # User
             /\ call'[u] \in Calls /\ call'[u].at = "woken" /\ call'[u] # User
             /\ call'[u].op = call[u].op /\ call'[u].obj = o
             /\ call'[u].timeout = call[u].timeout /\ call'[u].msg = call[u].msg
  <2>1. u \in Threads /\ call[u].at = "waiting" /\ call[u].obj = o
    BY <1>2 DEF IInv, Typed, Queued, At, Object
  <2>2. u # t BY <1>0, <2>1
  <2>3. call[u] \in Calls /\ call[u] # User BY <2>1, InCall DEF IInv
  <2>4. call'[u] = [call[u] EXCEPT !.at = "woken"] BY <1>0, <2>1, <2>2
  <2> QED BY <2>1, <2>2, <2>3, <2>4 DEF Calls, Steps, User
<1>5. \A u \in Threads : u # t /\ u \notin waiters[o] => call'[u] = call[u] BY <1>0
<1>6. Typed'
  <2>1. \A u \in Threads : call'[u] \in {User} \union Calls
    BY <1>3, <1>4, <1>5 DEF IInv, Typed
  <2>2. call' \in [Threads -> {User} \union Calls] BY <1>0, <2>1
  <2>3. waiters' \in [Objects -> SUBSET Threads] BY <1>0 DEF IInv, Typed
  <2> QED BY <1>0, <2>2, <2>3, SameSets DEF IInv, Typed
<1>7. ASSUME NEW u \in Threads PROVE CallFits(u)'
  <2>1. CASE u = t BY <1>3, <2>1 DEF CallFits
  <2>2. CASE u \in waiters[o]
    BY <1>0, <1>4, <2>2, SameSets DEF IInv, CallFits, Object, InBuffer, At, Does
  <2>3. CASE u # t /\ u \notin waiters[o]
    BY <1>0, <1>5, <2>3, SameSets DEF IInv, CallFits, Object, InBuffer, At, Does
  <2> QED BY <2>1, <2>2, <2>3
<1>8. Queued'
  <2> SUFFICES ASSUME NEW b \in Objects, NEW w \in waiters'[b]
               PROVE  call'[w].at = "waiting" /\ call'[w].obj = b
    BY <1>0, SameSets DEF Queued, At, Object
  <2>1. b # o /\ w \in waiters[b] BY <1>0, <1>2 DEF IInv, Typed
  <2>2. w \in Threads /\ call[w].at = "waiting" /\ call[w].obj = b
    BY <2>1 DEF IInv, Typed, Queued, At, Object
  <2>3. w # t /\ w \notin waiters[o] BY <1>0, <1>4, <2>1, <2>2
  <2> QED BY <1>5, <2>2, <2>3
<1>9. \A u \in Threads : Holds(u)' => call'[u] = call[u] /\ Holds(u)
  BY <1>3, <1>4, <1>5 DEF Holds
<1>10. Exclusion'
  <2> SUFFICES ASSUME NEW u \in Threads, Holds(u)', Kept(Object(u))'
               PROVE  /\ locked[Object(u)']
                      /\ \A w \in Threads : Holds(w)' /\ Object(w)' = Object(u)' => w = u
    BY <1>0, SameSets DEF Exclusion
  <2>1. Holds(u) /\ Object(u)' = Object(u) /\ Kept(Object(u))
    BY <1>0, <1>9, SameSets DEF Object, Kept
  <2>2. \A w \in Threads : Holds(w)' => Holds(w) /\ Object(w)' = Object(w)
    BY <1>9 DEF Object
  <2> QED BY <2>1, <2>2 DEF IInv, Exclusion
<1>11. ASSUME NEW u \in Threads, call'[u] # User
       PROVE  KnowsBoard(u)' /\ (NoPolling => KnowsBuffer(u)')
  <2>1. CASE u \in waiters[o] BY <1>4, <2>1 DEF KnowsBoard, KnowsBuffer, At
  <2>2. CASE u # t /\ u \notin waiters[o]
    <3>1. call'[u] = call[u] BY <1>5, <2>2
    <3>2. KnowsBoard(u) /\ (NoPolling => KnowsBuffer(u)) BY <1>11, <3>1 DEF IInv
    <3> QED BY <1>0, <3>1, <3>2
         DEF KnowsBoard, KnowsBuffer, At, Does, Object, InBuffer, MustWait
  <2> QED BY <1>3, <1>11, <2>1, <2>2
<1>12. ASSUME NEW b \in conf.boards PROVE BoardWhole(b)'
  <2>1. \A u \in Threads : Displaying(u, b) => call'[u] = call[u]
    BY <1>0, <1>4, <1>5 DEF Displaying, At
  <2> QED BY <1>0, <2>1, BoardKept
<1>13. ASSUME NoPolling, NEW b \in BufferIds PROVE BufferWhole(b)'
  BY <1>0, <1>13 DEF IInv, BufferWhole, Contents
<1>14. ASSUME NoPolling PROVE NobodyLeftBehind'
  <2> SUFFICES ASSUME NEW b \in BufferIds, NEW w \in waiters'[b], ~ MustWait(w)'
               PROVE  \E u \in Threads :
                        call'[u].at \in {"unlock", "broadcast"} /\ Object(u)' = b
    BY <1>0, SameSets DEF NobodyLeftBehind
  <2>1. b # o /\ w \in waiters[b] /\ b \in Objects
    BY <1>0, <1>2 DEF IInv, Typed, Objects
  <2>2. w \in Threads /\ call[w].at = "waiting" /\ call[w].obj = b
    BY <2>1 DEF IInv, Typed, Queued, At, Object
  <2>3. w # t /\ w \notin waiters[o] BY <1>0, <1>4, <2>1, <2>2
  <2>4. ~ MustWait(w) BY <1>0, <1>5, <2>2, <2>3 DEF MustWait, Does, Object
  <2>5. PICK u \in Threads : call[u].at \in {"unlock", "broadcast"} /\ Object(u) = b
    BY <1>14, <2>1, <2>4 DEF IInv, NobodyLeftBehind
  <2>6. u # t /\ u \notin waiters[o] BY <1>4, <2>1, <2>5
  <2> QED BY <1>5, <2>5, <2>6 DEF Object
<1> QED
  BY <1>0, <1>6, <1>7, <1>8, <1>10, <1>11, <1>12, <1>13, <1>14, SameSets DEF IInv
-----------------------------------------------------------------------------
(* The invariant holds whatever the threads call.                          *)
THEOREM Invariance == Spec => []IInv
<1>1. Init => IInv BY InitInv
<1>2. ASSUME IInv, [Next]_vars PROVE IInv'
  <2>1. ASSUME NEW t \in Threads, Begin(t) \/ Lock(t) \/ Check(t) \/ Refuse(t) PROVE IInv'
    BY <1>2, <2>1, BeginInv, LockInv, CheckInv, RefuseInv
  <2>2. ASSUME NEW t \in Threads, Wait(t) \/ TimeOut(t) \/ Unlock(t) \/ Broadcast(t)
        PROVE  IInv'
    BY <1>2, <2>2, WaitInv, TimeOutInv, UnlockInv, BroadcastInv
  <2>3. ASSUME NEW t \in Threads,
               SendCopy(t) \/ SendAdvance(t) \/ ReceiveCopy(t) \/ ReceiveAdvance(t)
        PROVE  IInv'
    BY <1>2, <2>3, SendCopyInv, SendAdvanceInv, ReceiveCopyInv, ReceiveAdvanceInv
  <2>4. ASSUME NEW t \in Threads,
               DisplayFirst(t) \/ DisplaySecond(t) \/ ReadFirst(t) \/ ReadSecond(t)
        PROVE  IInv'
    BY <1>2, <2>4, DisplayFirstInv, DisplaySecondInv, ReadFirstInv, ReadSecondInv
  <2>5. CASE UNCHANGED vars BY <1>2, <2>5, StutterInv
  <2> QED BY <1>2, <2>1, <2>2, <2>3, <2>4, <2>5 DEF Next
<1> QED BY <1>1, <1>2, PTL DEF Spec

(* Every message sent to a buffer is received once, in the order sent, for *)
(* any senders and receivers, if nobody polls.                             *)
THEOREM MessagesOnce == ASSUME NoPolling PROVE Spec => []ExactlyOnce
<1>1. IInv => ExactlyOnce BY NoPolling DEF IInv, BufferWhole, ExactlyOnce
<1> QED BY <1>1, Invariance, PTL

(* No sender waits for room, or receiver for a message, that is there.     *)
THEOREM NobodyWaitsInVain == ASSUME NoPolling PROVE Spec => []NobodyLeftBehind
<1>1. IInv => NobodyLeftBehind BY NoPolling DEF IInv
<1> QED BY <1>1, Invariance, PTL

(* Each read of a blackboard returns what the completed displays left on   *)
(* it, also beside buffers that are polled (pok_blackboard_read).          *)
THEOREM ReadsAreAtomic == Spec => []ReadsAtomic
<1>1. ASSUME IInv PROVE ReadsAtomic
  <2> SUFFICES ASSUME NEW t \in Threads, At(t, "unlock"), call[t].op = "read",
                      NEW i \in 1..2
               PROVE  Shows(sent[Object(t)], i, call[t].msg[i])
    BY DEF ReadsAtomic
  <2> DEFINE o == Object(t)
  <2>1. call[t] # User /\ ~ InBuffer(t) /\ Holds(t)
    BY DEF At, User, InBuffer, Holds
  <2>2. o \in conf.boards BY <1>1, <2>1 DEF IInv, CallFits
  <2>3. call[t].msg[1] = board[o][1] /\ call[t].msg[2] = board[o][2]
    BY <1>1, <2>1 DEF IInv, KnowsBoard, At, Does
  <2>4. ~ \E u \in Threads : Displaying(u, o)
    BY <1>1, <2>1, <2>2 DEF IInv, Exclusion, Kept, Displaying, Holds, At, Does
  <2>5. Shows(sent[o], 1, board[o][1]) /\ Shows(sent[o], 2, board[o][2])
    BY <1>1, <2>2, <2>4 DEF IInv, BoardWhole
  <2> QED BY <2>3, <2>5
<1> QED BY <1>1, Invariance, PTL
=============================================================================
