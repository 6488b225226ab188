------------------------------- MODULE Ports -------------------------------
(***************************************************************************)
(* Queueing and sampling ports between partitions, and the flush that      *)
(* carries messages from one to the other when the scheduler changes the   *)
(* partition (src/kernel/middleware/port*.c, pok_elect_partition).         *)
(*                                                                         *)
(* One processor, slots of one partition each.  Interrupts are disabled in *)
(* the kernel, so that a call runs until it blocks: the lock of a port is  *)
(* always free when a call wants it and is left out.  The flush does not   *)
(* block, but where it wakes a thread it reschedules, and the thread that  *)
(* was interrupted by the timer goes on with the flush when it is elected  *)
(* again: call holds what a thread has left to do in the kernel.           *)
(*                                                                         *)
(* Any ready thread of the partition may be elected.  A time-out may be    *)
(* over at any election.                                                   *)
(***************************************************************************)
EXTENDS PortRing, FiniteSets, FiniteSetsExt, SequencesExt, Functions

CONSTANTS
  Configs,   \* configurations of the system
  MaxSize    \* POK_PORT_MAX_SIZE

VARIABLES
  conf,     \* the configuration: never changes
  mode,     \* mode of each partition
  port,     \* pok_ports: ring, ready, must_be_flushed
  waiting,  \* the event_fifo of each port's lock
  state,    \* state of each thread
  call,     \* what each thread has left to do in the kernel
  buffer,   \* pok_buffer_flush
  cur,      \* POK_SCHED_CURRENT_PARTITION
  run,      \* POK_SCHED_CURRENT_THREAD
  slot,     \* pok_sched_current_slot, from 1
  left,     \* pok_sched_next_deadline, from now
  frame,    \* pok_sched_next_major_frame, from now
  sent,     \* number of messages accepted by each port, an observation
  got       \* what the last receiver or reader of a port got, likewise

clock   == <<slot, left, frame>>
threads == <<state, call, run>>
seen    == <<sent, got>>
vars    == <<conf, mode, port, waiting, threads, buffer, cur, clock, seen>>

(* conf.owner, direction, queueing, size: of ports; destinations of OUT    *)
(* ports; slots: their partitions; length: of slots, in quanta; thread:    *)
(* partition of each thread but main and idle ones; uses: the ports that   *)
(* programs of a thread use; most: the units a receiver takes at most;     *)
(* lengths: of messages; blocking: whether calls have a time-out.          *)
(* Bound: conf.messages are accepted by each port.                         *)
AllPorts   == UNION {DOMAIN c.owner : c \in Configs}
Ports      == DOMAIN conf.owner
Partitions == ToSet(conf.slots)
Threads    == DOMAIN conf.thread
Idle       == 0
Main(p)    == -p
AllThreads == Threads \union {Idle} \union {Main(p) : p \in Partitions}
Size(o)    == conf.size[o]
In         == {o \in Ports : conf.direction[o] = "IN"}
Out        == Ports \ In
Queueing   == {o \in Ports : conf.queueing[o]}
Sources    == Out \cap Queueing
Sinks      == In \cap Queueing
MajorFrame == SumFunction(conf.length)

(* Messages are not empty.                                                 *)
Consistent(c) ==
  LET ports == DOMAIN c.owner IN
  /\ \A o \in ports :
       /\ c.direction[o] \in {"IN", "OUT"} /\ c.queueing[o] \in BOOLEAN
       /\ c.size[o] \in 1..MaxSize
       /\ ~c.queueing[o] => c.size[o] = 1
       /\ c.direction[o] = "OUT" =>
            /\ c.destinations[o] \in Seq(ports)
            /\ \A d \in ToSet(c.destinations[o]) :
                 c.direction[d] = "IN" /\ c.queueing[d] = c.queueing[o]
  /\ c.lengths \subseteq Nat \ {0} /\ c.most \subseteq Nat \ {0}
  /\ c.slots \in Seq(Nat \ {0}) /\ c.slots # <<>>
  /\ DOMAIN c.length = DOMAIN c.slots
  /\ \A s \in DOMAIN c.slots : c.length[s] > 0

ASSUME ConfigsAssumption ==
  /\ MaxSize \in Nat /\ 0 < MaxSize /\ 2 * MaxSize < SizeLimit
  /\ \A c \in Configs : Consistent(c)

(* A port is the destination of one port, as in an ARINC 653 channel.      *)
OneSource(c) ==
  \A o, q \in DOMAIN c.owner :
    c.direction[o] = "OUT" /\ c.direction[q] = "OUT" /\ o # q =>
      ToSet(c.destinations[o]) \intersect ToSet(c.destinations[q]) = {}

(* Messages have one length, of which the sizes of sources are multiples;  *)
(* no port is twice a destination of a source; and where calls wait, a     *)
(* source has one destination, so that nobody who is woken by a delivery   *)
(* flushes again before the next one.                                      *)
Orderly(c) ==
  /\ \A m, n \in c.lengths : m = n
  /\ \A o \in DOMAIN c.owner : c.direction[o] = "OUT" /\ c.queueing[o] =>
       /\ \A n \in c.lengths : c.size[o] % n = 0
       /\ IsInjective(c.destinations[o])
       /\ c.blocking => Len(c.destinations[o]) <= 1

User      == [at |-> "user"]
Calling(o, n) == [at |-> "wait", port |-> o, len |-> n]
Flushing(todo) == [at |-> "next", todo |-> todo]

(* Mutant: the flush starts with the second partition.                     *)
FlushList_SkipsOne == {o \in Out : conf.owner[o] # 1}

(* The ports that a flush looks at: all, or those of the partition whose   *)
(* slot is over (POK_NEEDS_FLUSH_ON_WINDOWS).                              *)
FlushList == IF conf.flush = "WINDOW" THEN {o \in Out : conf.owner[o] = cur} ELSE Out

(* It takes them partition by partition.                                   *)
Before(o, q) ==
  \/ conf.owner[o] < conf.owner[q]
  \/ conf.owner[o] = conf.owner[q] /\ o <= q

Init ==
  /\ conf \in Configs
  /\ mode = [p \in Partitions |-> "INIT"]
  /\ port = [o \in Ports |-> NewPort(Size(o))]
  /\ waiting = [o \in Ports |-> {}]
  /\ state = [t \in AllThreads |-> "RUNNABLE"]
  /\ call = [t \in AllThreads |-> User]
  /\ buffer = [i \in 1..MaxSize |-> 0]
  /\ run = Idle /\ cur = conf.slots[1]
  /\ slot = 1 /\ left = conf.length[1] /\ frame = MajorFrame
  /\ sent = [o \in Out |-> 0]
  /\ got = [d \in In |-> <<>>]

(* What is left of a flush at its next port, and in the middle of one.     *)
NextType == [at : {"next"}, todo : SUBSET Out]
StepType ==
  {k \in [at : {"dests", "clear"}, todo : SUBSET Out, source : Out,
          len : 1..MaxSize, dests : Seq(Ports)] :
     /\ ToSet(k.dests) \subseteq ToSet(conf.destinations[k.source])
     /\ k.at = "clear" => k.dests = <<>>}
CallType == {User} \union [at : {"wait"}, port : Ports, len : Nat]
              \union NextType \union StepType

(* The flags of a port tell whether offsets that are equal mean an empty   *)
(* port or a full one (portutils.c); a port that is not created is empty.  *)
Flagged(o, r) ==
  /\ r \in PortType(Size(o))
  /\ r.b = r.e => r.empty \/ r.full \/ o \notin Queueing
  /\ r.empty => r.b = r.e /\ ~r.full
  /\ o \notin Queueing => r.e = 0 /\ ~r.full
  /\ ~r.ready => r.empty
  /\ r.flush => o \in Out

TypeOK ==
  /\ conf \in Configs
  /\ mode \in [Partitions -> {"INIT", "NORMAL"}]
  /\ DOMAIN port = Ports /\ \A o \in Ports : Flagged(o, port[o])
  /\ waiting \in [Ports -> SUBSET AllThreads]
  /\ state \in [AllThreads -> {"RUNNABLE", "WAITING"}]
  /\ call \in [AllThreads -> CallType]
  /\ buffer \in [1..MaxSize -> Nat]
  /\ run \in AllThreads /\ cur \in Partitions /\ slot \in DOMAIN conf.slots
  /\ sent \in [Out -> Nat]
-----------------------------------------------------------------------------
(* pok_elect_thread and the switch; S: states of the threads, M: modes of  *)
(* the partitions.                                                         *)
Expirable(S, p) == {t \in Threads : conf.thread[t] = p /\ S[t] = "WAITING"} \ {run}

Woken(S, T) == [t \in AllThreads |-> IF t \in T THEN "RUNNABLE" ELSE S[t]]

Dispatch(S, M, p) ==
  \E late \in SUBSET Expirable(S, p) :
    LET ready == {t \in Threads : conf.thread[t] = p /\ state'[t] = "RUNNABLE"}
    IN  /\ state' = Woken(S, late)
        /\ run' \in IF M[p] = "INIT" THEN {Main(p)}
                    ELSE IF ready = {} THEN {Idle} ELSE ready

(* pok_elect_partition at the end of a slot: what follows is in the kernel.*)
(* (The frame is kept, and not used, where ports are flushed by window.)   *)
Boundary(toDeadline, toFrame) ==
  LET due == conf.flush = "WINDOW" \/ toFrame <= 0
  IN  /\ left' = toDeadline
      /\ frame' = IF toFrame <= 0 THEN toFrame + MajorFrame ELSE toFrame
      /\ call' = [call EXCEPT ![run] = Flushing(IF due THEN FlushList ELSE {})]
      /\ UNCHANGED <<slot, state, run>>

GlobalSched(M, toDeadline, toFrame) ==
  \/ toDeadline <= 0 /\ Boundary(toDeadline, toFrame)
  \/ /\ toDeadline > 0
     /\ Dispatch(state, M, cur)
     /\ left' = toDeadline /\ frame' = toFrame
     /\ UNCHANGED <<slot, call>>

AtUser == call[run].at = "user"

Tick ==
  /\ AtUser
  /\ GlobalSched(mode, left - 1, frame - 1)
  /\ UNCHANGED <<conf, mode, port, waiting, buffer, cur, seen>>
-----------------------------------------------------------------------------
(* Mutant: nobody is woken.                                                *)
Broadcast_None(o) == UNCHANGED <<waiting, state, run>>

(* pok_lockobj_eventbroadcast: who waits becomes ready, and the processor  *)
(* is rescheduled, in the middle of the caller.                            *)
Broadcast(o) ==
  /\ waiting' = [waiting EXCEPT ![o] = {}]
  /\ IF waiting[o] = {} THEN UNCHANGED <<state, run>>
     ELSE Dispatch(Woken(state, waiting[o]), mode, cur)

At(step) == call[run].at = step
Goto(k)  == call' = [call EXCEPT ![run] = k]

(* pok_port_flush_partition: the next port, if it has something to flush.  *)
(* The modes count for pok_port_flushall only.                             *)
ToFlush(o) ==
  /\ conf.flush = "WINDOW" \/ mode[conf.owner[o]] = "NORMAL"
  /\ ~port[o].empty /\ port[o].flush

Fetch(o, n) ==
  buffer' = [i \in DOMAIN buffer |->
    IF i > n THEN buffer[i] ELSE Units(port[o], n, Size(o))[i]]

FlushPort ==
  /\ At("next")
  /\ \E o \in call[run].todo :
       LET n    == Consumed(port[o], Size(o))
           rest == call[run].todo \ {o}
       IN  /\ \A q \in rest : Before(o, q)
           /\ IF ToFlush(o)
              THEN /\ Fetch(o, n)
                   /\ port' = [port EXCEPT ![o] = IF o \in Queueing THEN Got(@, n, Size(o)) ELSE @]
                   /\ Goto([at |-> "dests", todo |-> rest, source |-> o, len |-> n,
                            dests |-> conf.destinations[o]])
              ELSE Goto(Flushing(rest)) /\ UNCHANGED <<port, buffer>>
  /\ UNCHANGED <<conf, mode, waiting, state, run, cur, clock, seen>>

Batch(n) == [i \in 1..n |-> buffer[i]]

(* Mutant: a sampling port that holds a sample is full.                    *)
Delivered_OnceOnly(d, n) ==
  IF d \in Queueing THEN Written(port[d], Batch(n), Size(d))
  ELSE IF port[d].empty THEN Sampled(port[d], buffer[1])
  ELSE port[d]

(* ... to the next destination, whatever pok_port_write says.              *)
Delivered(d, n) ==
  IF d \in Queueing THEN Written(port[d], Batch(n), Size(d))
                    ELSE Sampled(port[d], buffer[1])

FlushDestination ==
  /\ At("dests") /\ call[run].dests # <<>>
  /\ LET d == Head(call[run].dests)
     IN  IF port[d].ready
         THEN /\ port' = [port EXCEPT ![d] = Delivered(d, call[run].len)]
              /\ Broadcast(d)
         ELSE UNCHANGED <<port, waiting, state, run>>
  /\ Goto([call[run] EXCEPT !.dests = Tail(@)])
  /\ UNCHANGED <<conf, mode, buffer, cur, clock, seen>>

(* ... then the threads that wait for room.                                *)
FlushSource ==
  /\ At("dests") /\ call[run].dests = <<>>
  /\ Broadcast(call[run].source)
  /\ Goto([call[run] EXCEPT !.at = "clear"])
  /\ UNCHANGED <<conf, mode, port, buffer, cur, clock, seen>>

FlushClear ==
  /\ At("clear")
  /\ port' = [port EXCEPT ![call[run].source].flush = FALSE]
  /\ Goto(Flushing(call[run].todo))
  /\ UNCHANGED <<conf, mode, waiting, state, run, buffer, cur, clock, seen>>

(* The end of pok_elect_partition, and pok_global_sched_thread.            *)
NextSlot == (slot % Len(conf.slots)) + 1

EndFlush ==
  /\ At("next") /\ call[run].todo = {}
  /\ slot' = NextSlot
  /\ left' = left + conf.length[slot']
  /\ cur' = conf.slots[slot']
  /\ Goto(User)
  /\ Dispatch(state, mode, cur')
  /\ UNCHANGED <<conf, mode, port, waiting, buffer, frame, seen>>
-----------------------------------------------------------------------------
(* pok_port_create, by the main thread of the owner.  Programs create the  *)
(* ports of their partition before they go to NORMAL mode.                 *)
Create(o) ==
  /\ AtUser /\ run = Main(cur) /\ mode[cur] = "INIT"
  /\ conf.owner[o] = cur /\ ~port[o].ready
  /\ port' = [port EXCEPT ![o].ready = TRUE]
  /\ UNCHANGED <<conf, mode, waiting, threads, buffer, cur, clock, seen>>

SetNormal ==
  /\ AtUser /\ run = Main(cur) /\ mode[cur] = "INIT"
  /\ \A o \in Ports : conf.owner[o] = cur => port[o].ready
  /\ mode' = [mode EXCEPT ![cur] = "NORMAL"]
  /\ GlobalSched(mode', left, frame)
  /\ UNCHANGED <<conf, port, waiting, buffer, cur, seen>>

Uses(o) == AtUser /\ run \in Threads /\ o \in conf.uses[run]

(* pok_lockobj_eventwait, on the way in.                                   *)
Wait(o, n) ==
  /\ conf.blocking
  /\ waiting' = [waiting EXCEPT ![o] = @ \union {run}]
  /\ Goto(Calling(o, n))
  /\ Dispatch([state EXCEPT ![run] = "WAITING"], mode, cur)
  /\ UNCHANGED <<port, seen>>

(* ... and on the way out: the deadline has passed, whoever made the       *)
(* thread ready, or it was woken.                                          *)
TimedOut(o) ==
  /\ At("wait") /\ call[run].port = o
  /\ waiting' = [waiting EXCEPT ![o] = @ \ {run}]
  /\ Goto(User)
  /\ UNCHANGED <<conf, mode, port, state, run, buffer, cur, clock, seen>>

MayTry(o, n) ==
  \/ Uses(o)
  \/ call[run] = Calling(o, n) /\ run \notin waiting[o]

(* pok_port_queueing_send.                                                 *)
Fits(o, n) == n <= Available(port[o], Size(o))

Put(o, n) ==
  /\ sent[o] < conf.messages
  /\ sent' = [sent EXCEPT ![o] = @ + 1]
  /\ port' = [port EXCEPT ![o] =
       [Written(@, [i \in 1..n |-> sent'[o]], Size(o)) EXCEPT !.flush = TRUE]]
  /\ Goto(User)
  /\ UNCHANGED <<waiting, state, run, got>>

Send(o, n) ==
  /\ o \in Sources /\ port[o].ready /\ n <= Size(o) /\ MayTry(o, n)
  /\ IF Fits(o, n) THEN Put(o, n) ELSE Wait(o, n)
  /\ UNCHANGED <<conf, mode, buffer, cur, clock>>

(* pok_port_queueing_receive of at most n units.                           *)
Take(d, n) ==
  LET m == IF n < Consumed(port[d], Size(d)) THEN n ELSE Consumed(port[d], Size(d))
  IN  /\ got' = [got EXCEPT ![d] = Units(port[d], m, Size(d))]
      /\ port' = [port EXCEPT ![d] = Got(@, m, Size(d))]
      /\ Goto(User)
      /\ UNCHANGED <<waiting, state, run, sent>>

Receive(d, n) ==
  /\ d \in Sinks /\ port[d].ready /\ MayTry(d, n)
  /\ IF port[d].empty THEN Wait(d, n) ELSE Take(d, n)
  /\ UNCHANGED <<conf, mode, buffer, cur, clock>>

(* pok_port_sampling_write, pok_port_sampling_read.                        *)
Write(o) ==
  /\ Uses(o) /\ o \in Out \ Queueing /\ port[o].ready
  /\ sent[o] < conf.messages
  /\ sent' = [sent EXCEPT ![o] = @ + 1]
  /\ port' = [port EXCEPT ![o] = [Sampled(@, sent'[o]) EXCEPT !.flush = TRUE]]
  /\ UNCHANGED <<conf, mode, waiting, threads, buffer, cur, clock, got>>

(* Bound: programs pass addresses of their partition.  For any other the   *)
(* read fails and keeps the lock of the port (portsamplingread.c:63).      *)
Read(d) ==
  /\ Uses(d) /\ d \in In \ Queueing /\ port[d].ready /\ ~port[d].empty
  /\ got' = [got EXCEPT ![d] = <<port[d].data[0]>>]
  /\ UNCHANGED <<conf, mode, port, waiting, threads, buffer, cur, clock, sent>>
-----------------------------------------------------------------------------
Kernel == FlushPort \/ FlushDestination \/ FlushSource \/ FlushClear \/ EndFlush

Next ==
  \/ Tick \/ Kernel
  \/ \E o \in Ports : Create(o) \/ TimedOut(o) \/ Write(o) \/ Read(o)
  \/ \E o \in Ports, n \in conf.lengths : Send(o, n)
  \/ \E o \in Ports, n \in conf.most : Receive(o, n)
  \/ SetNormal

Spec == Init /\ [][Next]_vars
-----------------------------------------------------------------------------
(* Nobody sleeps beside what it waits for: a receiver waits for an empty   *)
(* port, a sender for a full one or for the end of the flush that emptied  *)
(* it (portflushall.c: "We notify every waiting thread").                  *)
Offering(o) == {t \in AllThreads : call[t].at = "dests" /\ call[t].source = o}

WaitsForReason ==
  \A o \in Ports : waiting[o] # {} =>
    \/ o \in In /\ port[o].empty
    \/ o \in Out /\ (port[o].full \/ Offering(o) # {})

(* A sample that is not waiting for the flush is the one that destinations *)
(* hold: none is forgotten, and none is replaced by an older one.          *)
SamplesCurrent ==
  \A o \in Out \ Queueing : \A d \in ToSet(conf.destinations[o]) :
    ~port[o].flush /\ ~port[d].empty => port[d].data[0] = sent[o]

(* Queueing ports carry messages in order, at most once and in batches     *)
(* (Channel), through their rings, the buffer of the flush and what is     *)
(* left of it when the scheduler changes the thread.                       *)
Open(o) == {t \in Offering(o) : call[t].dests # <<>>}

Ends    == [o \in Sources |-> ToSet(conf.destinations[o])]
Held    == [o \in Sources |-> Contents(port[o], Size(o))]
Air     == [o \in Sources |->
             IF Open(o) = {} THEN <<>> ELSE Batch(call[CHOOSE t \in Open(o) : TRUE].len)]
Due     == [o \in Sources |-> UNION {ToSet(call[t].dests) : t \in Open(o)}]
Arrived == [d \in Sinks |-> Contents(port[d], Size(d))]

Channel == INSTANCE Channel WITH
  ends <- Ends, sent <- Restrict(sent, Sources), src <- Held, air <- Air,
  due <- Due, dst <- Arrived, got <- Restrict(got, Sinks)

ImplementsChannel == Channel!Spec

(* The timer runs, and the kernel comes to an end.                         *)
FairSpec == Spec /\ WF_vars(Tick) /\ WF_vars(Kernel)

(* Callers that poll: what a port accepted is offered to its destinations. *)
(* Where callers may wait, a message sent between a broadcast of the flush *)
(* and its end is not marked any more.                                     *)
MovesOn ==
  \A o \in AllPorts :
    (o \in Sources /\ ~conf.blocking /\ ~port[o].empty) ~> (Offering(o) # {})
=============================================================================
