------------------------------ MODULE Buffers ------------------------------
(***************************************************************************)
(* Buffers and blackboards of a partition (src/libpok/middleware/buffer*.c *)
(* and blackboard*.c), which live in the memory of the partition and rely  *)
(* on an event of the kernel: it is their lock, and where threads wait.    *)
(*                                                                         *)
(* Threads may be preempted between any two steps.  A system call is one   *)
(* step.  Who waits for the lock is any thread that has come to lock it:   *)
(* the order in which module LockObj hands it over is left out.  A time-   *)
(* out may be over at any moment.                                          *)
(*                                                                         *)
(* Messages have the size of the buffer's slots: offsets count slots.      *)
(* A display may be shorter than its board, and then leaves the rest of    *)
(* what was displayed before.                                              *)
(***************************************************************************)
EXTENDS Integers, Sequences, FiniteSets, TLC

CONSTANT Configs   \* configurations of the partition

(* A configuration c: c.size, of each buffer, in messages; c.boards, the   *)
(* blackboards; c.uses: operation, object and time-out of the calls that   *)
(* each thread makes.                                                      *)
(* Bound: c.messages are put into each object.                             *)
Uses(c) ==
  [op : {"send", "receive"}, obj : DOMAIN c.size, timeout : Nat]
    \union [op : {"display", "read"}, obj : c.boards, timeout : Nat]

ASSUME ConfigsAssumption ==
  \A c \in Configs :
    /\ c.size \in [DOMAIN c.size -> Nat \ {0}]
    /\ c.boards \intersect DOMAIN c.size = {}
    /\ \A t \in DOMAIN c.uses : c.uses[t] \subseteq Uses(c)

VARIABLES
  conf,     \* the configuration: never changes
  call,     \* the call that each thread is in
  locked,   \* whether the lock of each object is taken
  waiters,  \* event_fifo of each lock
  buffer,   \* pok_buffers and pok_buffers_data
  board,    \* pok_blackboards_data, in two halves
  sent,     \* messages put into each buffer so far, an observation
  taken     \* messages taken out of it, likewise

vars == <<conf, call, locked, waiters, buffer, board, sent, taken>>

BufferIds == DOMAIN conf.size
Objects   == BufferIds \union conf.boards
Threads   == DOMAIN conf.uses

User == [at |-> "user"]

(* pok_buffer_init, pok_buffer_create, pok_blackboard_create.              *)
Init ==
  /\ conf \in Configs
  /\ call = [t \in Threads |-> User]
  /\ locked = [o \in Objects |-> FALSE]
  /\ waiters = [o \in Objects |-> {}]
  /\ buffer = [o \in BufferIds |->
       [b |-> 0, e |-> 0, empty |-> TRUE, full |-> FALSE,
        data |-> [i \in 0..(conf.size[o] - 1) |-> <<>>]]]
  /\ board = [o \in conf.boards |-> <<<<>>, <<>>>>]
  /\ sent = [o \in Objects |-> <<>>]
  /\ taken = [o \in Objects |-> <<>>]

(* The messages in a buffer r of s slots, the oldest first.                *)
Held(r, s) ==
  LET n == IF r.empty THEN 0 ELSE IF r.full THEN s ELSE (r.e - r.b) % s
  IN  [i \in 1..n |-> r.data[(r.b + i - 1) % s]]

Contents(o) == Held(buffer[o], conf.size[o])

At(t, step)   == call[t].at = step
Does(t, op)   == call[t].op = op
Object(t)     == call[t].obj
Go(t, step)   == call' = [call EXCEPT ![t].at = step]
Puts(op)      == op \in {"send", "display"}
InBuffer(t)   == call[t].op \in {"send", "receive"}
Observations  == <<sent, taken>>
Data          == <<buffer, board>>
-----------------------------------------------------------------------------
(* A thread calls.  A message is its sender, how many there were before,   *)
(* and its length, in halves of the object: len of a display is any up to  *)
(* the size of the board.                                                  *)
Begin(t) ==
  /\ At(t, "user")
  /\ \E use \in conf.uses[t], len \in 0..2 :
       /\ use.op # "display" => len = 2
       /\ Puts(use.op) => Len(sent[use.obj]) < conf.messages
       /\ call' = [call EXCEPT ![t] =
            [at |-> "lock", op |-> use.op, obj |-> use.obj, timeout |-> use.timeout,
             msg |-> IF Puts(use.op) THEN <<t, Len(sent[use.obj]), len>> ELSE <<>>]]
  /\ UNCHANGED <<conf, locked, waiters, Data, Observations>>

(* Mutant: the lock lets everybody in.                                     *)
Lock_Open(t) ==
  /\ call[t].at \in {"lock", "woken"}
  /\ locked' = [locked EXCEPT ![Object(t)] = TRUE]
  /\ Go(t, IF InBuffer(t) THEN "check" ELSE "copy")
  /\ UNCHANGED <<conf, waiters, Data, Observations>>

(* pok_event_lock, and the lock at the end of pok_event_wait.              *)
Lock(t) ==
  /\ call[t].at \in {"lock", "woken"} /\ ~locked[Object(t)]
  /\ locked' = [locked EXCEPT ![Object(t)] = TRUE]
  /\ Go(t, IF InBuffer(t) THEN "check" ELSE "copy")
  /\ UNCHANGED <<conf, waiters, Data, Observations>>

MustWait(t) ==
  IF Does(t, "send") THEN buffer[Object(t)].full ELSE buffer[Object(t)].empty

Check(t) ==
  /\ At(t, "check")
  /\ Go(t, IF ~MustWait(t) THEN "copy"
           ELSE IF call[t].timeout = 0 THEN "refuse" ELSE "wait")
  /\ UNCHANGED <<conf, locked, waiters, Data, Observations>>

(* No time-out: send fails; receive gives up the lock, and looks again.    *)
Refuse(t) ==
  /\ At(t, "refuse")
  /\ locked' = [locked EXCEPT ![Object(t)] = FALSE]
  /\ IF Does(t, "send") THEN call' = [call EXCEPT ![t] = User] ELSE Go(t, "check")
  /\ UNCHANGED <<conf, waiters, Data, Observations>>

(* pok_event_wait gives up the lock and waits, in one step.                *)
Wait(t) ==
  /\ At(t, "wait")
  /\ locked' = [locked EXCEPT ![Object(t)] = FALSE]
  /\ waiters' = [waiters EXCEPT ![Object(t)] = @ \union {t}]
  /\ Go(t, "waiting")
  /\ UNCHANGED <<conf, Data, Observations>>

(* The deadline has passed, for a thread that waits or was just woken:     *)
(* pok_event_wait returns with the lock, which is given up.                *)
TimeOut(t) ==
  /\ call[t].at \in {"waiting", "woken"} /\ ~locked[Object(t)]
  /\ waiters' = [waiters EXCEPT ![Object(t)] = @ \ {t}]
  /\ call' = [call EXCEPT ![t] = User]
  /\ UNCHANGED <<conf, locked, Data, Observations>>
-----------------------------------------------------------------------------
(* With the lock: the message is copied to or from the slot, then the      *)
(* offsets and flags change.  A blackboard is copied in two halves.        *)
Consumed(r, s) ==
  LET b == (r.b + 1) % s
  IN  [r EXCEPT !.b = b, !.empty = (b = r.e) \/ @, !.full = FALSE]

Filled(r, s) ==
  LET e == (r.e + 1) % s
  IN  [r EXCEPT !.e = e, !.full = (e = r.b) \/ @, !.empty = FALSE]

Has(t, message, step) == call' = [call EXCEPT ![t].msg = message, ![t].at = step]
Put(t)                == sent' = [sent EXCEPT ![Object(t)] = Append(@, call[t].msg)]

SendCopy(t) ==
  /\ At(t, "copy") /\ Does(t, "send")
  /\ LET o == Object(t)
     IN  buffer' = [buffer EXCEPT ![o].data[buffer[o].e] = call[t].msg]
  /\ Go(t, "advance")
  /\ UNCHANGED <<conf, locked, waiters, board, Observations>>

SendAdvance(t) ==
  /\ At(t, "advance") /\ Does(t, "send")
  /\ LET o == Object(t)
     IN  buffer' = [buffer EXCEPT ![o] = Filled(@, conf.size[o])]
  /\ Put(t) /\ Go(t, "unlock")
  /\ UNCHANGED <<conf, locked, waiters, board, taken>>

ReceiveCopy(t) ==
  /\ At(t, "copy") /\ Does(t, "receive")
  /\ LET r == buffer[Object(t)]
     IN  Has(t, r.data[r.b], "advance")
  /\ UNCHANGED <<conf, locked, waiters, Data, Observations>>

ReceiveAdvance(t) ==
  /\ At(t, "advance") /\ Does(t, "receive")
  /\ LET o == Object(t)
     IN  /\ buffer' = [buffer EXCEPT ![o] = Consumed(@, conf.size[o])]
         /\ taken' = [taken EXCEPT ![o] = Append(@, call[t].msg)]
  /\ Go(t, "unlock")
  /\ UNCHANGED <<conf, locked, waiters, board, sent>>

(* Whether a message is long enough for half i of its board.               *)
Reaches(message, i) == message[3] >= i

DisplayFirst(t) ==
  /\ At(t, "copy") /\ Does(t, "display")
  /\ board' = IF Reaches(call[t].msg, 1)
              THEN [board EXCEPT ![Object(t)][1] = call[t].msg] ELSE board
  /\ Go(t, "advance")
  /\ UNCHANGED <<conf, locked, waiters, buffer, Observations>>

DisplaySecond(t) ==
  /\ At(t, "advance") /\ Does(t, "display")
  /\ board' = IF Reaches(call[t].msg, 2)
              THEN [board EXCEPT ![Object(t)][2] = call[t].msg] ELSE board
  /\ Put(t) /\ Go(t, "unlock")
  /\ UNCHANGED <<conf, locked, waiters, buffer, taken>>

(* A read is of the whole board, whatever the length of the last display.  *)
ReadFirst(t) ==
  /\ At(t, "copy") /\ Does(t, "read")
  /\ Has(t, <<board[Object(t)][1]>>, "advance")
  /\ UNCHANGED <<conf, locked, waiters, Data, Observations>>

ReadSecond(t) ==
  /\ At(t, "advance") /\ Does(t, "read")
  /\ Has(t, Append(call[t].msg, board[Object(t)][2]), "unlock")
  /\ UNCHANGED <<conf, locked, waiters, Data, Observations>>

(* pok_event_unlock.                                                       *)
Unlock(t) ==
  /\ At(t, "unlock")
  /\ locked' = [locked EXCEPT ![Object(t)] = FALSE]
  /\ IF InBuffer(t) THEN Go(t, "broadcast") ELSE call' = [call EXCEPT ![t] = User]
  /\ UNCHANGED <<conf, waiters, Data, Observations>>

(* Mutant: a receiver wakes nobody.                                        *)
Broadcast_SenderOnly(t) ==
  /\ At(t, "broadcast")
  /\ LET woken == IF Does(t, "send") THEN waiters[Object(t)] ELSE {}
     IN  /\ waiters' = [waiters EXCEPT ![Object(t)] = @ \ woken]
         /\ call' = [u \in Threads |->
              IF u = t THEN User
              ELSE IF u \in woken THEN [call[u] EXCEPT !.at = "woken"] ELSE call[u]]
  /\ UNCHANGED <<conf, locked, Data, Observations>>

(* pok_event_broadcast wakes senders and receivers alike.                  *)
Broadcast(t) ==
  /\ At(t, "broadcast")
  /\ waiters' = [waiters EXCEPT ![Object(t)] = {}]
  /\ call' = [u \in Threads |->
       IF u = t THEN User
       ELSE IF u \in waiters[Object(t)] THEN [call[u] EXCEPT !.at = "woken"]
       ELSE call[u]]
  /\ UNCHANGED <<conf, locked, Data, Observations>>

Next ==
  \E t \in Threads :
    \/ Begin(t) \/ Lock(t) \/ Check(t) \/ Refuse(t) \/ Wait(t) \/ TimeOut(t)
    \/ SendCopy(t) \/ SendAdvance(t) \/ ReceiveCopy(t) \/ ReceiveAdvance(t)
    \/ DisplayFirst(t) \/ DisplaySecond(t) \/ ReadFirst(t) \/ ReadSecond(t)
    \/ Unlock(t) \/ Broadcast(t)

Spec == Init /\ [][Next]_vars
-----------------------------------------------------------------------------
TypeOK ==
  /\ locked \in [Objects -> BOOLEAN]
  /\ \A o \in Objects : \A t \in waiters[o] : At(t, "waiting") /\ Object(t) = o
  /\ \A t \in Threads : At(t, "waiting") => t \in waiters[Object(t)]
  /\ \A o \in BufferIds :
       LET r == buffer[o]
       IN  /\ {r.b, r.e} \subseteq 0..(conf.size[o] - 1)
           /\ (r.b = r.e) = (r.empty \/ r.full)
           /\ ~(r.empty /\ r.full)

(* What is put into a buffer is what was taken out of it, followed by what *)
(* is in it: nothing is lost, doubled or overtaken, whoever sends and      *)
(* receives at the same time.                                              *)
ExactlyOnce == \A o \in BufferIds : sent[o] = taken[o] \o Contents(o)

(* Nobody waits for what is there already, unless the thread that brought  *)
(* it has not come to its broadcast: a sender does not wait for room or a  *)
(* receiver for messages in vain.                                          *)
NobodyLeftBehind ==
  \A o \in BufferIds : \A t \in waiters[o] :
    \/ MustWait(t)
    \/ \E u \in Threads :
         call[u].at \in {"unlock", "broadcast"} /\ Object(u) = o

(* After the displays q, half i of their board holds h: that of the last   *)
(* display which is long enough.                                           *)
Shows(q, i, h) ==
  \/ h = <<>> /\ \A k \in 1..Len(q) : ~ Reaches(q[k], i)
  \/ \E k \in 1..Len(q) :
       /\ h = q[k] /\ Reaches(q[k], i)
       /\ \A j \in (k + 1)..Len(q) : ~ Reaches(q[j], i)

(* A blackboard is read as the completed displays have left it, and never  *)
(* amid another: both halves are those of one moment, whoever displays and *)
(* however short the messages are (blackboarddisplay.c, blackboardread.c). *)
ReadsAtomic ==
  \A t \in Threads : At(t, "unlock") /\ call[t].op = "read" =>
    \A i \in 1..2 : Shows(sent[Object(t)], i, call[t].msg[i])
=============================================================================
