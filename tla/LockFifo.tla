------------------------------ MODULE LockFifo ------------------------------
(***************************************************************************)
(* pok_lockobj_fifo_t: the ring buffer of threads that wait for a lock     *)
(* object (src/kernel/core/lockobj.c, from pok_lockobj_fifo_init on).  The *)
(* ring has one slot for every thread of the system, head and last meet    *)
(* both when it is empty and when it is full, and threads leave from       *)
(* anywhere.  It implements ThreadQueue.                                   *)
(*                                                                         *)
(* The callers' part: a thread enters one queue at a time, and only threads*)
(* of the system enter.                                                    *)
(***************************************************************************)
EXTENDS Integers, FiniteSetsExt

CONSTANTS
  Threads,  \* the threads that may wait
  Prio,     \* priority of each thread
  N,        \* POK_CONFIG_NB_THREADS
  Nobody    \* what a slot holds before it is used

ASSUME RingAssumption ==
  /\ N \in Nat \ {0}
  /\ IsFiniteSet(Threads) /\ Cardinality(Threads) <= N
  /\ Prio \in [Threads -> Nat]
  /\ Nobody \notin Threads

VARIABLES
  discipline, \* the queueing discipline the object was created with
  buffer,
  head,
  last,       \* the slot after the last thread
  is_empty

vars  == <<discipline, buffer, head, last, is_empty>>
Slots == 0..N - 1

TypeOK ==
  /\ discipline \in {"FIFO", "PRIORITY"}
  /\ buffer \in [Slots -> Threads \union {Nobody}]
  /\ head \in Slots /\ last \in Slots
  /\ is_empty \in BOOLEAN

Init ==
  /\ discipline \in {"FIFO", "PRIORITY"}
  /\ buffer = [i \in Slots |-> Nobody]
  /\ head = 0 /\ last = 0
  /\ is_empty = TRUE
-----------------------------------------------------------------------------
Plus(i, k) == (i + k) % N

(* How many slots after i slot j comes.                                    *)
Behind(i, j) == (j - i) % N

EnqueueFifo(t) ==
  /\ discipline = "FIFO"
  /\ is_empty \/ last # head            \* POK_ERRNO_FULL
  /\ buffer' = [buffer EXCEPT ![last] = t]
  /\ last' = Plus(last, 1)
  /\ is_empty' = FALSE
  /\ UNCHANGED <<discipline, head>>

(* Mutant: a thread of equal priority is overtaken.                        *)
InsertSlot_BeforeEquals(t) ==
  Plus(head, Min({k \in 0..Behind(head, last) :
    k = Behind(head, last) \/ Prio[t] >= Prio[buffer[Plus(head, k)]]}))

(* The scan stops at the first thread of lower priority, or at last.       *)
InsertSlot(t) ==
  Plus(head, Min({k \in 0..Behind(head, last) :
    k = Behind(head, last) \/ Prio[t] > Prio[buffer[Plus(head, k)]]}))

EnqueuePriority(t) ==
  LET i == InsertSlot(t)
  IN /\ discipline = "PRIORITY"
     /\ buffer' = [j \in Slots |->
          IF j = i THEN t
          ELSE IF Behind(i, j) <= Behind(i, last) THEN buffer[Plus(j, -1)]
          ELSE buffer[j]]
     /\ last' = Plus(last, 1)
     /\ is_empty' = FALSE
     /\ UNCHANGED <<discipline, head>>

Dequeue ==
  /\ ~ is_empty                         \* POK_ERRNO_EMPTY
  /\ head' = Plus(head, 1)
  /\ is_empty' = (last = head')
  /\ UNCHANGED <<discipline, buffer, last>>

(* The distances from head of the slots in use.                            *)
Used == IF is_empty THEN {} ELSE 0..Plus(Behind(head, last), -1)

Waiting(t) == \E k \in Used : buffer[Plus(head, k)] = t

(* The slots between the thread and last move up.                          *)
RemoveThread(t) ==
  LET found == {j \in Used : buffer[Plus(head, j)] = t}
      slot  == Plus(head, Min(found))
  IN /\ found # {}                      \* POK_ERRNO_NOTFOUND
     /\ last' = Plus(last, -1)
     /\ buffer' = [j \in Slots |->
          IF Behind(slot, j) < Behind(slot, last')
          THEN buffer[Plus(j, 1)] ELSE buffer[j]]
     /\ is_empty' = (last' = head)
     /\ UNCHANGED <<discipline, head>>

Next ==
  \/ \E t \in Threads :
       \/ ~ Waiting(t) /\ (EnqueueFifo(t) \/ EnqueuePriority(t))
       \/ RemoveThread(t)
  \/ Dequeue

Spec == Init /\ [][Next]_vars
-----------------------------------------------------------------------------
(* The contents of the ring, head first.                                   *)
Contents ==
  [k \in 1..Cardinality(Used) |->
     buffer[Plus(head, k - 1)]]

Queue == INSTANCE ThreadQueue WITH queue <- Contents

(* Whatever wraps around, fills up or leaves from the middle, the ring is  *)
(* the queue the lock objects count on.                                    *)
ImplementsQueue == Queue!Spec

=============================================================================
