----------------------------- MODULE WaitQueue -----------------------------
(***************************************************************************)
(* The queue of threads blocked on a lock object, as a sequence of thread  *)
(* identifiers with the head first.  The kernel keeps it in a ring buffer  *)
(* (pok_lockobj_fifo_t); module LockFifo models that ring, and shows that  *)
(* its operations are the ones below (module ThreadQueue).                 *)
(***************************************************************************)
EXTENDS SequencesExt

Disciplines == {"FIFO", "PRIORITY"}

(* Where a thread enters a priority queue: before the first thread of a    *)
(* strictly lower priority, so behind the ones of its own priority.        *)
InsertPosition(q, t, prio) ==
  CHOOSE i \in 1..Len(q) + 1 :
    /\ \A j \in 1..i - 1 : prio[t] <= prio[q[j]]
    /\ i <= Len(q) => prio[q[i]] < prio[t]

(* Mutants: every queue in order of arrival; last come, first served.      *)
Enqueue_AlwaysFifo(q, t, discipline, prio) == Append(q, t)
Enqueue_Lifo(q, t, discipline, prio) == <<t>> \o q

Enqueue(q, t, discipline, prio) ==
  IF discipline = "FIFO" THEN Append(q, t)
                         ELSE InsertAt(q, InsertPosition(q, t, prio), t)

(* Mutant: the head goes instead of t.                                     *)
RemoveThread_Head(q, t) == IF q = <<>> THEN q ELSE Tail(q)

(* Taking a thread that gives up out of the queue, wherever it is.         *)
RemoveThread(q, t) == RemoveFirst(q, t)

(* No thread is in the queue twice.                                        *)
Distinct(q) == \A i, j \in 1..Len(q) : q[i] = q[j] => i = j

(* Nobody waits behind a thread of lower priority.                         *)
SortedByPriority(q, prio) ==
  \A i, j \in 1..Len(q) : i <= j => prio[q[j]] <= prio[q[i]]
=============================================================================
