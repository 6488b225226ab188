----------------------------- MODULE MCLockObj -----------------------------
(***************************************************************************)
(* Small instances of LockObj: three threads on two processors, the third  *)
(* thread being alone on the second.                                       *)
(***************************************************************************)
EXTENDS LockObj

MCThreads == {1, 2, 3}
MCProcs   == {0, 1}
MCProc    == <<0, 0, 1>>
MCPrio    == <<10, 20, 10>>

(* For liveness: each thread has a processor of its own.                   *)
OwnProcs == {0, 1, 2}
OwnProc  == <<0, 1, 2>>

Attr(kind, policy, initial, max) ==
  [kind |-> kind, queueing_policy |-> policy,
   initial_value |-> initial, max_value |-> max]

MutexAttrs     == {Attr("MUTEX", d, 0, 0) : d \in Disciplines}
FifoMutexAttrs == {Attr("MUTEX", "FIFO", 0, 0)}
SemAttrs       == {Attr("SEMAPHORE", d, i, 1) : d \in Disciplines, i \in 0..2}
EventAttrs     == {Attr("EVENT", "FIFO", 0, 0)}
AllAttrs       == MutexAttrs \union SemAttrs \union EventAttrs
=============================================================================
