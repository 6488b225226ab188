----------------------------- MODULE MCLockFifo -----------------------------
(***************************************************************************)
(* A ring of four slots and as many threads, two of them of one priority.  *)
(***************************************************************************)
EXTENDS LockFifo

MCThreads == 1..4
MCPrio    == <<10, 20, 10, 5>>
=============================================================================
