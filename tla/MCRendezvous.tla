---------------------------- MODULE MCRendezvous ----------------------------
(***************************************************************************)
(* Four processors, the smallest number at which two of them can be late   *)
(* while a third starts the next round and a fourth has already joined it. *)
(***************************************************************************)
EXTENDS Rendezvous

MCProcs == 1..4
=============================================================================
