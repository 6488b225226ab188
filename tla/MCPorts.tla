------------------------------ MODULE MCPorts ------------------------------
(***************************************************************************)
(* Instances of Ports.                                                     *)
(***************************************************************************)
EXTENDS Ports, TLC

(* A port with two destinations, in two partitions, and callers that poll. *)
FanOut ==
  [owner |-> <<1, 2, 3>>, direction |-> <<"OUT", "IN", "IN">>,
   queueing |-> <<TRUE, TRUE, TRUE>>, size |-> <<2, 3, 2>>,
   destinations |-> (1 :> <<2, 3>>),
   slots |-> <<1, 2, 3>>, length |-> <<1, 1, 1>>,
   thread |-> <<1, 2, 3>>, uses |-> <<{1}, {2}, {3}>>,
   most |-> {1, 2}, lengths |-> {1}, messages |-> 4,
   blocking |-> FALSE, flush |-> "FRAME"]

(* A sender and a receiver that may wait, and a bystander; messages of two *)
(* units, of which the receiver takes up to three.                         *)
Waiters ==
  [owner |-> <<1, 2>>, direction |-> <<"OUT", "IN">>,
   queueing |-> <<TRUE, TRUE>>, size |-> <<2, 4>>,
   destinations |-> (1 :> <<2>>),
   slots |-> <<1, 2>>, length |-> <<1, 2>>,
   thread |-> <<1, 1, 2>>, uses |-> <<{1}, {}, {2}>>,
   most |-> {3}, lengths |-> {2}, messages |-> 4,
   blocking |-> TRUE, flush |-> "WINDOW"]

FrameWaiters == [Waiters EXCEPT !.flush = "FRAME"]

(* A sampling port and a queueing port of the same partition.              *)
Samples ==
  [owner |-> <<1, 1, 2, 2>>, direction |-> <<"OUT", "OUT", "IN", "IN">>,
   queueing |-> <<FALSE, TRUE, FALSE, TRUE>>, size |-> <<1, 2, 1, 2>>,
   destinations |-> (1 :> <<3>> @@ 2 :> <<4>>),
   slots |-> <<1, 2>>, length |-> <<2, 1>>,
   thread |-> <<1, 2>>, uses |-> <<{1, 2}, {3, 4}>>,
   most |-> {2}, lengths |-> {1}, messages |-> 3,
   blocking |-> FALSE, flush |-> "FRAME"]

PassConfigs == {FanOut, Waiters, FrameWaiters, Samples}

(* The hypotheses of theorems about ports hold in what is checked.         *)
ASSUME HypothesesHold == \A c \in PassConfigs : OneSource(c) /\ Orderly(c)
=============================================================================
