------------------------------ MODULE Channel ------------------------------
(***************************************************************************)
(* What queueing ports promise: messages of a port arrive in the order in  *)
(* which they were sent, each destination gets a message at most once, and *)
(* batch by batch.  A destination with no room refuses a batch or loses    *)
(* its oldest units: the channel does not promise that everything arrives. *)
(*                                                                         *)
(* A unit of data is the number of its message.                            *)
(***************************************************************************)
EXTENDS Integers, Sequences, SequencesExt

VARIABLES
  ends,   \* the destinations of each source: never changes
  sent,   \* the number of messages that each source accepted
  src,    \* what each source holds
  air,    \* what each source is handing over
  due,    \* the destinations that have not been offered it
  dst,    \* what each destination holds
  got     \* what its last reader got

vars == <<ends, sent, src, air, due, dst, got>>

Init ==
  /\ sent = [o \in DOMAIN ends |-> 0]
  /\ src = [o \in DOMAIN ends |-> <<>>]
  /\ air = [o \in DOMAIN ends |-> <<>>]
  /\ due = [o \in DOMAIN ends |-> {}]
  /\ UNION {ends[o] : o \in DOMAIN ends} \subseteq DOMAIN dst
  /\ \A d \in DOMAIN dst : dst[d] = <<>> /\ got[d] = <<>>

(* A source accepts a message of any length, behind what it holds.         *)
Send(o) ==
  /\ sent' = [sent EXCEPT ![o] = @ + 1]
  /\ IsStrictPrefix(src[o], src'[o])
  /\ \A i \in (Len(src[o]) + 1)..Len(src'[o]) : src'[o][i] = sent'[o]
  /\ src' = [src EXCEPT ![o] = src'[o]]
  /\ UNCHANGED <<ends, air, due, dst, got>>

(* The next batch leaves, when the last one has been offered to all.       *)
Take(o) ==
  /\ src[o] # <<>> /\ due[o] = {}
  /\ due' = [due EXCEPT ![o] = ends[o]]
  /\ air' = [air EXCEPT ![o] = IF ends[o] = {} THEN <<>> ELSE src[o]]
  /\ src' = [src EXCEPT ![o] = <<>>]
  /\ UNCHANGED <<ends, sent, dst, got>>

(* A destination gets it behind what it holds, or refuses.                 *)
Deliver(o, d) ==
  /\ d \in due[o]
  /\ due' = [due EXCEPT ![o] = @ \ {d}]
  /\ air' = [air EXCEPT ![o] = IF due'[o] = {} THEN <<>> ELSE @]
  /\ \/ dst' = dst
     \/ /\ IsSuffix(dst'[d], dst[d] \o air[o])
        /\ dst' = [dst EXCEPT ![d] = dst'[d]]
  /\ UNCHANGED <<ends, sent, src, got>>

Receive(d) ==
  /\ got'[d] # <<>> /\ dst[d] = got'[d] \o dst'[d]
  /\ got' = [got EXCEPT ![d] = got'[d]]
  /\ dst' = [dst EXCEPT ![d] = dst'[d]]
  /\ UNCHANGED <<ends, sent, src, air, due>>

Next ==
  \/ \E o \in DOMAIN ends : Send(o) \/ Take(o)
  \/ \E o \in DOMAIN ends : \E d \in ends[o] : Deliver(o, d)
  \/ \E d \in DOMAIN dst : Receive(d)

Spec == Init /\ [][Next]_vars
=============================================================================
