----------------------------- MODULE PortRing -----------------------------
(***************************************************************************)
(* The memory of a port: pok_port_write, pok_port_get and the sizes they   *)
(* are called with (src/kernel/middleware/portutils.c), as functions of    *)
(* the record r of a port of size s.                                       *)
(*                                                                         *)
(* The unit of sizes and offsets is what all messages of a port are        *)
(* multiples of.  A unit of data is the number of the message it belongs   *)
(* to.  A sampling port holds one unit.                                    *)
(***************************************************************************)
EXTENDS Integers, Sequences

SizeLimit == 65536    \* bound: stands for 2^32 of pok_port_size_t

(* pok_port_init, pok_port_create.                                         *)
NewPort(s) == [ready |-> FALSE, flush |-> FALSE, b |-> 0, e |-> 0, empty |-> TRUE,
               full |-> FALSE, data |-> [i \in 0..(s - 1) |-> 0]]

PortType(s) == [ready : BOOLEAN, flush : BOOLEAN, b : 0..(s - 1), e : 0..(s - 1),
                empty : BOOLEAN, full : BOOLEAN, data : [0..(s - 1) -> Nat]]

(* pok_port_available_size: the difference of the offsets is taken the     *)
(* wrong way round, and is unsigned.                                       *)
Available(r, s) ==
  IF r.full THEN 0
  ELSE IF r.b < r.e THEN (r.b - r.e) % SizeLimit
  ELSE s - r.e + r.b

Consumed(r, s) ==
  IF r.empty THEN 0
  ELSE IF r.b < r.e THEN r.e - r.b
  ELSE s - r.b + r.e

(* What n units from off_b on are.                                         *)
Units(r, n, s) == [i \in 1..n |-> r.data[(r.b + i - 1) % s]]

Contents(r, s) == Units(r, Consumed(r, s), s)

(* The port after pok_port_get of n units: full is cleared only when the   *)
(* port is empty again.                                                    *)
Got(r, n, s) ==
  LET b == (r.b + n) % s
  IN  [r EXCEPT !.b = b, !.empty = (b = r.e) \/ @, !.full = (b # r.e) /\ @]

(* Mutant: a port that was just filled is not marked as full.              *)
Written_NeverFull(r, u, s) ==
  LET e == (r.e + Len(u)) % s
  IN  [r EXCEPT !.e = e, !.empty = FALSE,
                !.data = [i \in 0..(s - 1) |->
                  LET k == ((i - r.e) % s) + 1
                  IN  IF k <= Len(u) THEN u[k] ELSE @[i]]]

(* The port after pok_port_write of the units u, which are refused by a    *)
(* full port only: units that do not fit overwrite others.                 *)
Written(r, u, s) ==
  LET e == (r.e + Len(u)) % s
  IN  IF r.full \/ Len(u) > s THEN r
      ELSE [r EXCEPT !.e = e, !.empty = FALSE, !.full = (e = r.b) \/ @,
                     !.data = [i \in 0..(s - 1) |->
                       LET k == ((i - r.e) % s) + 1
                       IN  IF k <= Len(u) THEN u[k] ELSE @[i]]]

(* The same of a sampling port.                                            *)
Sampled(r, m) == [r EXCEPT !.empty = FALSE, !.data[0] = m]
=============================================================================
