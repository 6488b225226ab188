-------------------------- MODULE RendezvousProofs --------------------------
(***************************************************************************)
(* The rendezvous is safe for any number of processors and whichever start *)
(* the rounds, provided that rounds do not overlap.                        *)
(*                                                                         *)
(* The invariant describes the system at each point of the source: who is  *)
(* where, and that fence and barr count the processors that wait.          *)
(***************************************************************************)
EXTENDS Rendezvous, FiniteSetTheorems, TLAPS

At(l) == {q \in Procs : pc[q] = l}

Typed ==
  /\ pc \in [Procs -> {"run"} \union SourcePcs \union OtherPcs]
  /\ fence \in Nat
  /\ barr \in Nat
  /\ ipi \subseteq Procs
  /\ rounds \in [Procs -> 0..2]

(* Outside a round processors run, or have yet to leave the last one.      *)
Quiet(P) ==
  /\ fence = 0 /\ barr = 0 /\ ipi = {}
  /\ \A q \in P : pc[q] \in {"run", "spin_barr"}

Gathering(s) ==
  /\ fence = 1 + Cardinality(At("spin_fence"))
  /\ barr = 0
  /\ s \notin ipi
  /\ \A q \in Procs \ {s} :
       \/ q \in ipi /\ pc[q] \in {"run", "spin_barr"}
       \/ q \notin ipi /\ pc[q] \in {"join_fence", "spin_fence"}

Gathered(s) ==
  /\ fence = multiprocessing_system
  /\ barr = IF pc[s] = "unblock_fence" THEN 1 ELSE 0
  /\ ipi = {}
  /\ \A q \in Procs \ {s} : pc[q] = "spin_fence"

Crossing(s) ==
  /\ fence = 0
  /\ barr = 1 + Cardinality(At("spin_barr"))
  /\ ipi = {}
  /\ \A q \in Procs \ {s} : pc[q] \in {"spin_fence", "join_barr", "spin_barr"}

Crossed(s) ==
  /\ fence = 0
  /\ barr = multiprocessing_system
  /\ ipi = {}
  /\ \A q \in Procs \ {s} : pc[q] = "spin_barr"

OneSource ==
  \A p, q \in Procs : pc[p] \in SourcePcs /\ pc[q] \in SourcePcs => p = q

AtSource(s) ==
  /\ pc[s] = "start_fence" => Quiet(Procs \ {s})
  /\ pc[s] = "wait_fence" => Gathering(s)
  /\ pc[s] \in {"space_switch", "start_barr", "unblock_fence"} => Gathered(s)
  /\ pc[s] = "wait_barr" => Crossing(s)
  /\ pc[s] = "unblock_barr" => Crossed(s)

(* Who has not left barr although it is inactive is one round behind.      *)
Late(q) == pc[q] = "spin_barr" /\ barr = 0

InStep ==
  \E r \in 0..2 : \A q \in Procs :
    rounds[q] = IF Late(q) THEN (r + 2) % 3 ELSE r

IInv ==
  /\ Typed
  /\ OneSource
  /\ (\A p \in Procs : pc[p] \notin SourcePcs) => Quiet(Procs)
  /\ \A s \in Procs : AtSource(s)
  /\ InStep
-----------------------------------------------------------------------------
(* There are finitely many processors, two at least.                       *)
LEMMA Processors ==
  /\ IsFiniteSet(Procs)
  /\ multiprocessing_system \in Nat /\ multiprocessing_system >= 2
BY ProcessorsAssumption, FS_CardinalityType DEF multiprocessing_system

(* The processors at one point can be counted.                             *)
LEMMA AtFinite ==
  ASSUME NEW l
  PROVE  IsFiniteSet(At(l)) /\ Cardinality(At(l)) \in Nat
<1>1. At(l) \in SUBSET Procs BY DEF At
<1>2. IsFiniteSet(At(l)) BY <1>1, Processors, FS_Subset
<1> QED BY <1>2, FS_CardinalityType

(* A rendezvous counts all processors exactly when all but the source are  *)
(* there.                                                                  *)
LEMMA AllThere ==
  ASSUME NEW s \in Procs, NEW l, pc[s] # l
  PROVE  /\ 1 + Cardinality(At(l)) <= multiprocessing_system
         /\ 1 + Cardinality(At(l)) = multiprocessing_system
              => \A q \in Procs \ {s} : pc[q] = l
<1> DEFINE Others == Procs \ {s}
<1>1. IsFiniteSet(Others) /\ Cardinality(Others) = multiprocessing_system - 1
  BY Processors, FS_RemoveElement DEF multiprocessing_system
<1>2. At(l) \in SUBSET Others BY DEF At
<1>3. /\ Cardinality(At(l)) <= Cardinality(Others)
      /\ Cardinality(Others) = Cardinality(At(l)) => Others = At(l)
  BY <1>1, <1>2, FS_Subset
<1>4. Cardinality(At(l)) \in Nat BY AtFinite
<1> QED BY <1>1, <1>3, <1>4, Processors DEF At

(* One more processor there counts one more.                               *)
LEMMA OneMore ==
  ASSUME Typed, NEW p \in Procs, NEW l, pc[p] # l,
         pc' = [pc EXCEPT ![p] = l]
  PROVE  Cardinality(At(l)') = Cardinality(At(l)) + 1
<1>1. At(l)' = At(l) \union {p} BY DEF At, Typed
<1>2. p \notin At(l) BY DEF At
<1> QED BY <1>1, <1>2, AtFinite, FS_AddElement

(* ... and one that moves elsewhere counts nothing.                        *)
LEMMA SameCount ==
  ASSUME Typed, NEW p \in Procs, NEW l, NEW m, pc[p] # l, m # l,
         pc' = [pc EXCEPT ![p] = m]
  PROVE  At(l)' = At(l)
BY DEF At, Typed
-----------------------------------------------------------------------------
(* The system starts outside a round, everybody in step.                   *)
LEMMA InitInv == ASSUME Init PROVE IInv
<1>1. Typed BY DEF Init, Typed
<1>2. OneSource BY DEF Init, OneSource, SourcePcs
<1>3. Quiet(Procs) BY DEF Init, Quiet
<1>4. \A s \in Procs : AtSource(s) BY DEF Init, AtSource
<1>5. InStep
  <2>1. \A q \in Procs : rounds[q] = IF Late(q) THEN (0 + 2) % 3 ELSE 0
    BY DEF Init, Late
  <2> QED BY <2>1 DEF InStep
<1> QED BY <1>1, <1>2, <1>3, <1>4, <1>5 DEF IInv
-----------------------------------------------------------------------------
(* What the steps of the source have in common: the others stay where they *)
(* are, and there is no other source.                                      *)
LEMMA SourceMoves ==
  ASSUME IInv, NEW p \in Procs, pc[p] \in SourcePcs,
         NEW m \in {"run"} \union SourcePcs, pc' = [pc EXCEPT ![p] = m]
  PROVE  /\ pc' \in [Procs -> {"run"} \union SourcePcs \union OtherPcs]
         /\ pc'[p] = m
         /\ \A q \in Procs \ {p} : pc'[q] = pc[q] /\ pc[q] \notin SourcePcs
         /\ OneSource'
         /\ \A q \in Procs \ {p} : AtSource(q)'
<1>1. Typed /\ OneSource BY DEF IInv
<1>2. /\ pc' \in [Procs -> {"run"} \union SourcePcs \union OtherPcs]
      /\ pc'[p] = m
      /\ \A q \in Procs \ {p} : pc'[q] = pc[q]
  BY <1>1 DEF Typed
<1>3. \A q \in Procs \ {p} : pc[q] \notin SourcePcs
  BY <1>1 DEF OneSource
<1>4. OneSource' BY <1>2, <1>3 DEF OneSource
<1>5. \A q \in Procs \ {p} : AtSource(q)'
  BY <1>2, <1>3 DEF AtSource, SourcePcs
<1> QED BY <1>2, <1>3, <1>4, <1>5

(* A round begins only when none is under way.                             *)
LEMMA BeginInv ==
  ASSUME IInv, ~ Overlap, NEW p \in Procs, Begin(p)
  PROVE  IInv'
<1>1. /\ pc[p] = "run" /\ pc' = [pc EXCEPT ![p] = "start_fence"]
      /\ \A q \in Procs : pc[q] \notin SourcePcs
      /\ UNCHANGED <<fence, barr, ipi, rounds>>
  BY DEF Begin, Goto
<1>2. Typed' BY <1>1 DEF IInv, Typed, SourcePcs
<1>3. OneSource' BY <1>1 DEF IInv, Typed, OneSource
<1>4. Quiet(Procs \ {p})' BY <1>1 DEF IInv, Typed, Quiet
<1>5. \A s \in Procs : AtSource(s)'
  <2> TAKE s \in Procs
  <2>1. CASE s = p BY <2>1, <1>1, <1>4 DEF IInv, Typed, AtSource
  <2>2. CASE s # p
    BY <2>2, <1>1 DEF IInv, Typed, AtSource, SourcePcs
  <2> QED BY <2>1, <2>2
<1>6. InStep'
  <2>1. \A q \in Procs : Late(q)' <=> Late(q)
    BY <1>1 DEF IInv, Typed, Late
  <2> QED BY <2>1, <1>1 DEF IInv, InStep
<1>7. pc'[p] \in SourcePcs BY <1>1 DEF IInv, Typed, SourcePcs
<1> QED BY <1>2, <1>3, <1>5, <1>6, <1>7 DEF IInv

(* The source starts the fence: everybody else is now interrupted.         *)
LEMMA StartFenceInv ==
  ASSUME IInv, NEW p \in Procs, StartFence(p)
  PROVE  IInv'
<1>1. /\ pc[p] = "start_fence" /\ pc' = [pc EXCEPT ![p] = "wait_fence"]
      /\ fence' = 1 /\ ipi' = ipi \union (Procs \ {p})
      /\ UNCHANGED <<barr, rounds>>
  BY DEF StartFence, Goto
<1>2. Quiet(Procs \ {p}) BY <1>1 DEF IInv, AtSource
<1>3. pc[p] \in SourcePcs /\ "wait_fence" \in SourcePcs BY <1>1 DEF SourcePcs
<1>4. /\ pc' \in [Procs -> {"run"} \union SourcePcs \union OtherPcs]
      /\ pc'[p] = "wait_fence"
      /\ \A q \in Procs \ {p} : pc'[q] = pc[q]
      /\ OneSource'
      /\ \A q \in Procs \ {p} : AtSource(q)'
  BY <1>1, <1>3, SourceMoves
<1>5. Typed' BY <1>1, <1>4 DEF IInv, Typed
<1>6. Gathering(p)'
  <2>1. At("spin_fence")' = {} BY <1>2, <1>4 DEF At, Quiet
  <2>2. Cardinality(At("spin_fence")') = 0 BY <2>1, FS_EmptySet
  <2> QED BY <2>2, <1>1, <1>2, <1>4 DEF Gathering, Quiet
<1>7. AtSource(p)' BY <1>4, <1>6 DEF AtSource
<1>8. InStep'
  <2>1. \A q \in Procs : Late(q)' <=> Late(q)
    BY <1>1, <1>4 DEF Late
  <2> QED BY <2>1, <1>1 DEF IInv, InStep
<1> QED BY <1>3, <1>4, <1>5, <1>7, <1>8 DEF IInv

(* The source sees all others at the fence.                                *)
LEMMA WaitFenceInv ==
  ASSUME IInv, NEW p \in Procs, WaitFence(p)
  PROVE  IInv'
<1>1. /\ pc[p] = "wait_fence" /\ pc' = [pc EXCEPT ![p] = "space_switch"]
      /\ fence = multiprocessing_system
      /\ UNCHANGED <<fence, barr, ipi, rounds>>
  BY DEF WaitFence, Goto
<1>2. Gathering(p) BY <1>1 DEF IInv, AtSource
<1>3. pc[p] \in SourcePcs /\ "space_switch" \in SourcePcs
  BY <1>1 DEF SourcePcs
<1>4. /\ pc' \in [Procs -> {"run"} \union SourcePcs \union OtherPcs]
      /\ pc'[p] = "space_switch"
      /\ \A q \in Procs \ {p} : pc'[q] = pc[q]
      /\ OneSource'
      /\ \A q \in Procs \ {p} : AtSource(q)'
  BY <1>1, <1>3, SourceMoves
<1>5. Typed' BY <1>1, <1>4 DEF IInv, Typed
<1>6. Gathered(p)'
  <2>1. \A q \in Procs \ {p} : pc[q] = "spin_fence"
    BY <1>1, <1>2, AllThere DEF Gathering
  <2>2. ipi = {}
    BY <1>2, <2>1 DEF Gathering, IInv, Typed
  <2>3. multiprocessing_system' = multiprocessing_system
    BY DEF multiprocessing_system
  <2> QED BY <2>1, <2>2, <2>3, <1>1, <1>2, <1>4 DEF Gathering, Gathered
<1>7. AtSource(p)' BY <1>4, <1>6 DEF AtSource
<1>8. InStep'
  <2>1. \A q \in Procs : Late(q)' <=> Late(q)
    BY <1>1, <1>4 DEF Late
  <2> QED BY <2>1, <1>1 DEF IInv, InStep
<1> QED BY <1>3, <1>4, <1>5, <1>7, <1>8 DEF IInv

(* The others stay at the fence while the source switches the space.       *)
LEMMA SpaceSwitchInv ==
  ASSUME IInv, NEW p \in Procs, SpaceSwitch(p)
  PROVE  IInv'
<1>1. /\ pc[p] = "space_switch" /\ pc' = [pc EXCEPT ![p] = "start_barr"]
      /\ UNCHANGED <<fence, barr, ipi, rounds>>
  BY DEF SpaceSwitch, Goto
<1>2. Gathered(p) BY <1>1 DEF IInv, AtSource
<1>3. pc[p] \in SourcePcs /\ "start_barr" \in SourcePcs BY <1>1 DEF SourcePcs
<1>4. /\ pc' \in [Procs -> {"run"} \union SourcePcs \union OtherPcs]
      /\ pc'[p] = "start_barr"
      /\ \A q \in Procs \ {p} : pc'[q] = pc[q]
      /\ OneSource'
      /\ \A q \in Procs \ {p} : AtSource(q)'
  BY <1>1, <1>3, SourceMoves
<1>5. Typed' BY <1>1, <1>4 DEF IInv, Typed
<1>6. Gathered(p)' BY <1>1, <1>2, <1>4 DEF Gathered, multiprocessing_system
<1>7. AtSource(p)' BY <1>4, <1>6 DEF AtSource
<1>8. InStep'
  <2>1. \A q \in Procs : Late(q)' <=> Late(q)
    BY <1>1, <1>4 DEF Late
  <2> QED BY <2>1, <1>1 DEF IInv, InStep
<1> QED BY <1>3, <1>4, <1>5, <1>7, <1>8 DEF IInv

(* barr becomes active before anybody can leave the fence.                 *)
LEMMA StartBarrInv ==
  ASSUME IInv, NEW p \in Procs, StartBarr(p)
  PROVE  IInv'
<1>1. /\ pc[p] = "start_barr" /\ pc' = [pc EXCEPT ![p] = "unblock_fence"]
      /\ barr' = 1 /\ UNCHANGED <<fence, ipi, rounds>>
  BY DEF StartBarr, Goto
<1>2. Gathered(p) BY <1>1 DEF IInv, AtSource
<1>3. pc[p] \in SourcePcs /\ "unblock_fence" \in SourcePcs
  BY <1>1 DEF SourcePcs
<1>4. /\ pc' \in [Procs -> {"run"} \union SourcePcs \union OtherPcs]
      /\ pc'[p] = "unblock_fence"
      /\ \A q \in Procs \ {p} : pc'[q] = pc[q]
      /\ OneSource'
      /\ \A q \in Procs \ {p} : AtSource(q)'
  BY <1>1, <1>3, SourceMoves
<1>5. Typed' BY <1>1, <1>4 DEF IInv, Typed
<1>6. Gathered(p)'
  BY <1>1, <1>2, <1>4 DEF Gathered, multiprocessing_system
<1>7. AtSource(p)' BY <1>4, <1>6 DEF AtSource
<1>8. InStep'
  <2>1. \A q \in Procs : ~ Late(q) /\ ~ Late(q)'
    BY <1>1, <1>2, <1>4 DEF Late, Gathered
  <2> QED BY <2>1, <1>1 DEF IInv, InStep
<1> QED BY <1>3, <1>4, <1>5, <1>7, <1>8 DEF IInv

(* The fence opens: nobody has joined barr yet.                            *)
LEMMA UnblockFenceInv ==
  ASSUME IInv, NEW p \in Procs, UnblockFence(p)
  PROVE  IInv'
<1>1. /\ pc[p] = "unblock_fence" /\ pc' = [pc EXCEPT ![p] = "wait_barr"]
      /\ fence' = 0 /\ UNCHANGED <<barr, ipi, rounds>>
  BY DEF UnblockFence, Goto
<1>2. Gathered(p) BY <1>1 DEF IInv, AtSource
<1>3. pc[p] \in SourcePcs /\ "wait_barr" \in SourcePcs
  BY <1>1 DEF SourcePcs
<1>4. /\ pc' \in [Procs -> {"run"} \union SourcePcs \union OtherPcs]
      /\ pc'[p] = "wait_barr"
      /\ \A q \in Procs \ {p} : pc'[q] = pc[q]
      /\ OneSource'
      /\ \A q \in Procs \ {p} : AtSource(q)'
  BY <1>1, <1>3, SourceMoves
<1>5. Typed' BY <1>1, <1>4 DEF IInv, Typed
<1>6. Crossing(p)'
  <2>1. At("spin_barr")' = {} BY <1>2, <1>4 DEF At, Gathered
  <2>2. Cardinality(At("spin_barr")') = 0 BY <2>1, FS_EmptySet
  <2> QED BY <2>2, <1>1, <1>2, <1>4 DEF Gathered, Crossing
<1>7. AtSource(p)' BY <1>4, <1>6 DEF AtSource
<1>8. InStep'
  <2>1. \A q \in Procs : Late(q)' <=> Late(q)
    BY <1>1, <1>4 DEF Late
  <2> QED BY <2>1, <1>1 DEF IInv, InStep
<1> QED BY <1>3, <1>4, <1>5, <1>7, <1>8 DEF IInv

(* The source sees all others at barr.                                     *)
LEMMA WaitBarrInv ==
  ASSUME IInv, NEW p \in Procs, WaitBarr(p)
  PROVE  IInv'
<1>1. /\ pc[p] = "wait_barr" /\ pc' = [pc EXCEPT ![p] = "unblock_barr"]
      /\ barr = multiprocessing_system
      /\ UNCHANGED <<fence, barr, ipi, rounds>>
  BY DEF WaitBarr, Goto
<1>2. Crossing(p) BY <1>1 DEF IInv, AtSource
<1>3. pc[p] \in SourcePcs /\ "unblock_barr" \in SourcePcs
  BY <1>1 DEF SourcePcs
<1>4. /\ pc' \in [Procs -> {"run"} \union SourcePcs \union OtherPcs]
      /\ pc'[p] = "unblock_barr"
      /\ \A q \in Procs \ {p} : pc'[q] = pc[q]
      /\ OneSource'
      /\ \A q \in Procs \ {p} : AtSource(q)'
  BY <1>1, <1>3, SourceMoves
<1>5. Typed' BY <1>1, <1>4 DEF IInv, Typed
<1>6. Crossed(p)'
  <2>1. \A q \in Procs \ {p} : pc[q] = "spin_barr"
    BY <1>1, <1>2, AllThere DEF Crossing
  <2> QED BY <2>1, <1>1, <1>2, <1>4
          DEF Crossing, Crossed, multiprocessing_system
<1>7. AtSource(p)' BY <1>4, <1>6 DEF AtSource
<1>8. InStep'
  <2>1. \A q \in Procs : Late(q)' <=> Late(q)
    BY <1>1, <1>4 DEF Late
  <2> QED BY <2>1, <1>1 DEF IInv, InStep
<1> QED BY <1>3, <1>4, <1>5, <1>7, <1>8 DEF IInv

(* The source ends its round; whoever is still at barr is now late.        *)
LEMMA UnblockBarrInv ==
  ASSUME IInv, NEW p \in Procs, UnblockBarr(p)
  PROVE  IInv'
<1>1. /\ pc[p] = "unblock_barr" /\ pc' = [pc EXCEPT ![p] = "run"]
      /\ barr' = 0
      /\ rounds' = [rounds EXCEPT ![p] = (@ + 1) % 3]
      /\ UNCHANGED <<fence, ipi>>
  BY DEF UnblockBarr, Goto, EndRound
<1>2. Crossed(p) BY <1>1 DEF IInv, AtSource
<1>3. pc[p] \in SourcePcs BY <1>1 DEF SourcePcs
<1>4. /\ pc' \in [Procs -> {"run"} \union SourcePcs \union OtherPcs]
      /\ pc'[p] = "run"
      /\ \A q \in Procs \ {p} : pc'[q] = pc[q]
      /\ OneSource'
      /\ \A q \in Procs \ {p} : AtSource(q)'
  BY <1>1, <1>3, SourceMoves
<1>5. Typed' BY <1>1, <1>4 DEF IInv, Typed
<1>6. Quiet(Procs)' BY <1>1, <1>2, <1>4 DEF Crossed, Quiet
<1>7. AtSource(p)' BY <1>4 DEF AtSource
<1>8. InStep'
  <2>1. PICK r \in 0..2 :
          \A q \in Procs : rounds[q] = IF Late(q) THEN (r + 2) % 3 ELSE r
    BY DEF IInv, InStep
  <2>2. \A q \in Procs : ~ Late(q)
    BY <1>2, Processors DEF Late, Crossed
  <2>3. \A q \in Procs : Late(q)' <=> q # p
    BY <1>1, <1>2, <1>4 DEF Late, Crossed
  <2>4. \A q \in Procs : rounds'[q] = IF q = p THEN (r + 1) % 3 ELSE r
    BY <2>1, <2>2, <1>1 DEF IInv, Typed
  <2>5. (r + 1) % 3 \in 0..2 /\ (((r + 1) % 3) + 2) % 3 = r
    BY <2>1
  <2> QED BY <2>3, <2>4, <2>5 DEF InStep
<1> QED BY <1>4, <1>5, <1>6, <1>7, <1>8 DEF IInv
-----------------------------------------------------------------------------
(* What the steps of the others have in common.                            *)
LEMMA OtherMoves ==
  ASSUME IInv, NEW p \in Procs, pc[p] \notin SourcePcs,
         NEW m \in {"run"} \union OtherPcs, pc' = [pc EXCEPT ![p] = m]
  PROVE  /\ pc' \in [Procs -> {"run"} \union SourcePcs \union OtherPcs]
         /\ pc'[p] = m
         /\ \A q \in Procs \ {p} : pc'[q] = pc[q]
         /\ \A q \in Procs : pc'[q] \in SourcePcs <=> pc[q] \in SourcePcs
         /\ OneSource'
         /\ \A s \in Procs : pc[s] \in SourcePcs =>
              \A q \in Procs \ {s} : AtSource(q)'
<1>1. Typed /\ OneSource BY DEF IInv
<1>2. m \notin SourcePcs BY DEF SourcePcs, OtherPcs
<1>3. /\ pc' \in [Procs -> {"run"} \union SourcePcs \union OtherPcs]
      /\ pc'[p] = m
      /\ \A q \in Procs \ {p} : pc'[q] = pc[q]
  BY <1>1 DEF Typed
<1>4. \A q \in Procs : pc'[q] \in SourcePcs <=> pc[q] \in SourcePcs
  BY <1>2, <1>3
<1>5. OneSource' BY <1>1, <1>4 DEF OneSource
<1>6. ASSUME NEW s \in Procs, pc[s] \in SourcePcs, NEW q \in Procs \ {s}
      PROVE  AtSource(q)'
  <2>1. pc'[q] \notin SourcePcs BY <1>1, <1>4, <1>6 DEF OneSource
  <2> QED BY <2>1 DEF AtSource, SourcePcs
<1> QED BY <1>3, <1>4, <1>5, <1>6

(* Where the source is, seen from another processor.                       *)
LEMMA WhereSource ==
  ASSUME IInv, NEW p \in Procs
  PROVE  /\ p \in ipi \/ pc[p] = "join_fence" =>
              \E s \in Procs \ {p} : pc[s] = "wait_fence"
         /\ pc[p] = "join_barr" \/ (pc[p] = "spin_fence" /\ fence = 0) =>
              \E s \in Procs \ {p} : pc[s] = "wait_barr"
         /\ pc[p] = "spin_barr" /\ barr = 0 =>
              \/ \A s \in Procs : pc[s] \notin SourcePcs
              \/ \E s \in Procs \ {p} : pc[s] \in {"start_fence", "wait_fence"}
<1>1. CASE \A s \in Procs : pc[s] \notin SourcePcs
  BY <1>1 DEF IInv, Quiet
<1>2. ASSUME NEW s \in Procs, pc[s] \in SourcePcs
      PROVE  /\ p \in ipi \/ pc[p] = "join_fence" =>
                  s # p /\ pc[s] = "wait_fence"
             /\ pc[p] = "join_barr" \/ (pc[p] = "spin_fence" /\ fence = 0) =>
                  s # p /\ pc[s] = "wait_barr"
             /\ pc[p] = "spin_barr" /\ barr = 0 =>
                  s # p /\ pc[s] \in {"start_fence", "wait_fence"}
  <2>1. AtSource(s) /\ Typed BY DEF IInv
  <2>2. CASE pc[s] = "start_fence" BY <2>1, <2>2 DEF AtSource, Quiet
  <2>3. CASE pc[s] = "wait_fence"
    <3>1. fence > 0
      BY <2>1, <2>3, AtFinite DEF AtSource, Gathering
    <3> QED BY <2>1, <2>3, <3>1 DEF AtSource, Gathering
  <2>4. CASE pc[s] \in {"space_switch", "start_barr", "unblock_fence"}
    BY <2>1, <2>4, Processors DEF AtSource, Gathered
  <2>5. CASE pc[s] = "wait_barr"
    <3>1. barr > 0
      BY <2>1, <2>5, AtFinite DEF AtSource, Crossing
    <3> QED BY <2>1, <2>5, <3>1 DEF AtSource, Crossing
  <2>6. CASE pc[s] = "unblock_barr"
    BY <2>1, <2>6, Processors DEF AtSource, Crossed
  <2> QED BY <1>2, <2>2, <2>3, <2>4, <2>5, <2>6 DEF SourcePcs
<1> QED BY <1>1, <1>2

(* An interrupt is taken only while a source waits at the fence.           *)
LEMMA InterruptInv ==
  ASSUME IInv, NEW p \in Procs, Interrupt(p)
  PROVE  IInv'
<1>1. /\ pc[p] = "run" /\ pc' = [pc EXCEPT ![p] = "join_fence"]
      /\ p \in ipi /\ ipi' = ipi \ {p}
      /\ UNCHANGED <<fence, barr, rounds>>
  BY DEF Interrupt, Goto
<1>2. PICK s \in Procs \ {p} : pc[s] = "wait_fence"
  BY <1>1, WhereSource
<1>3. pc[p] \notin SourcePcs /\ "join_fence" \in OtherPcs /\ pc[s] \in SourcePcs
  BY <1>1, <1>2 DEF SourcePcs, OtherPcs
<1>4. /\ pc' \in [Procs -> {"run"} \union SourcePcs \union OtherPcs]
      /\ pc'[p] = "join_fence"
      /\ \A q \in Procs \ {p} : pc'[q] = pc[q]
      /\ \A q \in Procs : pc'[q] \in SourcePcs <=> pc[q] \in SourcePcs
      /\ OneSource'
      /\ \A q \in Procs \ {s} : AtSource(q)'
  BY <1>1, <1>3, OtherMoves
<1>5. Gathering(s) /\ Typed BY <1>2 DEF IInv, AtSource
<1>6. Typed' BY <1>1, <1>4, <1>5 DEF Typed
<1>7. Gathering(s)'
  <2>1. At("spin_fence")' = At("spin_fence") BY <1>1, <1>5, SameCount
  <2> QED BY <2>1, <1>1, <1>4, <1>5 DEF Gathering
<1>8. AtSource(s)' BY <1>2, <1>4, <1>7 DEF AtSource
<1>9. InStep'
  <2>1. \A q \in Procs : Late(q)' <=> Late(q)
    BY <1>1, <1>4 DEF Late
  <2> QED BY <2>1, <1>1 DEF IInv, InStep
<1> QED BY <1>3, <1>4, <1>6, <1>8, <1>9 DEF IInv

(* fence counts the processor that joins.                                  *)
LEMMA JoinFenceInv ==
  ASSUME IInv, NEW p \in Procs, JoinFence(p)
  PROVE  IInv'
<1>1. /\ pc[p] = "join_fence" /\ pc' = [pc EXCEPT ![p] = "spin_fence"]
      /\ fence' = fence + 1
      /\ UNCHANGED <<barr, ipi, rounds>>
  BY DEF JoinFence, Goto
<1>2. PICK s \in Procs \ {p} : pc[s] = "wait_fence"
  BY <1>1, WhereSource
<1>3. pc[p] \notin SourcePcs /\ "spin_fence" \in OtherPcs /\ pc[s] \in SourcePcs
  BY <1>1, <1>2 DEF SourcePcs, OtherPcs
<1>4. /\ pc' \in [Procs -> {"run"} \union SourcePcs \union OtherPcs]
      /\ pc'[p] = "spin_fence"
      /\ \A q \in Procs \ {p} : pc'[q] = pc[q]
      /\ \A q \in Procs : pc'[q] \in SourcePcs <=> pc[q] \in SourcePcs
      /\ OneSource'
      /\ \A q \in Procs \ {s} : AtSource(q)'
  BY <1>1, <1>3, OtherMoves
<1>5. Gathering(s) /\ Typed BY <1>2 DEF IInv, AtSource
<1>6. Typed' BY <1>1, <1>4, <1>5 DEF Typed
<1>7. Gathering(s)'
  <2>1. Cardinality(At("spin_fence")') = Cardinality(At("spin_fence")) + 1
    BY <1>1, <1>5, OneMore
  <2> QED BY <2>1, <1>1, <1>4, <1>5, AtFinite DEF Gathering
<1>8. AtSource(s)' BY <1>2, <1>4, <1>7 DEF AtSource
<1>9. InStep'
  <2>1. \A q \in Procs : Late(q)' <=> Late(q)
    BY <1>1, <1>4 DEF Late
  <2> QED BY <2>1, <1>1 DEF IInv, InStep
<1> QED BY <1>3, <1>4, <1>6, <1>8, <1>9 DEF IInv

(* The fence is left only for the barr of the same round.                  *)
LEMMA LeaveFenceInv ==
  ASSUME IInv, NEW p \in Procs, LeaveFence(p)
  PROVE  IInv'
<1>1. /\ pc[p] = "spin_fence" /\ pc' = [pc EXCEPT ![p] = "join_barr"]
      /\ fence = 0
      /\ UNCHANGED <<fence, barr, ipi, rounds>>
  BY DEF LeaveFence, Goto
<1>2. PICK s \in Procs \ {p} : pc[s] = "wait_barr"
  BY <1>1, WhereSource
<1>3. pc[p] \notin SourcePcs /\ "join_barr" \in OtherPcs /\ pc[s] \in SourcePcs
  BY <1>1, <1>2 DEF SourcePcs, OtherPcs
<1>4. /\ pc' \in [Procs -> {"run"} \union SourcePcs \union OtherPcs]
      /\ pc'[p] = "join_barr"
      /\ \A q \in Procs \ {p} : pc'[q] = pc[q]
      /\ \A q \in Procs : pc'[q] \in SourcePcs <=> pc[q] \in SourcePcs
      /\ OneSource'
      /\ \A q \in Procs \ {s} : AtSource(q)'
  BY <1>1, <1>3, OtherMoves
<1>5. Crossing(s) /\ Typed BY <1>2 DEF IInv, AtSource
<1>6. Typed' BY <1>1, <1>4, <1>5 DEF Typed
<1>7. Crossing(s)'
  <2>1. At("spin_barr")' = At("spin_barr") BY <1>1, <1>5, SameCount
  <2> QED BY <2>1, <1>1, <1>4, <1>5 DEF Crossing
<1>8. AtSource(s)' BY <1>2, <1>4, <1>7 DEF AtSource
<1>9. InStep'
  <2>1. \A q \in Procs : Late(q)' <=> Late(q)
    BY <1>1, <1>4 DEF Late
  <2> QED BY <2>1, <1>1 DEF IInv, InStep
<1> QED BY <1>3, <1>4, <1>6, <1>8, <1>9 DEF IInv

(* barr counts the processor that joins; nobody is late yet.                *)
LEMMA JoinBarrInv ==
  ASSUME IInv, NEW p \in Procs, JoinBarr(p)
  PROVE  IInv'
<1>1. /\ pc[p] = "join_barr" /\ pc' = [pc EXCEPT ![p] = "spin_barr"]
      /\ barr' = barr + 1
      /\ UNCHANGED <<fence, ipi, rounds>>
  BY DEF JoinBarr, Goto
<1>2. PICK s \in Procs \ {p} : pc[s] = "wait_barr"
  BY <1>1, WhereSource
<1>3. pc[p] \notin SourcePcs /\ "spin_barr" \in OtherPcs /\ pc[s] \in SourcePcs
  BY <1>1, <1>2 DEF SourcePcs, OtherPcs
<1>4. /\ pc' \in [Procs -> {"run"} \union SourcePcs \union OtherPcs]
      /\ pc'[p] = "spin_barr"
      /\ \A q \in Procs \ {p} : pc'[q] = pc[q]
      /\ \A q \in Procs : pc'[q] \in SourcePcs <=> pc[q] \in SourcePcs
      /\ OneSource'
      /\ \A q \in Procs \ {s} : AtSource(q)'
  BY <1>1, <1>3, OtherMoves
<1>5. Crossing(s) /\ Typed BY <1>2 DEF IInv, AtSource
<1>6. Typed' BY <1>1, <1>4, <1>5 DEF Typed
<1>7. Crossing(s)'
  <2>1. Cardinality(At("spin_barr")') = Cardinality(At("spin_barr")) + 1
    BY <1>1, <1>5, OneMore
  <2> QED BY <2>1, <1>1, <1>4, <1>5, AtFinite DEF Crossing
<1>8. AtSource(s)' BY <1>2, <1>4, <1>7 DEF AtSource
<1>9. InStep'
  <2>1. barr > 0 /\ barr' > 0
    BY <1>1, <1>5, AtFinite DEF Crossing
  <2>2. \A q \in Procs : ~ Late(q) /\ ~ Late(q)' BY <2>1 DEF Late
  <2> QED BY <2>2, <1>1 DEF IInv, InStep
<1> QED BY <1>3, <1>4, <1>6, <1>8, <1>9 DEF IInv

(* A late processor catches up, in the middle of the next round perhaps.   *)
LEMMA LeaveBarrInv ==
  ASSUME IInv, NEW p \in Procs, LeaveBarr(p)
  PROVE  IInv'
<1>1. /\ pc[p] = "spin_barr" /\ pc' = [pc EXCEPT ![p] = "run"]
      /\ barr = 0
      /\ rounds' = [rounds EXCEPT ![p] = (@ + 1) % 3]
      /\ UNCHANGED <<fence, barr, ipi>>
  BY DEF LeaveBarr, Goto, EndRound
<1>2. pc[p] \notin SourcePcs BY <1>1 DEF SourcePcs
<1>3. /\ pc' \in [Procs -> {"run"} \union SourcePcs \union OtherPcs]
      /\ pc'[p] = "run"
      /\ \A q \in Procs \ {p} : pc'[q] = pc[q]
      /\ \A q \in Procs : pc'[q] \in SourcePcs <=> pc[q] \in SourcePcs
      /\ OneSource'
      /\ \A s \in Procs : pc[s] \in SourcePcs =>
           \A q \in Procs \ {s} : AtSource(q)'
  BY <1>1, <1>2, OtherMoves
<1>4. Typed BY DEF IInv
<1>5. Typed' BY <1>1, <1>3, <1>4 DEF Typed
<1>6. /\ (\A q \in Procs : pc'[q] \notin SourcePcs) => Quiet(Procs)'
      /\ \A q \in Procs : AtSource(q)'
  <2>1. CASE \A q \in Procs : pc[q] \notin SourcePcs
    <3>1. Quiet(Procs)' BY <2>1, <1>1, <1>3 DEF IInv, Quiet
    <3>2. \A q \in Procs : AtSource(q)'
      BY <2>1, <1>3 DEF AtSource, SourcePcs
    <3> QED BY <3>1, <3>2
  <2>2. ASSUME NEW s \in Procs \ {p}, pc[s] \in {"start_fence", "wait_fence"}
        PROVE  AtSource(s)' /\ pc'[s] \in SourcePcs
    <3>1. AtSource(s) /\ pc'[s] = pc[s] BY <2>2, <1>3 DEF IInv
    <3>2. CASE pc[s] = "start_fence"
      BY <3>1, <3>2, <1>1, <1>3 DEF AtSource, Quiet, SourcePcs
    <3>3. CASE pc[s] = "wait_fence"
      <4>1. At("spin_fence")' = At("spin_fence") BY <1>1, <1>4, SameCount
      <4>2. Gathering(s)'
        BY <4>1, <3>1, <3>3, <1>1, <1>3 DEF AtSource, Gathering
      <4> QED BY <4>2, <3>1, <3>3 DEF AtSource, SourcePcs
    <3> QED BY <2>2, <3>2, <3>3
  <2>3. CASE \E s \in Procs \ {p} : pc[s] \in {"start_fence", "wait_fence"}
    BY <2>2, <2>3, <1>3
  <2> QED BY <2>1, <2>3, <1>1, WhereSource
<1>7. InStep'
  <2>1. PICK r \in 0..2 :
          \A q \in Procs : rounds[q] = IF Late(q) THEN (r + 2) % 3 ELSE r
    BY DEF IInv, InStep
  <2>2. Late(p) /\ ~ Late(p)' BY <1>1, <1>3 DEF Late
  <2>3. \A q \in Procs \ {p} : Late(q)' <=> Late(q) BY <1>1, <1>3 DEF Late
  <2>4. rounds'[p] = r
    <3>1. rounds'[p] = (((r + 2) % 3) + 1) % 3
      BY <2>1, <2>2, <1>1, <1>4 DEF Typed
    <3> QED BY <3>1, <2>1
  <2>5. \A q \in Procs \ {p} : rounds'[q] = rounds[q]
    BY <1>1, <1>4 DEF Typed
  <2>6. \A q \in Procs : rounds'[q] = IF Late(q)' THEN (r + 2) % 3 ELSE r
    BY <2>1, <2>2, <2>3, <2>4, <2>5
  <2> QED BY <2>6 DEF InStep
<1> QED BY <1>3, <1>5, <1>6, <1>7 DEF IInv

(* The invariant depends on the variables alone.                           *)
LEMMA StutterInv == ASSUME IInv, UNCHANGED vars PROVE IInv'
<1>1. UNCHANGED <<pc, fence, barr, ipi, rounds>> BY DEF vars
<1>2. \A l : At(l)' = At(l) BY <1>1 DEF At
<1>3. Typed' /\ OneSource' BY <1>1 DEF IInv, Typed, OneSource
<1>4. (\A p \in Procs : pc'[p] \notin SourcePcs) => Quiet(Procs)'
  BY <1>1 DEF IInv, Quiet
<1>5. ASSUME NEW s \in Procs PROVE AtSource(s)'
  <2>1. AtSource(s) BY DEF IInv
  <2>2. Quiet(Procs \ {s}) => Quiet(Procs \ {s})' BY <1>1 DEF Quiet
  <2>3. Gathering(s) => Gathering(s)' BY <1>1, <1>2 DEF Gathering
  <2>4. Gathered(s) => Gathered(s)'
    BY <1>1 DEF Gathered, multiprocessing_system
  <2>5. Crossing(s) => Crossing(s)' BY <1>1, <1>2 DEF Crossing
  <2>6. Crossed(s) => Crossed(s)'
    BY <1>1 DEF Crossed, multiprocessing_system
  <2> QED BY <2>1, <2>2, <2>3, <2>4, <2>5, <2>6, <1>1 DEF AtSource
<1>6. InStep'
  <2>1. \A q \in Procs : Late(q)' <=> Late(q) BY <1>1 DEF Late
  <2> QED BY <2>1, <1>1 DEF IInv, InStep
<1> QED BY <1>3, <1>4, <1>5, <1>6 DEF IInv

(* The invariant is inductive as long as rounds do not overlap.            *)
THEOREM Invariance == ASSUME ~ Overlap PROVE Spec => []IInv
<1>1. Init => IInv BY InitInv
<1>2. ASSUME IInv, [Next]_vars PROVE IInv'
  <2>1. ASSUME NEW p \in Procs, Begin(p) PROVE IInv' BY <1>2, <2>1, BeginInv
  <2>2. ASSUME NEW p \in Procs, SourceStep(p) PROVE IInv'
    BY <1>2, <2>2, StartFenceInv, WaitFenceInv, SpaceSwitchInv, StartBarrInv,
       UnblockFenceInv, WaitBarrInv, UnblockBarrInv DEF SourceStep
  <2>3. ASSUME NEW p \in Procs, OtherStep(p) PROVE IInv'
    BY <1>2, <2>3, InterruptInv, JoinFenceInv, LeaveFenceInv, JoinBarrInv,
       LeaveBarrInv DEF OtherStep
  <2>4. CASE UNCHANGED vars BY <1>2, <2>4, StutterInv
  <2> QED BY <1>2, <2>1, <2>2, <2>3, <2>4 DEF Next
<1> QED BY <1>1, <1>2, PTL DEF Spec
-----------------------------------------------------------------------------
(* At every point of the source its counters are within bounds.            *)
LEMMA InvType == ASSUME IInv PROVE TypeOK
<1>1. ASSUME NEW s \in Procs, pc[s] \in SourcePcs
      PROVE  fence <= multiprocessing_system /\ barr <= multiprocessing_system
  <2>1. AtSource(s) BY DEF IInv
  <2>2. CASE pc[s] = "start_fence"
    BY <2>1, <2>2, Processors DEF AtSource, Quiet
  <2>3. CASE pc[s] = "wait_fence"
    BY <2>1, <2>3, AllThere, Processors DEF AtSource, Gathering
  <2>4. CASE pc[s] \in {"space_switch", "start_barr", "unblock_fence"}
    BY <2>1, <2>4, Processors DEF AtSource, Gathered
  <2>5. CASE pc[s] = "wait_barr"
    BY <2>1, <2>5, AllThere, Processors DEF AtSource, Crossing
  <2>6. CASE pc[s] = "unblock_barr"
    BY <2>1, <2>6, Processors DEF AtSource, Crossed
  <2> QED BY <1>1, <2>2, <2>3, <2>4, <2>5, <2>6 DEF SourcePcs
<1>2. fence <= multiprocessing_system /\ barr <= multiprocessing_system
  BY <1>1, Processors DEF IInv, Quiet
<1> QED BY <1>2, Processors DEF IInv, Typed, TypeOK

(* At every point of the source the assertions ahead hold.                 *)
LEMMA InvAsserts == ASSUME IInv PROVE AssertsHold
<1> SUFFICES ASSUME NEW p \in Procs
             PROVE  /\ pc[p] = "start_fence" => fence = 0
                    /\ pc[p] = "start_barr" => barr = 0
                    /\ pc[p] \in {"wait_fence", "join_fence", "unblock_fence"}
                         => fence > 0
                    /\ pc[p] \in {"wait_barr", "join_barr", "unblock_barr"}
                         => barr > 0
  BY DEF AssertsHold
<1>1. ASSUME NEW s \in Procs, pc[s] = "wait_fence" PROVE fence > 0
  <2>1. Gathering(s) BY <1>1 DEF IInv, AtSource
  <2>2. Cardinality(At("spin_fence")) \in Nat BY AtFinite
  <2> QED BY <2>1, <2>2 DEF Gathering
<1>2. ASSUME NEW s \in Procs, pc[s] = "wait_barr" PROVE barr > 0
  <2>1. Crossing(s) BY <1>2 DEF IInv, AtSource
  <2>2. Cardinality(At("spin_barr")) \in Nat BY AtFinite
  <2> QED BY <2>1, <2>2 DEF Crossing
<1>3. pc[p] = "join_fence" => fence > 0 BY <1>1, WhereSource
<1>4. pc[p] = "join_barr" => barr > 0 BY <1>2, WhereSource
<1>5. pc[p] = "start_fence" => fence = 0 BY DEF IInv, AtSource, Quiet
<1>6. ASSUME pc[p] \in {"start_barr", "unblock_fence"}
      PROVE  fence > 0 /\ (pc[p] = "start_barr" => barr = 0)
  <2>1. Gathered(p) BY <1>6 DEF IInv, AtSource
  <2> QED BY <2>1, Processors DEF Gathered
<1>7. ASSUME pc[p] = "unblock_barr" PROVE barr > 0
  <2>1. Crossed(p) BY <1>7 DEF IInv, AtSource
  <2> QED BY <2>1, Processors DEF Crossed
<1> QED BY <1>1, <1>2, <1>3, <1>4, <1>5, <1>6, <1>7

(* Only a processor that is late is behind another.                        *)
LEMMA InvNobodyAhead == ASSUME IInv PROVE NobodyAhead
<1> SUFFICES ASSUME NEW p \in Procs, NEW q \in Procs,
                    rounds[p] = (rounds[q] + 1) % 3
             PROVE  pc[q] = "spin_barr"
  BY DEF NobodyAhead
<1>1. PICK r \in 0..2 :
        \A x \in Procs : rounds[x] = IF Late(x) THEN (r + 2) % 3 ELSE r
  BY DEF IInv, InStep
<1>2. Late(q)
  <2>1. SUFFICES ASSUME ~ Late(q) PROVE FALSE OBVIOUS
  <2>2. rounds[q] = r /\ rounds[p] \in {r, (r + 2) % 3} BY <1>1, <2>1
  <2>3. r # (r + 1) % 3 /\ (r + 2) % 3 # (r + 1) % 3 BY <1>1
  <2> QED BY <2>2, <2>3
<1> QED BY <1>2 DEF Late

(* fence and barr count the source and the processors that have joined:    *)
(* they never exceed the number of processors.                             *)
THEOREM TypeCorrect == ASSUME ~ Overlap PROVE Spec => []TypeOK
<1>1. IInv => TypeOK BY InvType
<1> QED BY <1>1, Invariance, PTL

(* No assertion of rendezvous.h fails.                                     *)
THEOREM AssertionsHold == ASSUME ~ Overlap PROVE Spec => []AssertsHold
<1>1. IInv => AssertsHold BY InvAsserts
<1> QED BY <1>1, Invariance, PTL

(* The address space is switched while all other processors wait.          *)
THEOREM SwitchAlone == ASSUME ~ Overlap PROVE Spec => []SwitchesAlone
<1>1. IInv => SwitchesAlone BY DEF IInv, AtSource, Gathered, SwitchesAlone
<1> QED BY <1>1, Invariance, PTL

(* No processor is ahead of one that has not passed the fence.             *)
THEOREM InLockstep == ASSUME ~ Overlap PROVE Spec => []NobodyAhead
<1>1. IInv => NobodyAhead BY InvNobodyAhead
<1> QED BY <1>1, Invariance, PTL
=============================================================================
