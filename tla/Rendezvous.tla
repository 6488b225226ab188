----------------------------- MODULE Rendezvous -----------------------------
(***************************************************************************)
(* How the processors reschedule together (pok_global_sched and            *)
(* synchro_processors in src/kernel/core/sched.c over the rendezvous of    *)
(* src/kernel/include/arch/x86/rendezvous.h).  The processor that starts   *)
(* interrupts the others; all elect and meet at fence; the source switches *)
(* the address space while they wait there; then all meet at barr and go   *)
(* on.  Every access to fence and barr is a step of its own; pc names the  *)
(* access a processor makes next.                                          *)
(*                                                                         *)
(* Interrupts stay disabled from pc "start_fence" or "join_fence" until    *)
(* the processor runs again, so an interrupt waits in ipi (one bit per     *)
(* processor, as in the local APIC).                                       *)
(***************************************************************************)
EXTENDS Naturals, FiniteSets

CONSTANTS
  Procs,   \* the processors of a multiprocessing system
  Sources, \* those that may reschedule globally: the timer's, and those
           \* whose threads resume threads or change priorities
  Overlap  \* whether one may start while another is still in its round

ASSUME ProcessorsAssumption ==
  /\ IsFiniteSet(Procs)
  /\ Cardinality(Procs) >= 2
  /\ Sources \subseteq Procs
  /\ Overlap \in BOOLEAN

VARIABLES
  pc,
  fence, barr, \* 0: not active; n: the source and n - 1 others
  ipi,         \* processors with a pending interrupt
  rounds       \* rounds each processor has ended, modulo 3 (a bound: enough
               \* to tell who is ahead)

vars == <<pc, fence, barr, ipi, rounds>>

multiprocessing_system == Cardinality(Procs)

SourcePcs == {"start_fence", "wait_fence", "space_switch", "start_barr",
              "unblock_fence", "wait_barr", "unblock_barr"}
OtherPcs  == {"join_fence", "spin_fence", "join_barr", "spin_barr"}

TypeOK ==
  /\ pc \in [Procs -> {"run"} \union SourcePcs \union OtherPcs]
  /\ fence \in 0..multiprocessing_system
  /\ barr \in 0..multiprocessing_system
  /\ ipi \subseteq Procs
  /\ rounds \in [Procs -> 0..2]

Init ==
  /\ pc = [p \in Procs |-> "run"]
  /\ fence = 0 /\ barr = 0
  /\ ipi = {}
  /\ rounds = [p \in Procs |-> 0]
-----------------------------------------------------------------------------
Goto(p, from, to) == pc[p] = from /\ pc' = [pc EXCEPT ![p] = to]

EndRound(p) == rounds' = [rounds EXCEPT ![p] = (@ + 1) % 3]

(* pok_global_sched, up to the test of start_rendezvous(&fence).           *)
Begin(p) ==
  /\ p \in Sources
  /\ Overlap \/ \A q \in Procs : pc[q] \notin SourcePcs
  /\ Goto(p, "run", "start_fence")
  /\ UNCHANGED <<fence, barr, ipi, rounds>>

(* Mutant: counting starts at the number of processors.                    *)
StartFence_Full(p) ==
  /\ Goto(p, "start_fence", "wait_fence")
  /\ fence' = multiprocessing_system
  /\ ipi' = ipi \union (Procs \ {p})
  /\ UNCHANGED <<barr, rounds>>

(* ... and the interrupts for the others.                                  *)
StartFence(p) ==
  /\ Goto(p, "start_fence", "wait_fence")
  /\ fence' = 1
  /\ ipi' = ipi \union (Procs \ {p})
  /\ UNCHANGED <<barr, rounds>>

(* Mutant: the source does not count itself.                               *)
WaitFence_Early(p) ==
  /\ Goto(p, "wait_fence", "space_switch")
  /\ fence >= multiprocessing_system - 1
  /\ UNCHANGED <<fence, barr, ipi, rounds>>

WaitFence(p) ==
  /\ Goto(p, "wait_fence", "space_switch")
  /\ fence = multiprocessing_system
  /\ UNCHANGED <<fence, barr, ipi, rounds>>

SpaceSwitch(p) ==
  /\ Goto(p, "space_switch", "start_barr")
  /\ UNCHANGED <<fence, barr, ipi, rounds>>

StartBarr(p) ==
  /\ Goto(p, "start_barr", "unblock_fence")
  /\ barr' = 1
  /\ UNCHANGED <<fence, ipi, rounds>>

UnblockFence(p) ==
  /\ Goto(p, "unblock_fence", "wait_barr")
  /\ fence' = 0
  /\ UNCHANGED <<barr, ipi, rounds>>

(* Mutant: the source does not wait for the others again.                  *)
WaitBarr_Never(p) ==
  /\ Goto(p, "wait_barr", "unblock_barr")
  /\ UNCHANGED <<fence, barr, ipi, rounds>>

WaitBarr(p) ==
  /\ Goto(p, "wait_barr", "unblock_barr")
  /\ barr = multiprocessing_system
  /\ UNCHANGED <<fence, barr, ipi, rounds>>

(* Mutant: barr stays active.                                              *)
UnblockBarr_NoReset(p) ==
  /\ Goto(p, "unblock_barr", "run")
  /\ EndRound(p)
  /\ UNCHANGED <<fence, barr, ipi>>

UnblockBarr(p) ==
  /\ Goto(p, "unblock_barr", "run")
  /\ barr' = 0
  /\ EndRound(p)
  /\ UNCHANGED <<fence, ipi>>
-----------------------------------------------------------------------------
(* global_sched_thread_gate; the election touches only the processor's own *)
(* threads.                                                                *)
Interrupt(p) ==
  /\ p \in ipi
  /\ ipi' = ipi \ {p}
  /\ Goto(p, "run", "join_fence")
  /\ UNCHANGED <<fence, barr, rounds>>

JoinFence(p) ==
  /\ Goto(p, "join_fence", "spin_fence")
  /\ fence' = fence + 1
  /\ UNCHANGED <<barr, ipi, rounds>>

(* Mutant: one meeting only.                                               *)
LeaveFence_Run(p) ==
  /\ Goto(p, "spin_fence", "run")
  /\ fence = 0
  /\ EndRound(p)
  /\ UNCHANGED <<fence, barr, ipi>>

LeaveFence(p) ==
  /\ Goto(p, "spin_fence", "join_barr")
  /\ fence = 0
  /\ UNCHANGED <<fence, barr, ipi, rounds>>

JoinBarr(p) ==
  /\ Goto(p, "join_barr", "spin_barr")
  /\ barr' = barr + 1
  /\ UNCHANGED <<fence, ipi, rounds>>

LeaveBarr(p) ==
  /\ Goto(p, "spin_barr", "run")
  /\ barr = 0
  /\ EndRound(p)
  /\ UNCHANGED <<fence, barr, ipi>>

SourceStep(p) ==
  \/ StartFence(p) \/ WaitFence(p) \/ SpaceSwitch(p) \/ StartBarr(p)
  \/ UnblockFence(p) \/ WaitBarr(p) \/ UnblockBarr(p)

OtherStep(p) ==
  \/ Interrupt(p) \/ JoinFence(p) \/ LeaveFence(p)
  \/ JoinBarr(p) \/ LeaveBarr(p)

Next == \E p \in Procs : Begin(p) \/ SourceStep(p) \/ OtherStep(p)

Spec == Init /\ [][Next]_vars

(* Processors execute instructions, and take interrupts when they run.     *)
FairSpec ==
  Spec /\ \A p \in Procs : WF_vars(SourceStep(p)) /\ WF_vars(OtherStep(p))
-----------------------------------------------------------------------------
(* The assertions of rendezvous.h: a rendezvous is started only when it is *)
(* not active, and awaited, joined and ended only while it is.             *)
AssertsHold ==
  \A p \in Procs :
    /\ pc[p] = "start_fence" => fence = 0
    /\ pc[p] = "start_barr" => barr = 0
    /\ pc[p] \in {"wait_fence", "join_fence", "unblock_fence"} => fence > 0
    /\ pc[p] \in {"wait_barr", "join_barr", "unblock_barr"} => barr > 0

(* The address space changes only while every other processor stands at    *)
(* the fence: none runs a thread of either partition, none is still        *)
(* electing.                                                               *)
SwitchesAlone ==
  \A p \in Procs : pc[p] = "space_switch" =>
    \A q \in Procs \ {p} : pc[q] = "spin_fence"

(* A processor runs on only when all others have passed the fence of its   *)
(* round, whoever starts the next one and whenever: one that is behind has *)
(* nothing left to do but to leave barr.                                   *)
NobodyAhead ==
  \A p, q \in Procs : rounds[p] = (rounds[q] + 1) % 3 => pc[q] = "spin_barr"

(* Every round ends: no processor is kept in the scheduler for ever.       *)
RoundsEnd == \A p \in Procs : pc[p] # "run" ~> pc[p] = "run"
=============================================================================
