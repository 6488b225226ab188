------------------------- MODULE PartitionElection -------------------------
(***************************************************************************)
(* Which partition owns the processor, and which of its threads: slots and *)
(* the three global policies (src/kernel/core/sched.c), as functions of    *)
(* the tables P of partitions and T of threads.                            *)
(*                                                                         *)
(* One processor.  The policy inside a partition is any function that      *)
(* elects one of its ready threads, or idle when it has none: module       *)
(* ThreadElection has the eight that exist.                                *)
(***************************************************************************)
EXTENDS Integers, Sequences, FiniteSets, FiniteSetsExt, Functions

VARIABLES
  conf,  \* the configuration of the system: never changes
  cur,   \* POK_SCHED_CURRENT_PARTITION
  run    \* POK_SCHED_CURRENT_THREAD

InitModes == {"INIT_COLD", "INIT_WARM"}
NoHandler == 0
Infinite  == -1         \* INFINITE_TIME_VALUE
Never     == 1000000    \* __UINT64_MAX__, beyond every deadline

(* Partitions and threads are numbered from 0.  The threads of a partition *)
(* are contiguous, its main thread first; after the last one comes idle.   *)
Partitions == DOMAIN conf.nthreads
Last       == Cardinality(Partitions) - 1
Low(p)     == conf.low[p]
High(p)    == Low(p) + conf.nthreads[p]
Only(p)    == Low(p)..(High(p) - 1)
Main(p)    == Low(p)
Idle       == High(Last)

Aperiodic(t) == conf.period[t] = Infinite
Ready(T, p)  == {t \in Only(p) : T[t].state = "RUNNABLE"}
-----------------------------------------------------------------------------
(* The two tests of pok_elect_thread and activate_waiting_threads: a timed *)
(* wait that is over, a period that begins.                                *)
Woken(r) ==
  IF r.state = "WAITING" /\ r.wake = 0 THEN [r EXCEPT !.state = "RUNNABLE"] ELSE r

DueToStart(r) == r.state = "WAIT_NEXT_ACTIVATION" /\ r.next <= 0

Released(t, r) ==
  IF DueToStart(r)
  THEN [r EXCEPT !.state = "RUNNABLE", !.left = conf.capacity[t],
                 !.next = IF Aperiodic(t) THEN @ ELSE @ + conf.period[t]]
  ELSE r

(* A release by the election of the thread also sets its deadline.         *)
Dated(t, r) ==
  IF DueToStart(r) THEN [r EXCEPT !.ddl = r.next + conf.deadline[t]] ELSE r

(* Mutant: the last thread of the partition is left out.                   *)
Activate_OffByOne(T, p) ==
  [t \in DOMAIN T |-> IF t \in Only(p) \ {High(p) - 1}
                      THEN Released(t, Dated(t, Woken(T[t]))) ELSE T[t]]

Activate(T, p) ==
  [t \in DOMAIN T |-> IF t \in Only(p)
                      THEN Released(t, Dated(t, Woken(T[t]))) ELSE T[t]]

(* activate_waiting_threads: both loops count with i, which is the number  *)
(* of a partition and of a thread in it.  The inner loop leaves when       *)
(* partition i has no thread i; unless that is the last partition, the     *)
(* outer one starts it again from 0, for ever, and if it never happens     *)
(* nthreads is read beyond the table.                                      *)
ScanEnds(c) ==
  \A p \in DOMAIN c.nthreads :
    IF p = Cardinality(DOMAIN c.nthreads) - 1 THEN c.nthreads[p] <= p
                                              ELSE c.nthreads[p] > p

Seen == {Low(p) + p : p \in Partitions \ {Last}}

ActivateWaiting(T) ==
  [t \in DOMAIN T |-> IF t \in Seen THEN Released(t, Woken(T[t])) ELSE T[t]]
-----------------------------------------------------------------------------
(* caculate_and_update_priority: a sum in an unsigned byte.                *)
PriorityOf(T, p) == SumFunctionOnSet(conf.priority, Ready(T, p)) % 256

PpsChoice(T) ==
  LET best == Max({PriorityOf(T, p) : p \in Partitions})
  IN  IF best = 0 THEN cur
      ELSE Min({p \in Partitions : PriorityOf(T, p) = best})

(* caculate_and_update_deadline.                                           *)
DeadlineOf(T, p) == Min({T[t].ddl : t \in Ready(T, p)} \union {Never})

PedfChoice(T) ==
  LET best == Min({DeadlineOf(T, p) : p \in Partitions})
  IN  IF best = Never THEN cur
      ELSE Min({p \in Partitions : DeadlineOf(T, p) = best})

NbSlots      == Len(conf.slots)
NextSlot(s)  == (s % NbSlots) + 1
Allocated(s) == conf.allocation[s]

(* sched_partiton_func.                                                    *)
PolicyChoice(T, s) ==
  CASE conf.policy = "TIMESLICE" -> Allocated(s)
    [] conf.policy = "PPS"       -> PpsChoice(T)
    [] conf.policy = "PEDF"      -> PedfChoice(T)

(* Mutant: the policy chooses whatever the mode is.                        *)
ElectPartition_Policy(P, T, s) ==
  LET A == IF conf.policy = "TIMESLICE" THEN T ELSE ActivateWaiting(T)
  IN  [partition |-> PolicyChoice(A, s), table |-> A]

(* pok_elect_partition at the start of slot s: the partition, and the table *)
(* it leaves.  The owner of the slot is taken while it initialises.        *)
ElectPartition(P, T, s) ==
  LET A == IF conf.policy = "TIMESLICE" THEN T ELSE ActivateWaiting(T)
  IN  IF P[Allocated(s)].mode \in InitModes
      THEN [partition |-> Allocated(s), table |-> T]
      ELSE [partition |-> PolicyChoice(A, s), table |-> A]
-----------------------------------------------------------------------------
(* pok_elect_thread for partition p, which owns the processor from now on. *)
(* The thread that ran is charged by a partition in NORMAL mode only; it   *)
(* may belong to the partition whose slot is over.                         *)
Charged(r) ==
  [r EXCEPT !.left = @ - 1,
            !.state = IF r.left <= 1 THEN "WAIT_NEXT_ACTIVATION" ELSE @]

Charge(P, T, p) ==
  IF run \in {Idle, Main(p), P[p].error} \/ conf.capacity[run] <= 0 THEN T
  ELSE [T EXCEPT ![run] = Charged(@)]

(* Mutant: the state of the error thread is not looked at.                 *)
HandlerStays_Stopped(P, T, p) == P[p].current = P[p].error

HandlerStays(P, T, p) ==
  P[p].current = P[p].error /\ T[P[p].error].state = "RUNNABLE"

Candidates(T, p) == IF Ready(T, p) = {} THEN {Idle} ELSE Ready(T, p)

(* The possible results: the thread elected, the table after the election. *)
Results(T, S) == {[elected |-> t, table |-> T] : t \in S}

(* Mutant: a stopped partition elects like one in NORMAL mode.             *)
ElectThread_Stopped(P, T, p) ==
  LET A == Activate(T, p)
  IN  IF P[p].mode \in InitModes THEN Results(A, {Main(p)})
      ELSE Results(Charge(P, A, p), Candidates(Charge(P, A, p), p))

ElectThread(P, T, p) ==
  LET A == Activate(T, p)
      C == Charge(P, A, p)
  IN  CASE P[p].mode \in InitModes -> Results(A, {Main(p)})
        [] P[p].mode = "NORMAL" -> IF HandlerStays(P, A, p)
                                   THEN Results(A, {P[p].error})
                                   ELSE Results(C, Candidates(C, p))
        [] OTHER -> Results(A, {Idle})
=============================================================================
