--------------------------- MODULE ThreadElection ---------------------------
(***************************************************************************)
(* Which thread of a partition a processor runs next                       *)
(* (src/kernel/core/sched.c: pok_elect_thread and the policies, from       *)
(* pok_sched_part_rms to pok_sched_part_rr).  All definitions are          *)
(* functions of the table of threads T: time is in ThreadSched.            *)
(*                                                                         *)
(* Threads are numbered from 0, as in thread_index_low .. thread_index_    *)
(* high - 1; 0 is the main thread, which only runs while the partition     *)
(* initialises.  Times are relative to the clock: next, wakeup and ddl say *)
(* in how many ticks next_activation, wakeup_time and ddl come, so 0 or    *)
(* less is a time that has come.                                           *)
(***************************************************************************)
EXTENDS Integers

CONSTANTS
  NbThreads,    \* nthreads of the partition
  Procs,        \* processors
  Idle          \* the idle thread of whichever processor

Infinite   == -1
Threads    == 0..NbThreads - 1
MainThread == 0
Policies   == {"RMS", "STATIC", "PPS", "PEDF", "WRR", "PWRR", "MLFQ", "RR"}
PriorityPolicies == {"STATIC", "PPS"}

ASSUME TableAssumption ==
  /\ NbThreads \in Nat /\ NbThreads >= 2
  /\ Idle \notin Threads

(* The configuration of the partition, which never changes: policy (its    *)
(* sched_func) and, for each thread, the attributes it is created with:    *)
(* affinity (a processor), period and capacity (positive or Infinite),     *)
(* deadline (from the release, 0 is none), weight.                         *)
VARIABLE conf
-----------------------------------------------------------------------------
Ready(T, p) == {t \in Threads : T[t].state = "RUNNABLE" /\ conf.affinity[t] = p}
-----------------------------------------------------------------------------
(* Scans.  Every policy walks the table in cyclic order.                   *)

After(i) == IF i + 1 >= NbThreads THEN 0 ELSE i + 1

Distance(from, i) == IF i >= from THEN i - from ELSE i - from + NbThreads

FirstFrom(from, S) ==
  CHOOSE i \in S : \A j \in S : Distance(from, i) <= Distance(from, j)

FirstOrIdle(from, S) == IF S = {} THEN Idle ELSE FirstFrom(from, S)

Greatest(S, rank) == {i \in S : \A j \in S : rank[j] <= rank[i]}

Priorities(T) == [t \in Threads |-> T[t].priority]
Urgencies(T)  == [t \in Threads |-> -T[t].ddl]
Levels(T)     == [t \in Threads |-> T[t].level]

(* Where most policies start; prev is idle only before the first switch.   *)
ScanStart(prev, cur) ==
  IF prev = Idle THEN 0 ELSE IF cur # Idle THEN cur ELSE prev

Only(T, t) == {[th |-> T, elected |-> t]}
-----------------------------------------------------------------------------
(* The main thread is first in the table but last in the scan; the others  *)
(* are sorted by period when they are created.                             *)
RmsChoice(T, p, prev, cur) == Only(T, FirstOrIdle(1, Ready(T, p)))

(* STATIC and PPS: the highest priority, the current thread first among    *)
(* equals.                                                                 *)
PriorityChoice(T, p, prev, cur) ==
  Only(T, FirstOrIdle(ScanStart(prev, cur),
                      Greatest(Ready(T, p), Priorities(T))))

(* PEDF: the earliest ddl.  "No deadline" is the value 0, which also means *)
(* "nothing found yet" in the scan: a thread without ddl makes the scan    *)
(* forget what it had found.                                               *)
PedfChoice(T, p, prev, cur) ==
  LET from  == ScanStart(prev, cur)
      undated == {t \in Ready(T, p) : ~ T[t].dated}
      kept  == {t \in Ready(T, p) :
                  \A u \in undated : Distance(from, u) < Distance(from, t)}
  IN Only(T, FirstOrIdle(from, Greatest(kept, Urgencies(T))))

HasBudget(T, p, cur) ==
  cur \in Ready(T, p) /\ (T[cur].remaining > 0 \/ conf.capacity[cur] = Infinite)

(* Mutants: the scan begins at the first thread; it ignores                *)
(* processor_affinity.                                                     *)
RrChoice_FromFirst(T, p, prev, cur) ==
  Only(T, IF HasBudget(T, p, cur) THEN cur ELSE FirstOrIdle(0, Ready(T, p)))

RrChoice_AnyProc(T, p, prev, cur) ==
  LET from == IF cur # Idle THEN cur ELSE IF prev # Idle THEN prev ELSE 0
      R    == {t \in Threads : T[t].state = "RUNNABLE"}
  IN Only(T, IF HasBudget(T, p, cur) THEN cur ELSE FirstOrIdle(After(from), R))

(* RR: the current thread until its capacity is used up.                   *)
RrChoice(T, p, prev, cur) ==
  LET from == IF cur # Idle THEN cur ELSE IF prev # Idle THEN prev ELSE 0
      R    == Ready(T, p)
  IN Only(T, IF HasBudget(T, p, cur) THEN cur ELSE FirstOrIdle(After(from), R))
-----------------------------------------------------------------------------
(* Policies with time slices.                                              *)

(* Mutant: a turn costs nothing.                                           *)
SliceLeft_Keep(T, cur) ==
  IF cur # Idle THEN T[cur].slice ELSE 0

(* The slice of the current thread, one turn later ...                     *)
SliceLeft(T, cur) ==
  IF cur # Idle /\ T[cur].slice > 0 THEN T[cur].slice - 1 ELSE 0

(* Mutant: the last turn of a slice is lost.                               *)
Continues_Early(T, p, cur) ==
  cur \in Ready(T, p) /\ T[cur].remaining > 0 /\ SliceLeft(T, cur) > 1

(* ... and whether it is enough for the thread to continue.                *)
Continues(T, p, cur) ==
  cur \in Ready(T, p) /\ T[cur].remaining > 0 /\ SliceLeft(T, cur) > 0

SetSlice(T, cur, n) ==
  IF cur = Idle THEN T ELSE [T EXCEPT ![cur].slice = n]

(* WRR.  The thread the scan starts from is not looked at again: if it is  *)
(* not the current one, it is not elected.  If the scan starts from the    *)
(* idle thread, which is not in the table, it only ends on a ready thread: *)
(* without one there is no choice, and the processor never leaves the      *)
(* scheduler.                                                              *)
WrrChoice(T, p, prev, cur) ==
  LET from   == IF cur # Idle THEN cur ELSE prev
      others == Ready(T, p) \ {from}
  IN IF Continues(T, p, cur)
     THEN Only(SetSlice(T, cur, SliceLeft(T, cur)), cur)
     ELSE IF from = Idle
     THEN {[th |-> T, elected |-> FirstFrom(0, S)] : S \in {others} \ {{}}}
     ELSE Only(SetSlice(T, cur, conf.weight[from]),
               IF others # {} THEN FirstFrom(After(from), others)
               ELSE IF cur \in Ready(T, p) THEN cur ELSE Idle)

PriorityOf(T, t) == IF t = Idle THEN 0 ELSE T[t].priority

(* PWRR: a strictly higher priority preempts, then weighted turns within   *)
(* the priority of the current thread, then lower priorities.              *)
PwrrChoice(T, p, prev, cur) ==
  LET from   == ScanStart(prev, cur)
      best   == FirstOrIdle(from, Greatest(Ready(T, p), Priorities(T)))
      equals == {t \in Ready(T, p) \ {from} :
                   T[t].priority = PriorityOf(T, cur)}
      refill == IF cur = Idle THEN T ELSE SetSlice(T, cur, conf.weight[cur])
  IN IF PriorityOf(T, best) > PriorityOf(T, cur) THEN Only(refill, best)
     ELSE IF Continues(T, p, cur)
     THEN Only(SetSlice(T, cur, SliceLeft(T, cur)), cur)
     ELSE Only(refill,
               IF equals # {} THEN FirstFrom(After(from), equals)
               ELSE IF cur \in Ready(T, p) THEN cur
               ELSE IF PriorityOf(T, best) > 0 THEN best ELSE Idle)

(* 1 << 7 >> level.  A shift by 32 or more is undefined: the processor     *)
(* shifts by the count modulo 32 (x86) or gives 0.                         *)
Shifted(n) == IF n < 8 THEN 128 \div 2^n ELSE 0

LevelSlices(level) ==
  IF level < 32 THEN {Shifted(level)} ELSE {Shifted(level % 32), 0}

(* MLFQ: 7 is the highest level, a slice used up costs a level.  The level *)
(* is a uint8_t, which makes the test for a negative level void.           *)
NextLevel(level) == (level - 1) % 256

Demotions(T, cur) ==
  LET level == NextLevel(T[cur].level)
  IN {[T EXCEPT ![cur] = [@ EXCEPT !.level = level, !.slice = n]] :
         n \in LevelSlices(level)}

MlfqChoice(T, p, prev, cur) ==
  LET left    == SetSlice(T, cur, SliceLeft(T, cur))
      demoted == IF cur # Idle /\ left[cur].slice = 0
                 THEN Demotions(left, cur) ELSE {left}
  IN IF Continues(T, p, cur) THEN Only(left, cur)
     ELSE {[th |-> D, elected |->
              FirstOrIdle(ScanStart(prev, cur),
                          Greatest(Ready(D, p), Levels(D)))] :
             D \in demoted}

Choice(T, p, prev, cur) ==
  CASE conf.policy = "RMS"  -> RmsChoice(T, p, prev, cur)
    [] conf.policy \in PriorityPolicies -> PriorityChoice(T, p, prev, cur)
    [] conf.policy = "PEDF" -> PedfChoice(T, p, prev, cur)
    [] conf.policy = "WRR"  -> WrrChoice(T, p, prev, cur)
    [] conf.policy = "PWRR" -> PwrrChoice(T, p, prev, cur)
    [] conf.policy = "MLFQ" -> MlfqChoice(T, p, prev, cur)
    [] conf.policy = "RR"   -> RrChoice(T, p, prev, cur)
-----------------------------------------------------------------------------
(* pok_elect_thread for a partition in NORMAL mode without error thread.   *)

Aperiodic(t) == conf.period[t] = Infinite

(* Mutant: a new period does not bring a new deadline.                     *)
Release_SameDdl(r, t) ==
  [r EXCEPT !.state = "RUNNABLE",
            !.remaining = conf.capacity[t],
            !.next = IF Aperiodic(t) THEN 1 ELSE @ + conf.period[t]]

(* A new period.  Adding the infinite period (-1) to next_activation = 0   *)
(* gives the largest time there is: an aperiodic thread gets one           *)
(* activation, after which 1 stands for "never".                           *)
Release(r, t) ==
  [r EXCEPT !.state = "RUNNABLE",
            !.remaining = conf.capacity[t],
            !.ddl = r.next + conf.deadline[t],
            !.dated = ~ Aperiodic(t) \/ conf.deadline[t] > 0,
            !.next = IF Aperiodic(t) THEN 1 ELSE @ + conf.period[t]]

Due(r) == r.state = "WAIT_NEXT_ACTIVATION" /\ r.next <= 0

(* Mutant: the wakeup of threads is compiled out.                          *)
Activate_NoWakeup(T, p) ==
  [t \in Threads |->
    IF conf.affinity[t] = p /\ Due(T[t]) THEN Release(T[t], t) ELSE T[t]]

(* Each election first wakes the threads of its processor whose time has   *)
(* come.                                                                   *)
Activate(T, p) ==
  [t \in Threads |->
    IF conf.affinity[t] # p THEN T[t]
    ELSE IF T[t].state = "WAITING" /\ T[t].wakeup = 0
         THEN [T[t] EXCEPT !.state = "RUNNABLE"]
    ELSE IF Due(T[t]) THEN Release(T[t], t)
    ELSE T[t]]

Charged(T, cur) == cur \notin {Idle, MainThread} /\ conf.capacity[cur] > 0

(* Mutant: one quantum too many.                                           *)
Charge_Late(T, cur) ==
  IF ~ (cur \notin {Idle, MainThread} /\ conf.capacity[cur] > 0) THEN T
  ELSE [T EXCEPT ![cur].remaining = @ - 1,
                 ![cur].state = IF T[cur].remaining < 1
                                THEN "WAIT_NEXT_ACTIVATION" ELSE @]

(* ... then charges the current thread one unit of capacity, whatever its  *)
(* state; without capacity it waits for its next period, whatever its      *)
(* state.                                                                  *)
Charge(T, cur) ==
  IF ~ Charged(T, cur) THEN T
  ELSE [T EXCEPT ![cur].remaining = @ - 1,
                 ![cur].state = IF T[cur].remaining <= 1
                                THEN "WAIT_NEXT_ACTIVATION" ELSE @]

ElectThread(T, p, prev, cur) ==
  Choice(Charge(Activate(T, p), cur), p, prev, cur)
=============================================================================
