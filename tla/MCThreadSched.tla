--------------------------- MODULE MCThreadSched ---------------------------
(***************************************************************************)
(* Instances of ThreadSched: the main thread 0 and three others, on        *)
(* processor 1 or, the last one, on processor 2.                           *)
(***************************************************************************)
EXTENDS ThreadSched

TwoProcs == {1, 2}

(* Attributes of threads 1, 2 and 3.                                       *)
Attr(main, a, b, c) == [t \in 0..3 |-> <<main, a, b, c>>[t + 1]]

Here    == Attr(1, 1, 1, 1)
Spread  == Attr(1, 1, 1, 2)
Same    == Attr(1, 1, 1, 1)
None    == Attr(0, 0, 0, 0)
Forever == Attr(Infinite, Infinite, Infinite, Infinite)

Config(policy, affinity, period, capacity, deadline, weight, priority,
       services, delays, lag) ==
  [procs |-> {affinity[t] : t \in Threads}, policy |-> policy,
   affinity |-> affinity, period |-> period, capacity |-> capacity,
   deadline |-> deadline, weight |-> weight, priority |-> priority,
   services |-> services, delays |-> delays, lag |-> lag]

(* Threads with budgets and short periods, on two processors.              *)
Rr == Config("RR", Spread, Attr(Infinite, 2, 3, 2), Attr(Infinite, 1, 2, 1),
  None, Same, Same,
  {"sleep", "suspend", "end_period", "suspend_target", "delayed_start"}, {1}, 0)

(* Threads that run until they stop, on two processors.                    *)
Priority(policy) == Config(policy, Spread, Forever, Forever, None, Same,
  Attr(1, 1, 1, 2),
  {"suspend_target", "resume", "set_priority", "delayed_start"}, {0, 1}, 0)

(* Periods 3, 4, 6 with implicit deadlines, load 1/3 + 1/4 + 2/6.          *)
Periodic(policy, services) == Config(policy, Here, Attr(Infinite, 3, 4, 6),
  Attr(Infinite, 1, 1, 2), Attr(0, 3, 4, 6), Same, Same, services, {1}, 6)

(* Bursts of three quanta, which do not fit in their period together.      *)
Turns(policy, priority, services) == Config(policy, Here,
  Attr(Infinite, 6, 6, 6), Attr(Infinite, 3, 3, 3), None, Attr(0, 1, 2, 3),
  priority, services, {1}, 0)

(* Threads that run for 20 quanta in all: levels stay above 2.             *)
Mlfq == Config("MLFQ", Here, Forever, Attr(Infinite, 10, 10, 10), None, Same,
  Same, {"sleep"}, {1}, 0)

SafeConfigs ==
  {Rr, Priority("STATIC"), Mlfq,
   Periodic("RMS", {"end_period"}), Periodic("PEDF", {"end_period", "sleep"}),
   Turns("WRR", Same, {"sleep"}),
   Turns("PWRR", Attr(1, 1, 1, 2), {"end_period"})}

OneProc(services, delays, lag) ==
  Config("RR", Here, Attr(Infinite, 2, 3, 2), Attr(Infinite, 1, 2, 1), None,
         Same, Same, services, delays, lag)

LiveConfigs == {OneProc({"sleep", "end_period"}, {2}, 1)}
AllConfigs  == SafeConfigs \union LiveConfigs

(* What the theorems of ThreadSchedProofs assume of configurations.        *)
ASSUME HypothesesHold ==
  \A c \in AllConfigs :
    /\ PeriodsSorted(c) /\ DeadlinesSet(c) /\ PrioritiesSet(c)
    /\ PrioritiesStand(c) /\ BudgetsStand(c) /\ ScansMoveOn(c)
=============================================================================
