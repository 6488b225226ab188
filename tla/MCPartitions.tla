--------------------------- MODULE MCPartitions ---------------------------
(***************************************************************************)
(* Instances of Partitions.  In each partition thread 0 is the main one.   *)
(***************************************************************************)
EXTENDS Partitions

Seq0(s) == [i \in 0..(Len(s) - 1) |-> s[i + 1]]    \* counted from 0

Config(policy, nthreads, slots, ticks, period, capacity, deadline, priority,
       services, targets, delays, lag) ==
  [policy |-> policy, nthreads |-> Seq0(nthreads),
   low |-> [p \in 0..(Len(nthreads) - 1) |->
              SumFunctionOnSet(Seq0(nthreads), 0..(p - 1))],
   slots |-> slots, allocation |-> [i \in DOMAIN slots |-> i - 1],
   quantum |-> ticks, period |-> Seq0(period), capacity |-> Seq0(capacity),
   apex |-> FALSE, deadline |-> Seq0(deadline), priority |-> Seq0(priority),
   services |-> Seq0(services), targets |-> Seq0(targets), delays |-> delays,
   lag |-> lag]

N == Infinite

Aperiodics(n) == [i \in 1..n |-> N]
Zeros(n)      == [i \in 1..n |-> 0]
Ones(n)       == [i \in 1..n |-> 1]

(* Partition 0 may have a handler of errors, stop, and start again.        *)
Life == Config("TIMESLICE", <<3, 3>>, <<2, 2>>, 2,
  Aperiodics(7), Aperiodics(7), Zeros(7), Ones(7),
  <<{"create", "create_error", "normal", "stop", "restart", "raise", "suspend",
     "resume", "suspend_target", "stop_thread", "restart_thread"},
    {"create", "create_error", "normal", "stop", "raise", "suspend"}>>,
  <<{1, 2}, {}>>, {}, 0)

(* Slots that are no multiple of the quantum, delays, a periodic thread.   *)
Slots == Config("TIMESLICE", <<2, 2>>, <<3, 2>>, 2,
  <<N, N, N, 4, N>>, <<N, N, N, 1, N>>, Zeros(5), Ones(5),
  <<{"create", "normal", "delayed_start", "sleep", "resume"},
    {"create", "normal", "delayed_start", "end_period"}>>, <<{1}, {3}>>, {0, 2}, 4)

(* Two threads in each partition, activated only where the scan of         *)
(* activate_waiting_threads sees them.                                     *)
Global(policy) == Config(policy, <<2, 2, 2>>, <<2, 2, 2>>, 2,
  <<N, 4, N, 3, N, 4, N>>, <<N, 1, N, 1, N, 1, N>>, <<0, 4, 0, 3, 0, 4, 0>>,
  <<1, 100, 1, 200, 1, 255, 0>>,
  <<{"create", "normal", "end_period"}, {"create", "normal"}, {"create", "normal"}>>,
  [p \in 1..3 |-> {}], {}, 1)

(* ARINC 653 processes: one that is started with or without delay, one     *)
(* that is periodic and suspended.                                         *)
Processes == [Config("TIMESLICE", <<3, 1>>, <<2, 2>>, 2,
  <<N, N, 6, N, N>>, <<N, N, 1, N, N>>, Zeros(5), Ones(5),
  <<{"create", "normal", "delayed_start", "sleep", "suspend", "end_period",
     "suspend_target"},
    {"normal"}>>, <<{1, 2}, {}>>, {0, 2}, 2) EXCEPT !.apex = TRUE]

(* An error thread too many, or created too late: then any thread may      *)
(* become the handler of partition 0.                                      *)
Refused == Config("TIMESLICE", <<2, 2>>, <<2, 2>>, 2,
  Aperiodics(5), Aperiodics(5), Zeros(5), Ones(5),
  <<{"create_error", "create_refused", "normal", "stop", "restart", "raise"},
    {"create", "normal", "suspend"}>>,
  <<{}, {}>>, {}, 0)

SafeConfigs == {Life, Refused, Slots, Processes, Global("PPS"), Global("PEDF")}

PpsConfigs == {Global("PPS")}

(* The condition of the theorems about modes.                              *)
ASSUME HypothesesHold == \A c \in SafeConfigs : MainsSpared(c)
=============================================================================
