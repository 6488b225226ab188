---------------------------- MODULE ThreadSched ----------------------------
(***************************************************************************)
(* A partition in NORMAL mode: its threads, the processors that run them,  *)
(* the clock, and the services by which threads sleep, stop, start and     *)
(* change priority (src/kernel/core/sched.c, src/kernel/core/thread.c).    *)
(*                                                                         *)
(* Interrupts are disabled in a service, so a service and the election it  *)
(* ends with are one action.  A global reschedule (timer interrupt or      *)
(* pok_global_sched in a service) elects on the processor it happens on    *)
(* and interrupts the others: pending holds the processors that have not   *)
(* yet taken that interrupt.  Those run their thread in the meantime, the  *)
(* others wait in synchro_processors.                                      *)
(***************************************************************************)
EXTENDS ThreadElection

CONSTANTS
  Timer,        \* the processor that takes the timer interrupt
  Configs,      \* configurations of the partition
  NewPriorities \* the priorities that programs ask for

ServiceNames == {"sleep", "suspend", "end_period", "suspend_target", "resume",
                 "set_priority", "delayed_start"}

MaxPriority == 255      \* pok_sched_get_priority_max
Times       == Nat \union {Infinite}

(* Besides what an election depends on: the processors of the machine, the *)
(* priority each thread is created with, the services its programs use and *)
(* the delays they pass.  Bound: a release or deadline more than lag ticks *)
(* ago counts as lag ticks ago.                                            *)
ConfType ==
  [procs    : SUBSET Procs,
   policy   : Policies,
   affinity : [Threads -> Procs],
   period   : [Threads -> Times \ {0}],
   capacity : [Threads -> Times \ {0}],
   deadline : [Threads -> Nat],
   weight   : [Threads -> Nat],
   priority : [Threads -> 0..MaxPriority],
   services : SUBSET ServiceNames,
   delays   : SUBSET Nat,
   lag      : Nat]

ASSUME ConstantsAssumption ==
  /\ Timer \in Procs
  /\ Configs \subseteq ConfType
  /\ \A c \in Configs :
       Timer \in c.procs /\ \A t \in Threads : c.affinity[t] \in c.procs
  /\ NewPriorities \subseteq 0..MaxPriority

VARIABLES
  th,       \* pok_threads, the fields that change
  current,  \* CURRENT_THREAD of each processor
  prev,     \* PREV_THREAD of each processor
  pending   \* processors with a global reschedule to come

state == <<th, current, prev, pending>>
vars  == <<conf, state>>

States == {"RUNNABLE", "WAITING", "WAIT_NEXT_ACTIVATION", "STOPPED"}

ThreadType ==
  [state : States, priority : 0..MaxPriority, remaining : Int, next : Int,
   wakeup : Nat, ddl : Int, dated : BOOLEAN, slice : Nat, level : 0..255]

TypeOK ==
  /\ conf \in ConfType
  /\ th \in [Threads -> ThreadType]
  /\ current \in [Procs -> Threads \union {Idle}]
  /\ prev \in [Procs -> Threads \union {Idle}]
  /\ pending \subseteq Procs

(* The main thread has created the others, put the partition in NORMAL     *)
(* mode and stopped itself: every processor is about to elect.             *)
(* An aperiodic thread is one whose attributes leave the period at 0:      *)
(* next_activation stays 0, a time long ago.                               *)
Created(t) ==
  [state     |-> IF t = MainThread THEN "STOPPED" ELSE "RUNNABLE",
   priority  |-> conf.priority[t],
   remaining |-> conf.capacity[t],
   next      |-> IF Aperiodic(t) THEN -conf.lag ELSE conf.period[t],
   wakeup    |-> 0,
   ddl       |-> conf.deadline[t],
   dated     |-> conf.deadline[t] > 0,
   slice     |-> IF conf.policy = "MLFQ" THEN 1 ELSE conf.weight[t],
   level     |-> IF conf.policy = "MLFQ" THEN 7 ELSE 0]

Init ==
  /\ conf \in Configs
  /\ th = [t \in Threads |-> Created(t)]
  /\ current = [p \in Procs |-> IF conf.affinity[MainThread] = p THEN MainThread
                                                           ELSE Idle]
  /\ prev = [p \in Procs |-> Idle]
  /\ pending = conf.procs
-----------------------------------------------------------------------------
(* pok_sched_thread, pok_global_sched_thread: elect and switch.  The last  *)
(* thread that was not idle is remembered in prev.                         *)
Reschedule(T, p) ==
  \E choice \in ElectThread(T, p, prev[p], current[p]) :
    /\ th' = choice.th
    /\ current' = [current EXCEPT ![p] = choice.elected]
    /\ prev' = IF choice.elected # current[p] /\ current[p] # Idle
               THEN [prev EXCEPT ![p] = current[p]] ELSE prev

(* global_sched_thread_gate, the interprocessor interrupt.                 *)
Elect(p) ==
  /\ p \in pending
  /\ pending' = pending \ {p}
  /\ Reschedule(th, p)

GlobalReschedule(T, p) ==
  /\ Reschedule(T, p)
  /\ pending' = pending \union (conf.procs \ {p})

(* One tick later, bounded by conf.lag.                                    *)
Earlier(n) == IF n > -conf.lag THEN n - 1 ELSE n

Clock ==
  [t \in Threads |->
     [th[t] EXCEPT
        !.wakeup = IF @ > 0 THEN @ - 1 ELSE 0,
        !.next = IF Aperiodic(t) THEN @ ELSE Earlier(@),
        !.ddl = IF th[t].dated THEN Earlier(@) ELSE @]]

(* pit_interrupt, every quantum.                                           *)
Tick ==
  /\ pending = {}
  /\ GlobalReschedule(Clock, Timer)
-----------------------------------------------------------------------------
(* Services, called by the thread a processor runs: it is not waiting for  *)
(* other processors.  Left out: a service that reschedules globally while  *)
(* another global reschedule is under way: see module Rendezvous.          *)

Caller(p, service) ==
  /\ service \in conf.services
  /\ current[p] \in Threads \ {MainThread}
  /\ pending = {} \/ p \in pending

SetState(t, s) == [th EXCEPT ![t].state = s]

Sleep(p, n) ==
  /\ Caller(p, "sleep")
  /\ Reschedule([th EXCEPT ![current[p]].state = "WAITING",
                           ![current[p]].wakeup = n], p)
  /\ UNCHANGED pending

SuspendSelf(p) ==
  /\ Caller(p, "suspend")
  /\ Reschedule(SetState(current[p], "STOPPED"), p)
  /\ UNCHANGED pending

EndPeriod(p) ==
  /\ Caller(p, "end_period")
  /\ Reschedule([th EXCEPT ![current[p]].state = "WAIT_NEXT_ACTIVATION",
                           ![current[p]].remaining = 0], p)
  /\ UNCHANGED pending

(* The target keeps the processor it may be running on until the next      *)
(* election there.                                                         *)
SuspendTarget(p, t) ==
  /\ Caller(p, "suspend_target")
  /\ t # current[p]
  /\ th' = SetState(t, "STOPPED")
  /\ UNCHANGED <<current, prev, pending>>

(* Mutant: only the processor of the caller elects.                        *)
Resume_Local(p, t) ==
  /\ Caller(p, "resume")
  /\ Reschedule([th EXCEPT ![t].state = "RUNNABLE", ![t].wakeup = 0], p)
  /\ UNCHANGED pending

Resume(p, t) ==
  /\ Caller(p, "resume")
  /\ pending = {}
  /\ GlobalReschedule([th EXCEPT ![t].state = "RUNNABLE", ![t].wakeup = 0], p)

(* Mutant: no election follows.                                            *)
SetPriority_Quiet(p, t, n) ==
  /\ Caller(p, "set_priority")
  /\ th' = [th EXCEPT ![t].priority = n]
  /\ UNCHANGED <<current, prev, pending>>

SetPriority(p, t, n) ==
  /\ Caller(p, "set_priority")
  /\ pending = {}
  /\ GlobalReschedule([th EXCEPT ![t].priority = n], p)

(* A periodic thread gets a release point but keeps its state.             *)
DelayedStart(p, t, n) ==
  /\ Caller(p, "delayed_start")
  /\ \/ /\ Aperiodic(t)
        /\ pending = {}
        /\ GlobalReschedule(
             [th EXCEPT ![t].priority = conf.priority[t],
                        ![t].state = IF n = 0 THEN "RUNNABLE" ELSE "WAITING",
                        ![t].wakeup = IF n = 0 THEN @ ELSE n], p)
     \/ /\ ~ Aperiodic(t)
        /\ th' = [th EXCEPT ![t].priority = conf.priority[t], ![t].next = n]
        /\ UNCHANGED <<current, prev, pending>>

Step ==
  \/ Tick
  \/ \E p \in conf.procs :
       \/ Elect(p)
       \/ SuspendSelf(p)
       \/ EndPeriod(p)
       \/ \E n \in conf.delays : Sleep(p, n)
       \/ \E t \in Threads \ {MainThread} :
            \/ SuspendTarget(p, t)
            \/ Resume(p, t)
            \/ \E n \in NewPriorities : SetPriority(p, t, n)
            \/ \E n \in conf.delays : DelayedStart(p, t, n)

Next == Step /\ UNCHANGED conf

Spec == Init /\ [][Next]_vars
-----------------------------------------------------------------------------
(* A processor that has elected.                                           *)
Settled == Procs \ pending

(* An interrupt makes p elect.                                             *)
Interrupted(p) == Elect(p) \/ (Tick /\ p = Timer)

Shorter(a, b) == a # Infinite /\ (b = Infinite \/ a < b)

(* t should run before u.                                                  *)
Outranks(t, u) ==
  CASE conf.policy \in PriorityPolicies \union {"PWRR"} ->
         th[t].priority > th[u].priority
    [] conf.policy = "RMS"  -> Shorter(conf.period[t], conf.period[u])
    [] conf.policy = "PEDF" -> th[t].ddl < th[u].ddl
    [] OTHER -> FALSE

(* Assumptions on a configuration c, which the theorems about the          *)
(* properties below name.  Threads are in the order of their periods, as   *)
(* their creation sorts them.                                              *)
PeriodsSorted(c) ==
  c.policy = "RMS" =>
    \A t, u \in Threads \ {MainThread} :
      t < u => ~ Shorter(c.period[u], c.period[t])

(* No deadline is 0, which PEDF takes for none, no priority is 0, which    *)
(* PWRR takes for none.                                                    *)
DeadlinesSet(c) ==
  c.policy = "PEDF" => \A t \in Threads \ {MainThread} : c.deadline[t] > 0

PrioritiesSet(c) ==
  c.policy = "PWRR" =>
    /\ \A t \in Threads \ {MainThread} : c.priority[t] > 0
    /\ "set_priority" \in c.services => 0 \notin NewPriorities

(* Starting a periodic thread gives it its first priority back without an  *)
(* election.                                                               *)
PrioritiesStand(c) ==
  /\ c.policy \in PriorityPolicies \union {"PWRR"}
  /\ {"set_priority", "delayed_start"} \subseteq c.services
  => \A t \in Threads \ {MainThread} : c.period[t] = Infinite

(* Under PWRR, threads that share a processor share that of the main       *)
(* thread, which leaves it first.  On another processor the scan starts    *)
(* from the first thread until one is switched away from.                  *)
ScansMoveOn(c) ==
  c.policy = "PWRR" =>
    \A t, u \in Threads \ {MainThread} :
      t # u /\ c.affinity[t] = c.affinity[u] =>
        c.affinity[t] = c.affinity[MainThread]

(* A thread of finite capacity is not made ready by others: they do not    *)
(* give it a new budget.                                                   *)
BudgetsStand(c) ==
  \A t \in Threads \ {MainThread} :
    c.capacity[t] # Infinite =>
      /\ "resume" \notin c.services
      /\ "delayed_start" \in c.services => c.period[t] # Infinite

(* A processor is idle only if none of its threads can run, whatever has   *)
(* happened since the last tick and on whichever processor.  Not under     *)
(* WRR, which never looks at the thread that its scan starts from.         *)
WorkConserving ==
  conf.policy # "WRR" =>
    \A p \in Settled : current[p] = Idle => Ready(th, p) = {}

(* The policy holds at every moment and not just when it is applied: no    *)
(* ready thread outranks the one that runs, although other processors      *)
(* resume threads and change priorities.                                   *)
RightThreadRuns ==
  \A p \in Settled : \A t \in Ready(th, p) :
    current[p] \in Ready(th, p) => ~ Outranks(t, current[p])

(* A processor is given only a thread of its own that can run; under MLFQ  *)
(* one that takes over is of the highest level with a ready thread.        *)
DispatchedIsReady ==
  [][\A p \in Procs :
       /\ Interrupted(p) \/ current'[p] # current[p] =>
            current'[p] \in Ready(th', p) \union {Idle}
       /\ /\ conf.policy = "MLFQ"
          /\ Interrupted(p) /\ current'[p] \in Threads \ {current[p]}
          => \A t \in Ready(th', p) : th'[t].level <= th'[current'[p]].level]_vars

(* A thread that runs has capacity left, unless it has stopped running by  *)
(* itself: nobody runs longer than time_capacity in a period.              *)
BudgetLeft ==
  \A p \in Settled : \A t \in Threads :
    current[p] = t /\ t \in Ready(th, p) /\ conf.capacity[t] # Infinite =>
      th[t].remaining > 0

(* Threads whose demand the processor can meet end their work before their *)
(* deadline.                                                               *)
DeadlinesMet ==
  \A t \in Threads :
    conf.deadline[t] > 0 /\ th[t].state = "RUNNABLE" => th[t].ddl >= 0

(* WRR and PWRR: a thread is kept on the processor while another of its    *)
(* priority is ready only at the expense of its slice, so for weight       *)
(* quanta at most.                                                         *)
TurnsEnd ==
  [][\A p \in Procs : \A t \in Threads :
       /\ conf.policy \in {"WRR", "PWRR"}
       /\ Interrupted(p) /\ current[p] = t /\ current'[p] = t
       /\ \E u \in Ready(th', p) \ {t} : th[u].priority = th[t].priority
       => th'[t].slice < th[t].slice]_vars

(* Policies with slices, threads of finite capacity: a thread that can go  *)
(* on is replaced only when its slice is used up, or by a thread of higher *)
(* priority ("the thread continues until its slice is used up",            *)
(* doc/report/design-report.md:120).                                       *)
TurnsAreFull ==
  [][\A p \in Procs : \A t \in Threads :
       /\ conf.policy \in {"WRR", "PWRR", "MLFQ"}
       /\ conf.capacity[t] # Infinite
       /\ Interrupted(p) /\ current[p] = t /\ current'[p] # t
       /\ t \in Ready(th', p)
       => \/ th[t].slice <= 1
          \/ /\ conf.policy = "PWRR"
             /\ th[current'[p]].priority > th[t].priority]_vars

-----------------------------------------------------------------------------
(* Round robin among threads that act on themselves only.                  *)
Undisturbed == conf.policy = "RR" /\ conf.services \subseteq {"sleep", "end_period"}

(* The timer runs, and a processor that is interrupted elects.             *)
FairSpec ==
  /\ Spec
  /\ WF_state(Undisturbed /\ Tick)
  /\ \A p \in Procs : WF_state(Undisturbed /\ Elect(p))

(* Every thread that can run gets the processor.                           *)
NoStarvation ==
  \A t \in Threads :
    (Undisturbed /\ th[t].state = "RUNNABLE") ~> (current[conf.affinity[t]] = t)

(* A sleeping thread wakes up.                                             *)
SleepersWake ==
  \A t \in Threads :
    (Undisturbed /\ th[t].state = "WAITING") ~> (th[t].state # "WAITING")
=============================================================================
