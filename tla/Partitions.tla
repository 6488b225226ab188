----------------------------- MODULE Partitions -----------------------------
(***************************************************************************)
(* Partitions from boot on: the clock and the slots, the modes, the main   *)
(* thread that creates the others, the error thread that stops or restarts *)
(* them, and the services that change who is ready (src/kernel/core:       *)
(* sched.c, partition.c, thread.c, error.c).                               *)
(*                                                                         *)
(* One processor: interrupts are disabled in a service, so a service and   *)
(* the election it ends with are one action.  Times are relative to the    *)
(* clock.  Left out: what an error was about (error_status), the       *)
(* attributes of error threads, dynamic threads, the sort of RMS tables.      *)
(***************************************************************************)
EXTENDS PartitionElection

CONSTANT Configs    \* configurations of the system

Services ==
  {"create", "create_error", "create_refused", "delayed_start", "normal", "stop",
   "restart", "raise", "sleep", "suspend", "end_period", "resume", "suspend_target",
   "stop_thread", "restart_thread"}

(* services, targets: the calls that the programs of a partition make and  *)
(* the threads they name; delays: the times they pass; apex: whether they  *)
(* call them through the ARINC 653 interface (libpok/arinc653/process.c);  *)
(* create_refused: they create an error thread also where it is refused.   *)
(* Bound: a time more than lag ticks ago counts as lag ticks ago.          *)
Tables(c) ==
  LET n     == Cardinality(DOMAIN c.nthreads)
      parts == 0..(n - 1)
      all   == 0..(c.low[n - 1] + c.nthreads[n - 1])    \* the last one is idle
  IN  /\ n \in Nat /\ n > 1
      /\ {c.nthreads, c.low} \subseteq [parts -> Nat]
      /\ c.low[0] = 0
      /\ \A p \in 1..(n - 1) : c.low[p] = c.low[p - 1] + c.nthreads[p - 1]
      /\ \A p \in parts : c.nthreads[p] > 0
      /\ c.period \in [all -> {Infinite} \union (Nat \ {0})]
      /\ c.capacity \in [all -> {Infinite} \union Nat]
      /\ c.deadline \in [all -> Nat] /\ c.priority \in [all -> Nat]
      /\ \A p \in parts : {c.period[c.low[p]], c.capacity[c.low[p]]} = {Infinite}
      /\ c.slots \in Seq(Nat) /\ c.allocation \in Seq(parts)

Consistent(c) ==
  /\ c.policy \in {"TIMESLICE", "PPS", "PEDF"}
  /\ Tables(c)
  /\ Len(c.slots) > 0 /\ Len(c.slots) = Len(c.allocation)
  /\ \A s \in DOMAIN c.slots : c.slots[s] >= c.quantum
  /\ c.quantum \in Nat \ {0} /\ c.lag \in Nat /\ c.delays \subseteq Nat
  /\ c.apex \in BOOLEAN
  /\ c.policy # "TIMESLICE" =>
       /\ ScanEnds(c)
       /\ \A s \in DOMAIN c.slots : c.slots[s] = c.slots[1] /\ c.allocation[s] = s - 1

(* Programs do not name main threads in the calls that act on a thread: the *)
(* test of the number would let them (InBounds).                           *)
MainsSpared(c) ==
  \A p, q \in DOMAIN c.nthreads : c.low[p] \notin c.targets[q]

ASSUME ConfigsAssumption == \A c \in Configs : Consistent(c)

AllPartitions == UNION {DOMAIN c.nthreads : c \in Configs}
AllThreads    == UNION {DOMAIN c.period : c \in Configs}

VARIABLES
  parts,    \* pok_partitions, the fields that change
  th,       \* pok_threads, the fields that change
  slot,     \* pok_sched_current_slot, from 1
  left,     \* pok_sched_next_deadline, from now
  frame,    \* pok_sched_next_major_frame, from now
  quantum,  \* quantum_counter
  refused   \* history: the creation of an error thread has been refused

clock == <<slot, left, frame, quantum>>
vars  == <<conf, cur, run, parts, th, clock, refused>>

Modes  == InitModes \union {"NORMAL", "STOPPED"}
States == {"STOPPED", "RUNNABLE", "WAITING", "WAIT_NEXT_ACTIVATION", "DELAYED_START"}

PartitionType ==
  [mode : Modes, index : Nat, current : 0..Idle, error : 0..Idle]
ThreadType ==
  [state : States, left : Int, next : Int, wake : Nat, ddl : Int]

TypeOK ==
  /\ parts \in [Partitions -> PartitionType]
  /\ th \in [0..Idle -> ThreadType]
  /\ cur \in Partitions /\ run \in 0..Idle
  /\ slot \in 1..NbSlots
  /\ left \in Int /\ frame \in Int
  /\ quantum \in 0..(conf.quantum - 1)
  /\ refused \in BOOLEAN
  /\ \A p \in Partitions : parts[p].index <= conf.nthreads[p]

MajorFrame == SumFunction(conf.slots)

(* Absolute time 0, before every other time.                               *)
Zero == -conf.lag - 1

(* pok_thread_init, and pok_partition_thread_create: the period of an      *)
(* aperiodic thread is -1, its next activation is now - 1, in the past.    *)
Unused == [state |-> "STOPPED", left |-> Infinite, next |-> Zero,
           wake |-> 0, ddl |-> Zero]

Created(t) ==
  [state |-> "RUNNABLE", left |-> conf.capacity[t], wake |-> 0,
   next |-> IF Aperiodic(t) THEN -conf.lag ELSE conf.period[t],
   ddl |-> IF conf.deadline[t] > 0 THEN conf.deadline[t] ELSE Zero]

(* pok_boot: pok_thread_init, after pok_partition_init, resets the main    *)
(* threads too, which are elected in initialisation all the same.  The     *)
(* kernel thread, which runs until the first quantum is over, counts as    *)
(* idle.                                                                   *)
Init ==
  /\ conf \in Configs
  /\ parts = [p \in Partitions |-> [mode |-> "INIT_WARM", index |-> 1,
                                    current |-> Idle, error |-> NoHandler]]
  /\ th = [t \in 0..Idle |->
             IF t = Idle THEN [Unused EXCEPT !.state = "RUNNABLE"] ELSE Unused]
  /\ slot = 1 /\ left = conf.slots[1] /\ frame = MajorFrame /\ quantum = 0
  /\ cur = Allocated(1) /\ run = Idle
  /\ refused = FALSE
-----------------------------------------------------------------------------
(* pok_elect_thread and the switch to the elected thread.                  *)
Dispatch(P, T, p) ==
  \E r \in ElectThread(P, T, p) :
    /\ th' = r.table
    /\ run' = r.elected
    /\ parts' = [P EXCEPT ![p].current = r.elected]

(* pok_sched_thread.                                                       *)
LocalSched(T) ==
  /\ Dispatch(parts, T, cur)
  /\ UNCHANGED <<conf, cur, clock>>

(* pok_elect_partition: a boundary is noticed when a global reschedule     *)
(* comes, and the next one is counted from where it should have been.      *)
(* Mutant: the next boundary is counted from now.                          *)
GlobalSched_Drift(P, T, toDeadline, toFrame) ==
  LET over == toDeadline <= 0
      s    == NextSlot(slot)
  IN  /\ slot' = IF over THEN s ELSE slot
      /\ left' = IF over THEN conf.slots[s] ELSE toDeadline
      /\ frame' = IF over /\ toFrame <= 0 THEN toFrame + MajorFrame ELSE toFrame
      /\ cur' = IF over THEN Allocated(s) ELSE cur
      /\ Dispatch(P, T, cur')

GlobalSched(P, T, toDeadline, toFrame) ==
  LET over   == toDeadline <= 0
      s      == NextSlot(slot)
      choice == IF over THEN ElectPartition(P, T, s)
                        ELSE [partition |-> cur, table |-> T]
  IN  /\ slot' = IF over THEN s ELSE slot
      /\ left' = IF over THEN toDeadline + conf.slots[s] ELSE toDeadline
      /\ frame' = IF over /\ toFrame <= 0 THEN toFrame + MajorFrame ELSE toFrame
      /\ cur' = choice.partition
      /\ Dispatch(P, choice.table, choice.partition)

Reschedule(P, T) ==
  /\ GlobalSched(P, T, left, frame)
  /\ UNCHANGED <<conf, quantum>>

Earlier(n) == IF n > -conf.lag THEN n - 1 ELSE n

Later ==
  [t \in 0..Idle |->
     IF t = Idle THEN th[t]
     ELSE [th[t] EXCEPT
             !.wake = IF @ > 0 /\ th[t].state # "DELAYED_START" THEN @ - 1 ELSE @,
             !.next = Earlier(@),
             !.ddl = Earlier(@)]]

(* pit_interrupt.                                                          *)
Count == quantum' = (quantum + 1) % conf.quantum

Tick ==
  /\ Count
  /\ IF quantum' > 0
     THEN /\ left' = left - 1 /\ frame' = frame - 1
          /\ th' = Later
          /\ UNCHANGED <<conf, parts, cur, run, slot>>
     ELSE /\ GlobalSched(parts, Later, left - 1, frame - 1)
          /\ UNCHANGED conf
-----------------------------------------------------------------------------
(* pok_core_syscall: the thread that runs calls a service.                 *)
Caller(s) == run # Idle /\ s \in conf.services[cur]

Me          == parts[cur]
IsMain      == run = Main(cur)
IsHandler   == run = Me.error
HasHandler  == Me.error # NoHandler
SetState(t, s) == [th EXCEPT ![t].state = s]

NewThread == Low(cur) + Me.index

(* The test of a thread's number lets High(cur) through, which belongs to  *)
(* the next partition.  Programs name threads they have created, or that.  *)
InBounds(id) == Low(cur) <= id /\ id <= High(cur)
Target(id)   == /\ id \in conf.targets[cur] /\ InBounds(id)
                /\ id < NewThread \/ id = High(cur)

(* Mutant: thread_index_high is taken for a thread of the partition.       *)
MayCreate_OffByOne == Me.mode \in InitModes /\ NewThread <= High(cur)

MayCreate == Me.mode \in InitModes /\ NewThread < High(cur)

(* CREATE_PROCESS suspends what it has created.                            *)
FirstState == IF conf.apex THEN "STOPPED" ELSE "RUNNABLE"

CreateThread ==
  /\ Caller("create") /\ MayCreate
  /\ th' = [th EXCEPT ![NewThread] = [Created(NewThread) EXCEPT !.state = FirstState]]
  /\ parts' = [parts EXCEPT ![cur].index = @ + 1]
  /\ UNCHANGED <<conf, cur, run, clock>>

(* pok_sched_activate_error_thread switches to the error thread without    *)
(* recording it as the current thread of the partition.  Its attributes    *)
(* are not initialised: is_dynamic lets it be created in NORMAL mode too.  *)
CreateErrorThread ==
  /\ Caller("create_error") /\ NewThread < High(cur)
  /\ th' = [th EXCEPT ![NewThread] = [Created(NewThread) EXCEPT !.next = 0]]
  /\ parts' = [parts EXCEPT ![cur].index = @ + 1, ![cur].error = NewThread]
  /\ run' = NewThread
  /\ UNCHANGED <<conf, cur, clock>>

(* pok_sched_activate_error_thread.  Left out: the priority, the period and *)
(* the capacity that it gives; every thread keeps those of conf.           *)
Activated(t) == [th EXCEPT ![t].state = "RUNNABLE", ![t].next = 0]

(* When the creation is refused, tid is not initialised: any thread, of    *)
(* whatever partition, may become the handler and run; 0 leaves the        *)
(* partition without one.  Bound: tid is the number of a thread.           *)
RefuseErrorThread ==
  /\ Caller("create_refused") /\ ~MayCreate
  /\ \E tid \in 0..Idle :
       /\ parts' = [parts EXCEPT ![cur].error = tid]
       /\ th' = IF tid = NoHandler THEN th ELSE Activated(tid)
       /\ run' = IF tid = NoHandler THEN run ELSE tid
  /\ refused' = TRUE
  /\ UNCHANGED <<conf, cur, clock>>

(* pok_error_raise_application_error; an exception, in the thread it stops. *)
RaiseError ==
  /\ Caller("raise") /\ HasHandler
  /\ th' = Activated(Me.error)
  /\ run' = Me.error
  /\ UNCHANGED <<conf, cur, parts, clock>>

(* pok_thread_delayed_start.  Bound: before NORMAL mode a periodic thread  *)
(* is started without delay.                                               *)
OwnerOf(t) == IF t = Idle THEN 0 ELSE CHOOSE p \in Partitions : t \in Only(p)

(* START, DELAYED_START: of a DORMANT process, which is a STOPPED thread.  *)
MayStart(id) == conf.apex => th[id].state = "STOPPED"

DelayedStart(id, delay) ==
  /\ Caller("delayed_start") /\ Target(id) /\ MayStart(id)
  /\ LET normal == parts[OwnerOf(id)].mode = "NORMAL"
     IN  \/ /\ normal /\ Aperiodic(id)
            /\ Reschedule(parts, [th EXCEPT
                 ![id].state = IF delay = 0 THEN "RUNNABLE" ELSE "WAITING",
                 ![id].wake = IF delay = 0 THEN @ ELSE delay])
         \/ /\ normal /\ ~Aperiodic(id)
            /\ th' = [th EXCEPT ![id].next = delay]
            /\ UNCHANGED <<conf, parts, cur, run, clock>>
         \/ /\ ~normal /\ (Aperiodic(id) \/ delay = 0)
            /\ th' = [th EXCEPT ![id].state = "DELAYED_START", ![id].wake = delay]
            /\ UNCHANGED <<conf, parts, cur, run, clock>>

Sleep(delay) ==
  /\ Caller("sleep")
  /\ LocalSched([th EXCEPT ![run].state = "WAITING", ![run].wake = delay])

Suspend ==
  /\ Caller("suspend")
  /\ LocalSched(SetState(run, "STOPPED"))

EndPeriod ==
  /\ Caller("end_period")
  /\ LocalSched([th EXCEPT ![run].state = "WAIT_NEXT_ACTIVATION", ![run].left = 0])

Resume(id) ==
  /\ Caller("resume") /\ Target(id)
  /\ Reschedule(parts, [th EXCEPT ![id].state = "RUNNABLE", ![id].wake = 0])

(* SUSPEND: of a periodic process that is not DORMANT.                     *)
MaySuspend(id) ==
  conf.apex => th[id].state # "STOPPED" /\ ~Aperiodic(id)

SuspendTarget(id) ==
  /\ Caller("suspend_target") /\ Target(id) /\ id # run /\ MaySuspend(id)
  /\ th' = SetState(id, "STOPPED")
  /\ UNCHANGED <<conf, parts, cur, run, clock>>

(* Without a handler Me.error is 0, the main thread of partition 0.        *)
StopThread(id) ==
  /\ Caller("stop_thread") /\ IsHandler /\ Target(id)
  /\ Reschedule(parts, SetState(id, "STOPPED"))

Restarted(t) ==
  [th EXCEPT ![t].state = "WAIT_NEXT_ACTIVATION", ![t].wake = 0,
             ![t].left = conf.capacity[t]]

RestartThread(id) ==
  /\ Caller("restart_thread") /\ IsHandler /\ Target(id)
  /\ Reschedule(parts, Restarted(id))
-----------------------------------------------------------------------------
(* pok_partition_set_mode_current: only the main and the error thread.     *)

(* A delayed start begins now.                                             *)
Started(r) ==
  IF r.state # "DELAYED_START" THEN r
  ELSE [r EXCEPT !.state = IF r.wake = 0 THEN "RUNNABLE" ELSE "WAITING"]

AllStarted ==
  [t \in 0..Idle |-> IF t = run THEN [Started(th[t]) EXCEPT !.state = "STOPPED"]
                     ELSE IF t \in Only(cur) THEN Started(th[t])
                     ELSE th[t]]

SetNormal ==
  /\ Caller("normal") /\ IsMain
  /\ Reschedule([parts EXCEPT ![cur].mode = "NORMAL"], AllStarted)

SetStopped ==
  /\ Caller("stop") /\ HasHandler /\ IsHandler
  /\ Reschedule([parts EXCEPT ![cur].mode = "STOPPED"], th)

(* pok_partition_reinit: the main thread is made again; the other threads  *)
(* keep what they have.                                                    *)
SetInit(m) ==
  /\ Caller("restart") /\ HasHandler /\ IsHandler
  /\ m \in InitModes
  /\ ~(Me.mode = "INIT_COLD" /\ m = "INIT_WARM")
  /\ Reschedule([parts EXCEPT ![cur] = [mode |-> m, index |-> 1,
                                        current |-> Low(cur), error |-> NoHandler]],
                [th EXCEPT ![Main(cur)] = Created(Main(cur))])
-----------------------------------------------------------------------------
Orderly ==
  \/ Tick
  \/ CreateThread \/ CreateErrorThread \/ RaiseError
  \/ Suspend \/ EndPeriod
  \/ \E delay \in conf.delays :
       Sleep(delay) \/ \E id \in 0..Idle : DelayedStart(id, delay)
  \/ \E id \in 0..Idle : \/ Resume(id) \/ SuspendTarget(id)
                         \/ StopThread(id) \/ RestartThread(id)
  \/ SetNormal \/ SetStopped \/ \E m \in InitModes : SetInit(m)

Next == RefuseErrorThread \/ (Orderly /\ UNCHANGED refused)

Spec == Init /\ [][Next]_vars

(* The timer never stops: only Tick changes quantum, and it always does in *)
(* configurations with more than one interrupt in a quantum.               *)
FairSpec == Spec /\ WF_quantum(Count)
-----------------------------------------------------------------------------
(* The schedule neither drifts nor skips: a boundary is noticed within a   *)
(* quantum, and the major frame ends with the last slot, so that ports are *)
(* flushed at the beginning of the frame only (pok_elect_partition).       *)
RestOfFrame == SumFunctionOnSet(conf.slots, (slot + 1)..NbSlots)

FrameAligned == left > -conf.quantum /\ frame = left + RestOfFrame

(* Whose thread runs is decided by the partition that has the processor    *)
(* and by its mode (partition.h: "only the main thread is active", "main   *)
(* thread is disabled", "it will no longer be executed").                  *)
ModeDecides ==
  ~refused =>
  /\ run \in Only(cur) \union {Idle}
  /\ Me.mode \in InitModes => run \in {Main(cur), Me.error, Idle}
  /\ Me.mode = "NORMAL" => run # Main(cur)
  /\ Me.mode = "STOPPED" => run = Idle

(* Modes change along the life of a partition and by its own threads: it   *)
(* enters NORMAL from initialisation, never goes from a cold start to a    *)
(* warm one, and is never left once STOPPED (pok_partition_set_mode).      *)
Legal(from, to) ==
  \/ from \in InitModes /\ to \in {"NORMAL", "STOPPED"}
  \/ from = "NORMAL" /\ to \in {"STOPPED"} \union InitModes
  \/ from = "INIT_WARM" /\ to = "INIT_COLD"

ModesMoveLegally ==
  [][\A p \in Partitions :
       ~refused /\ parts'[p].mode # parts[p].mode =>
         cur = p /\ Legal(parts[p].mode, parts'[p].mode)]_vars

(* Under every global policy a partition in initialisation gets the        *)
(* processor ("or they may never be initialized and scheduled", sched.c).  *)
Starting   == {p \in Partitions : parts[p].mode \in InitModes}
MainsTurn  == {p \in Partitions : run = Main(p)}

InitGetsTime == \A p \in AllPartitions : p \in Starting ~> p \notin Starting \ MainsTurn

(* A thread whose period has begun becomes ready ("Activate waiting        *)
(* threads, or some partitions may never be scheduled", sched.c).          *)
Overdue(t) == t \in DOMAIN th /\ DueToStart(th[t])

DueWakes == \A t \in AllThreads : Overdue(t) ~> ~Overdue(t)

(* The same where partitions have slots of their own.                      *)
DueWakesInSlots ==
  \A t \in AllThreads :
    conf.policy = "TIMESLICE" /\ Overdue(t) ~> ~Overdue(t)
=============================================================================
