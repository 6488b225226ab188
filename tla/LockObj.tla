------------------------------ MODULE LockObj ------------------------------
(***************************************************************************)
(* Lock objects of the kernel: mutexes, counting semaphores and events     *)
(* (src/kernel/core/lockobj.c), with the threads that use them on one or   *)
(* several processors.                                                     *)
(*                                                                         *)
(* Grain of atomicity.  Interrupts are disabled in a system call, so the   *)
(* threads of one processor interleave only where a call gives up the      *)
(* processor (pok_sched_thread).  Threads of different processors          *)
(* interleave everywhere but inside a section protected by a spin lock.    *)
(* An action is therefore one such section; pc says between which sections *)
(* of a call a thread is.  obj->spin is never held from one action to the  *)
(* next; obj->eventspin is, during the first half of eventwait.            *)
(*                                                                         *)
(* Scheduling is left open: any RUNNABLE thread of a processor may be the  *)
(* one it runs, which covers every policy.  Threads have an infinite time  *)
(* capacity here and nobody else changes their state.                      *)
(***************************************************************************)
EXTENDS WaitQueue

CONSTANTS
  Threads,      \* the threads of the partition
  Procs,        \* processors
  Proc,         \* processor_affinity of each thread
  Prio,         \* priority of each thread
  NbLockObjs,   \* lockobj_index_high - lockobj_index_low of the partition
  Attrs,        \* the attributes a partition creates lock objects with
  NoThread,     \* holder of a free spin lock
  Timeouts,     \* timeouts, in ticks, that threads pass; 0 is "no timeout"
  Relock        \* may a thread ask for a mutex it already holds?

Objs == 0..NbLockObjs - 1
Kinds == {"MUTEX", "SEMAPHORE", "EVENT"}

(* locking_policy is stored and never read, so it is left out.             *)
AttrType == [kind : Kinds, queueing_policy : Disciplines,
             initial_value : Nat, max_value : Nat]

ASSUME ConstantsAssumption ==
  /\ Proc \in [Threads -> Procs]
  /\ Prio \in [Threads -> Nat]
  /\ NbLockObjs \in Nat \ {0}
  /\ Attrs \subseteq AttrType
  /\ NoThread \notin Threads
  /\ Timeouts \subseteq Nat
  /\ Relock \in BOOLEAN

NoAttr == [kind |-> "NONE"]    \* initialized = FALSE

VARIABLES
  mode,         \* the partition is in "INIT" (cold or warm) or "NORMAL" mode
  attr,         \* attr[o]: what the object was created with, or NoAttr
  value,        \* current_value
  fifo,         \* threads blocked in lock
  event_fifo,   \* threads blocked in eventwait
  eventspin,    \* the thread that holds the spin lock of the event
  state,        \* state of each thread
  wakeup,       \* ticks left before wakeup_time
  timed,        \* did the pending call set a deadline?
  pc,           \* where in a call each thread is, "user" outside
  on,           \* the object of the pending call
  ret,          \* result of the last call
  hold          \* history: threads that lock() told they have the object

objVars    == <<attr, value, fifo, event_fifo, eventspin>>
threadVars == <<state, wakeup, timed, pc, on, ret>>
vars       == <<mode, objVars, threadVars, hold>>

Blocked  == {"LOCK", "WAITING"}
InKernel == {"ev_enqueue", "ev_relock"}  \* inside a call, interrupts disabled
PCs      == InKernel \union {"user", "lock", "ev_wait", "relock"}

TypeOK ==
  /\ mode \in {"INIT", "NORMAL"}
  /\ attr \in [Objs -> AttrType \union {NoAttr}]
  /\ value \in [Objs -> Nat]
  /\ fifo \in [Objs -> Seq(Threads)]
  /\ event_fifo \in [Objs -> Seq(Threads)]
  /\ eventspin \in [Objs -> Threads \union {NoThread}]
  /\ state \in [Threads -> Blocked \union {"RUNNABLE"}]
  /\ wakeup \in [Threads -> Nat]
  /\ timed \in [Threads -> BOOLEAN]
  /\ pc \in [Threads -> PCs]
  /\ on \in [Threads -> Objs]
  /\ ret \in [Threads -> {"OK", "TIMEOUT", "NOTFOUND"}]
  /\ hold \in [Objs -> SUBSET Threads]

(* pok_lockobj_init                                                        *)
Init ==
  /\ mode = "INIT"
  /\ attr = [o \in Objs |-> NoAttr]
  /\ value = [o \in Objs |-> 1]
  /\ fifo = [o \in Objs |-> <<>>]
  /\ event_fifo = [o \in Objs |-> <<>>]
  /\ eventspin = [o \in Objs |-> NoThread]
  /\ state = [t \in Threads |-> "RUNNABLE"]
  /\ wakeup = [t \in Threads |-> 0]
  /\ timed = [t \in Threads |-> FALSE]
  /\ pc = [t \in Threads |-> "user"]
  /\ on = [t \in Threads |-> 0]
  /\ ret = [t \in Threads |-> "OK"]
  /\ hold = [o \in Objs |-> {}]
-----------------------------------------------------------------------------
(* Creation, by the main thread, before the other threads run.             *)

(* pok_lockobj_partition_create takes the first object not yet created.    *)
Create(o, a) ==
  /\ mode = "INIT"
  /\ attr[o] = NoAttr
  /\ \A p \in Objs : p < o => attr[p] # NoAttr
  /\ attr' = [attr EXCEPT ![o] =
       IF a.kind = "EVENT" THEN [a EXCEPT !.queueing_policy = "PRIORITY"] ELSE a]
  /\ value' = [value EXCEPT ![o] =
       IF a.kind = "SEMAPHORE" THEN a.initial_value ELSE 1]
  /\ fifo' = [fifo EXCEPT ![o] = <<>>]
  /\ event_fifo' = [event_fifo EXCEPT ![o] = <<>>]
  /\ UNCHANGED <<mode, eventspin, threadVars, hold>>

(* The main thread puts the partition in NORMAL mode.                      *)
StartNormal ==
  /\ mode = "INIT"
  /\ mode' = "NORMAL"
  /\ UNCHANGED <<objVars, threadVars, hold>>
-----------------------------------------------------------------------------
Kind(o) == attr[o].kind

(* t may be the thread its processor runs: it is RUNNABLE and no other     *)
(* thread of the processor is inside a call.                               *)
CanRun(t) ==
  /\ mode = "NORMAL"
  /\ state[t] = "RUNNABLE"
  /\ \A u \in Threads \ {t} : Proc[u] = Proc[t] => pc[u] \notin InKernel

Call(t, o) == CanRun(t) /\ pc[t] = "user" /\ attr[o] # NoAttr

(* Mutant: "deadline != 0" forgotten.                                      *)
DeadlinePassed_Untimed(t) == wakeup[t] = 0

DeadlinePassed(t) == timed[t] /\ wakeup[t] = 0

(* Mutant: the wake-up time of a timed wait is lost.                       *)
Block_Forever(t, timeout) ==
  /\ state' = [state EXCEPT ![t] = "LOCK"]
  /\ timed' = [timed EXCEPT ![t] = timeout > 0]
  /\ UNCHANGED wakeup

(* pok_sched_lock_current_thread, _timed                                   *)
Block(t, timeout) ==
  /\ state' = [state EXCEPT ![t] = IF timeout > 0 THEN "WAITING" ELSE "LOCK"]
  /\ wakeup' = [wakeup EXCEPT ![t] = IF timeout > 0 THEN timeout ELSE @]
  /\ timed' = [timed EXCEPT ![t] = timeout > 0]

(* Mutant: the object is taken without a look at current_value.            *)
TakeOrBlock_NoTest(t, o, timeout, blockedAt) ==
  /\ value' = [value EXCEPT ![o] = @ - 1]
  /\ hold' = [hold EXCEPT ![o] = @ \union {t}]
  /\ pc' = [pc EXCEPT ![t] = "user"]
  /\ UNCHANGED <<fifo, state, wakeup, timed>>

(* First section of pok_lockobj_lock: take the object, or queue and block  *)
(* until pc = blockedAt continues.                                         *)
TakeOrBlock(t, o, timeout, blockedAt) ==
  \/ /\ value[o] > 0
     /\ value' = [value EXCEPT ![o] = @ - 1]
     /\ hold' = [hold EXCEPT ![o] = @ \union {t}]
     /\ pc' = [pc EXCEPT ![t] = "user"]
     /\ UNCHANGED <<fifo, state, wakeup, timed>>
  \/ /\ value[o] = 0
     /\ fifo' = [fifo EXCEPT ![o] =
          Enqueue(@, t, attr[o].queueing_policy, Prio)]
     /\ Block(t, timeout)
     /\ pc' = [pc EXCEPT ![t] = blockedAt]
     /\ UNCHANGED <<value, hold>>

Lock(t, o, timeout) ==
  /\ Call(t, o)
  /\ Relock \/ t \notin hold[o]
  /\ TakeOrBlock(t, o, timeout, "lock")
  /\ on' = [on EXCEPT ![t] = o]
  /\ ret' = [ret EXCEPT ![t] = "OK"]
  /\ UNCHANGED <<mode, attr, event_fifo, eventspin>>

(* Second section of pok_lockobj_lock, once t is elected again: it gives   *)
(* up if its deadline has passed, whoever made it RUNNABLE.                *)
LockReturn(t) ==
  /\ CanRun(t)
  /\ pc[t] = "lock"
  /\ IF DeadlinePassed(t)
     THEN /\ fifo' = [fifo EXCEPT ![on[t]] = RemoveThread(@, t)]
          /\ ret' = [ret EXCEPT ![t] = "TIMEOUT"]
          /\ UNCHANGED hold
     ELSE /\ hold' = [hold EXCEPT ![on[t]] = @ \union {t}]
          /\ UNCHANGED <<fifo, ret>>
  /\ pc' = [pc EXCEPT ![t] = "user"]
  /\ UNCHANGED <<mode, attr, value, event_fifo, eventspin, state, wakeup,
                 timed, on>>

(* Mutants: the waiting threads are forgotten; the object becomes          *)
(* available although it is handed over; the chosen thread is not          *)
(* dequeued; the maximum of a semaphore is ignored.                        *)
Release_IgnoreQueue(o) ==
  /\ value' = [value EXCEPT ![o] = 1]
  /\ UNCHANGED <<fifo, state>>

HandOver(o) ==
  /\ value[o] = 0
  /\ fifo[o] # <<>>
  /\ state' = [state EXCEPT ![Head(fifo[o])] = "RUNNABLE"]

Increment(o) ==
  /\ value[o] = 0 => fifo[o] = <<>>
  /\ value' = [value EXCEPT ![o] = IF Kind(o) = "SEMAPHORE" THEN @ + 1 ELSE 1]
  /\ UNCHANGED <<fifo, state>>

Release_Twice(o) ==
  \/ Increment(o)
  \/ /\ HandOver(o)
     /\ fifo' = [fifo EXCEPT ![o] = Tail(@)]
     /\ value' = [value EXCEPT ![o] = 1]

Release_NoDequeue(o) ==
  \/ Increment(o)
  \/ HandOver(o) /\ UNCHANGED <<fifo, value>>

Release_NoMaximum(o) ==
  \/ Increment(o)
  \/ /\ HandOver(o)
     /\ fifo' = [fifo EXCEPT ![o] = Tail(@)]
     /\ UNCHANGED value

(* pok_lockobj_unlock, its three scenarios.                                *)
Release(o) ==
  \/ /\ value[o] > 0
     /\ value' = [value EXCEPT ![o] =
          IF Kind(o) # "SEMAPHORE" THEN 1
          ELSE IF @ < attr[o].max_value THEN @ + 1 ELSE @]
     /\ UNCHANGED <<fifo, state>>
  \/ /\ value[o] = 0
     /\ fifo[o] = <<>>
     /\ value' = [value EXCEPT ![o] = 1]
     /\ UNCHANGED <<fifo, state>>
  \/ /\ value[o] = 0
     /\ fifo[o] # <<>>
     /\ fifo' = [fifo EXCEPT ![o] = Tail(@)]
     /\ state' = [state EXCEPT ![Head(fifo[o])] = "RUNNABLE"]
     /\ UNCHANGED value

(* Programs signal a semaphore freely, but unlock only a mutex they hold.  *)
MayUnlock(t, o) == Kind(o) = "SEMAPHORE" \/ t \in hold[o]

Unlock(t, o) ==
  /\ Call(t, o)
  /\ MayUnlock(t, o)
  /\ Release(o)
  /\ hold' = [hold EXCEPT ![o] = @ \ {t}]
  /\ ret' = [ret EXCEPT ![t] = "OK"]
  /\ UNCHANGED <<mode, attr, event_fifo, eventspin, wakeup, timed, pc, on>>
-----------------------------------------------------------------------------
(* Events.  A thread waits with the object locked, and has it locked again *)
(* when the call returns.                                                  *)

(* Mutant: the event is used without its spin lock.                        *)
EventSpinFree_Always(o) == TRUE

EventSpinFree(o) == eventspin[o] = NoThread

(* pok_lockobj_eventwait, up to the return of pok_lockobj_unlock.          *)
EventWait(t, o) ==
  /\ Call(t, o)
  /\ Kind(o) = "EVENT"
  /\ MayUnlock(t, o)
  /\ EventSpinFree(o)
  /\ eventspin' = [eventspin EXCEPT ![o] = t]
  /\ Release(o)
  /\ hold' = [hold EXCEPT ![o] = @ \ {t}]
  /\ pc' = [pc EXCEPT ![t] = "ev_enqueue"]
  /\ on' = [on EXCEPT ![t] = o]
  /\ UNCHANGED <<mode, attr, event_fifo, wakeup, timed, ret>>

(* ... then it queues, blocks and releases eventspin.                      *)
EventEnqueue(t, timeout) ==
  /\ pc[t] = "ev_enqueue"
  /\ event_fifo' = [event_fifo EXCEPT ![on[t]] =
       Enqueue(@, t, "PRIORITY", Prio)]
  /\ Block(t, timeout)
  /\ eventspin' = [eventspin EXCEPT ![on[t]] = NoThread]
  /\ pc' = [pc EXCEPT ![t] = "ev_wait"]
  /\ UNCHANGED <<mode, attr, value, fifo, on, ret, hold>>

(* Mutant: a late thread stays in the queue.                               *)
EventReturn_StaysQueued(t) ==
  /\ CanRun(t)
  /\ pc[t] = "ev_wait"
  /\ pc' = [pc EXCEPT ![t] = "ev_relock"]
  /\ UNCHANGED <<mode, objVars, state, wakeup, timed, on, ret, hold>>

(* ... and, once elected again, leaves the queue if it is late.            *)
EventReturn(t) ==
  /\ CanRun(t)
  /\ pc[t] = "ev_wait"
  /\ IF DeadlinePassed(t)
     THEN /\ EventSpinFree(on[t])
          /\ event_fifo' = [event_fifo EXCEPT ![on[t]] = RemoveThread(@, t)]
          /\ ret' = [ret EXCEPT ![t] = "TIMEOUT"]
     ELSE /\ ret' = [ret EXCEPT ![t] = "OK"]
          /\ UNCHANGED event_fifo
  /\ pc' = [pc EXCEPT ![t] = "ev_relock"]
  /\ UNCHANGED <<mode, attr, value, fifo, eventspin, state, wakeup, timed, on,
                 hold>>

(* pok_lockobj_lock (obj, NULL) at the end of eventwait.                   *)
EventLock(t) ==
  /\ CanRun(t)
  /\ pc[t] = "ev_relock"
  /\ TakeOrBlock(t, on[t], 0, "relock")
  /\ UNCHANGED <<mode, attr, event_fifo, eventspin, on, ret>>

EventLockReturn(t) ==
  /\ CanRun(t)
  /\ pc[t] = "relock"
  /\ hold' = [hold EXCEPT ![on[t]] = @ \union {t}]
  /\ pc' = [pc EXCEPT ![t] = "user"]
  /\ UNCHANGED <<mode, objVars, state, wakeup, timed, on, ret>>

Signal(t, o) ==
  /\ Call(t, o)
  /\ Kind(o) = "EVENT"
  /\ EventSpinFree(o)
  /\ IF event_fifo[o] = <<>>
     THEN /\ ret' = [ret EXCEPT ![t] = "NOTFOUND"]
          /\ UNCHANGED <<state, event_fifo>>
     ELSE /\ state' = [state EXCEPT ![Head(event_fifo[o])] = "RUNNABLE"]
          /\ event_fifo' = [event_fifo EXCEPT ![o] = Tail(@)]
          /\ ret' = [ret EXCEPT ![t] = "OK"]
  /\ UNCHANGED <<mode, attr, value, fifo, eventspin, wakeup, timed, pc, on,
                 hold>>

Broadcast(t, o) ==
  /\ Call(t, o)
  /\ Kind(o) = "EVENT"
  /\ EventSpinFree(o)
  /\ state' = [u \in Threads |->
       IF u \in ToSet(event_fifo[o]) THEN "RUNNABLE" ELSE state[u]]
  /\ event_fifo' = [event_fifo EXCEPT ![o] = <<>>]
  /\ ret' = [ret EXCEPT ![t] = "OK"]
  /\ UNCHANGED <<mode, attr, value, fifo, eventspin, wakeup, timed, pc, on,
                 hold>>
-----------------------------------------------------------------------------
(* Time.                                                                   *)

(* The timer interrupt advances pok_tick_counter.  wakeup counts down and  *)
(* stays at 0, which is all a comparison with the clock can tell.          *)
Tick ==
  /\ \E t \in Threads : wakeup[t] > 0
  /\ wakeup' = [t \in Threads |-> IF wakeup[t] > 0 THEN wakeup[t] - 1 ELSE 0]
  /\ UNCHANGED <<mode, objVars, state, timed, pc, on, ret, hold>>

(* Each election on a processor first makes the threads of that processor  *)
(* that have waited long enough RUNNABLE.                                  *)
Expired(p) ==
  {t \in Threads : Proc[t] = p /\ state[t] = "WAITING" /\ wakeup[t] = 0}

WakeExpired(p) ==
  /\ Expired(p) # {}
  /\ \A t \in Threads : Proc[t] = p => pc[t] \notin InKernel
  /\ state' = [t \in Threads |->
       IF t \in Expired(p) THEN "RUNNABLE" ELSE state[t]]
  /\ UNCHANGED <<mode, objVars, wakeup, timed, pc, on, ret, hold>>

ThreadStep(t) ==
  \/ \E o \in Objs, timeout \in Timeouts : Lock(t, o, timeout)
  \/ LockReturn(t)
  \/ \E o \in Objs : Unlock(t, o)
  \/ \E o \in Objs : EventWait(t, o)
  \/ \E timeout \in Timeouts : EventEnqueue(t, timeout)
  \/ EventReturn(t)
  \/ EventLock(t)
  \/ EventLockReturn(t)
  \/ \E o \in Objs : Signal(t, o)
  \/ \E o \in Objs : Broadcast(t, o)

Next ==
  \/ \E o \in Objs, a \in Attrs : Create(o, a)
  \/ StartNormal
  \/ \E t \in Threads : ThreadStep(t)
  \/ Tick
  \/ \E p \in Procs : WakeExpired(p)

Spec == Init /\ [][Next]_vars
-----------------------------------------------------------------------------
(* The threads unlock() has given the object to and that have not run      *)
(* since: they are out of the queue and still inside lock().               *)
Granted(o) ==
  {t \in Threads : /\ pc[t] \in {"lock", "relock"}
                   /\ on[t] = o
                   /\ t \notin ToSet(fifo[o])}

(* Where threads are in their calls agrees with their states and with the  *)
(* objects: a thread outside lock() and eventwait() is not blocked, a      *)
(* timed wait has a deadline and the lock() that ends eventwait() none,    *)
(* only semaphores count beyond 1, and nothing has happened before the     *)
(* partition starts.                                                       *)
CallsMatchStates ==
  /\ \A t \in Threads :
       /\ pc[t] \in InKernel \union {"user"} => state[t] = "RUNNABLE"
       /\ state[t] = "WAITING" => timed[t]
       /\ pc[t] = "relock" => ~ timed[t]
       /\ mode = "INIT" => pc[t] = "user"
  /\ \A o \in Objs :
       /\ attr[o] = NoAttr \/ Kind(o) # "SEMAPHORE" => value[o] <= 1
       /\ mode = "INIT" =>
            fifo[o] = <<>> /\ event_fifo[o] = <<>> /\ hold[o] = {}

(* A resource is never left idle while a thread queues for it: the two     *)
(* assertions of pok_lockobj_lock and pok_lockobj_unlock never fail.       *)
NoIdleResource == \A o \in Objs : value[o] > 0 => fifo[o] = <<>>

(* Every blocked thread is in the queue of the object it waits for, where  *)
(* unlock, signal and broadcast will find it: nobody is stranded.          *)
BlockedIsQueued ==
  \A t \in Threads : state[t] \in Blocked =>
    \/ pc[t] \in {"lock", "relock"} /\ t \in ToSet(fifo[on[t]])
    \/ pc[t] = "ev_wait" /\ t \in ToSet(event_fifo[on[t]])

(* A queue holds no thread that has left the call it queued in, nor one    *)
(* twice: a later unlock or signal never wakes a thread out of turn.       *)
QueuedIsWaiting ==
  \A o \in Objs :
    /\ Distinct(fifo[o]) /\ Distinct(event_fifo[o])
    /\ \A t \in ToSet(fifo[o]) :
         /\ on[t] = o /\ pc[t] \in {"lock", "relock"}
         /\ state[t] \in Blocked \/ DeadlinePassed(t)
    /\ \A t \in ToSet(event_fifo[o]) :
         /\ on[t] = o /\ pc[t] = "ev_wait"
         /\ state[t] \in Blocked \/ DeadlinePassed(t)

(* A mutex, or the object of an event, belongs to at most one thread, be   *)
(* it one that lock() returned to or one that unlock() has chosen, and to  *)
(* none while it counts as available.                                      *)
Owners(o) == hold[o] \union Granted(o)

MutualExclusion ==
  \A o \in Objs : attr[o] # NoAttr /\ Kind(o) # "SEMAPHORE" =>
    /\ \A t, u \in Owners(o) : t = u
    /\ value[o] > 0 => Owners(o) = {}

(* A semaphore created within its bounds stays within them.                *)
SemaphoreBounded ==
  \A o \in Objs :
    attr[o] # NoAttr /\ Kind(o) = "SEMAPHORE"
      /\ 0 < attr[o].max_value /\ attr[o].initial_value <= attr[o].max_value
    => value[o] <= attr[o].max_value

(* When an object is handed over under the PRIORITY discipline, no thread  *)
(* left in the queue has a higher priority than the one chosen.            *)
GrantByPriority ==
  [][\A o \in Objs : \A t, u \in Threads :
       /\ attr[o] # NoAttr /\ attr[o].queueing_policy = "PRIORITY"
       /\ t \in Granted(o)' /\ t \in ToSet(fifo[o])
       /\ u \in ToSet(fifo[o])'
       => Prio[u] <= Prio[t]]_vars

(* Nobody has the object any more only if it is available again.  The one  *)
(* exception is a thread that unlock() has chosen and that then reports a  *)
(* timeout (GrantHonoured).                                                *)
NeverLost ==
  [][\A o \in Objs :
       /\ attr[o] # NoAttr /\ Kind(o) # "SEMAPHORE"
       /\ Owners(o) # {} /\ Owners(o)' = {}
       => \/ value'[o] > 0
          \/ \E t \in Granted(o) : timed[t] /\ ret'[t] = "TIMEOUT"]_vars

(* A thread that unlock() has chosen leaves lock() with the object: "make  *)
(* it ready again since it has now acquired a resource" (lockobj.c:362).   *)
GrantHonoured ==
  [][\A o \in Objs : \A t \in Granted(o) :
       t \in Granted(o)' \/ t \in hold'[o]]_vars

(* The same for a thread that waits without a deadline.                    *)
UntimedGrantHonoured ==
  [][\A o \in Objs : \A t \in Granted(o) :
       ~ timed[t] => t \in Granted(o)' \/ t \in hold'[o]]_vars

(* eventwait gives up the object and starts waiting as one step for those  *)
(* who signal: a signal that reports that nobody waits was not sent while  *)
(* a thread was between the two, and a broadcast leaves nobody blocked.    *)
NoLostSignal ==
  [][\A t, u \in Threads : \A o \in Objs :
       /\ Signal(t, o) /\ ret'[t] = "NOTFOUND" =>
            ~ (pc[u] = "ev_enqueue" /\ on[u] = o)
       /\ Broadcast(t, o) /\ pc[u] = "ev_wait" /\ on[u] = o =>
            state'[u] = "RUNNABLE"]_vars
-----------------------------------------------------------------------------
(* Liveness.  The clock runs, and every timer interrupt elects on all      *)
(* processors.  A thread that shares its processor may be passed over for  *)
(* ever: by round robin in favour of one that never blocks, by the other   *)
(* policies in favour of a higher rank.  One that is alone is elected      *)
(* whenever it is RUNNABLE, unless by WRR (ThreadSched, WorkConserving).   *)
Alone == {t \in Threads : \A u \in Threads \ {t} : Proc[u] # Proc[t]}

FairRun ==
  /\ \A t \in Alone : WF_vars(LockReturn(t))
  /\ WF_vars(Tick)
  /\ \A p \in Procs : WF_vars(WakeExpired(p))

RunSpec == Spec /\ FairRun

(* Programs end their critical sections.                                   *)
FairUsers == \A t \in Threads : \A o \in Objs : WF_vars(Unlock(t, o))

(* Under the FIFO discipline, if threads do not share processors, programs *)
(* release what they hold and nobody passes a timeout, every call of       *)
(* lock() returns: a thread is overtaken only a bounded number of times.   *)
LockReturns ==
  FairUsers /\ [](\A t \in Threads : ~ timed[t]) =>
    \A t \in Threads : pc[t] = "lock" ~> pc[t] = "user"

(* The call with a timeout of a thread alone on its processor returns even *)
(* if nobody ever unlocks the object.                                      *)
TimedLockReturns ==
  \A t \in Alone : pc[t] = "lock" /\ timed[t] ~> pc[t] = "user"
=============================================================================
