--------------------------- MODULE LockObjProofs ---------------------------
(***************************************************************************)
(* Safety of lock objects for any number of threads, processors and        *)
(* objects, any priorities and any timeouts.                               *)
(***************************************************************************)
EXTENDS LockObj, WaitQueueProofs

(* What enqueueing a thread of the partition does.                         *)
LEMMA EnqueueThread ==
  ASSUME NEW q \in Seq(Threads), NEW t \in Threads, NEW d
  PROVE  /\ Enqueue(q, t, d, Prio) \in Seq(Threads)
         /\ ToSet(Enqueue(q, t, d, Prio)) = ToSet(q) \union {t}
         /\ Distinct(q) /\ t \notin ToSet(q) => Distinct(Enqueue(q, t, d, Prio))
<1>1. Prio \in [Threads -> Nat] BY ConstantsAssumption
<1> QED BY <1>1, EnqueueProperties

(* Types are preserved by the two sections that lock, eventwait and unlock *)
(* share.                                                                  *)
LEMMA TakeOrBlockType ==
  ASSUME TypeOK, NEW t \in Threads, NEW o \in Objs, NEW timeout \in Nat,
         NEW c \in PCs, TakeOrBlock(t, o, timeout, c)
  PROVE  /\ value' \in [Objs -> Nat]
         /\ fifo' \in [Objs -> Seq(Threads)]
         /\ state' \in [Threads -> Blocked \union {"RUNNABLE"}]
         /\ wakeup' \in [Threads -> Nat]
         /\ timed' \in [Threads -> BOOLEAN]
         /\ pc' \in [Threads -> PCs]
         /\ hold' \in [Objs -> SUBSET Threads]
<1>1. CASE value[o] > 0
  <2>1. /\ value' = [value EXCEPT ![o] = @ - 1]
        /\ hold' = [hold EXCEPT ![o] = @ \union {t}]
        /\ pc' = [pc EXCEPT ![t] = "user"]
        /\ UNCHANGED <<fifo, state, wakeup, timed>>
    BY <1>1 DEF TakeOrBlock
  <2>2. value[o] - 1 \in Nat BY <1>1 DEF TypeOK
  <2> QED BY <2>1, <2>2 DEF TypeOK, PCs
<1>2. CASE value[o] = 0
  <2>1. Enqueue(fifo[o], t, attr[o].queueing_policy, Prio) \in Seq(Threads)
    BY EnqueueThread DEF TypeOK
  <2>2. /\ fifo' = [fifo EXCEPT ![o] =
              Enqueue(@, t, attr[o].queueing_policy, Prio)]
        /\ Block(t, timeout)
        /\ pc' = [pc EXCEPT ![t] = c]
        /\ value' = value /\ hold' = hold
    BY <1>2 DEF TakeOrBlock
  <2>3. fifo' \in [Objs -> Seq(Threads)] BY <2>1, <2>2 DEF TypeOK
  <2> QED BY <2>2, <2>3 DEF TypeOK, Block, Blocked
<1> QED BY <1>1, <1>2 DEF TakeOrBlock

(* unlock either makes the object available, nobody waiting for a unit     *)
(* that is not there, or hands it over to the head of the queue.           *)
LEMMA ReleaseCases ==
  ASSUME TypeOK, NEW o \in Objs, Release(o)
  PROVE  \/ /\ value[o] > 0 \/ fifo[o] = <<>>
            /\ value' = [value EXCEPT ![o] = value'[o]]
            /\ value'[o] \in Nat /\ (Kind(o) # "SEMAPHORE" => value'[o] = 1)
            /\ UNCHANGED <<fifo, state>>
         \/ /\ value[o] = 0
            /\ fifo[o] # <<>>
            /\ Head(fifo[o]) \in Threads
            /\ Tail(fifo[o]) \in Seq(Threads)
            /\ fifo' = [fifo EXCEPT ![o] = Tail(fifo[o])]
            /\ state' = [state EXCEPT ![Head(fifo[o])] = "RUNNABLE"]
            /\ UNCHANGED value
<1>0. value[o] \in Nat /\ fifo[o] \in Seq(Threads) BY DEF TypeOK
<1>1. CASE value[o] > 0
  <2> DEFINE n == IF Kind(o) # "SEMAPHORE" THEN 1
                  ELSE IF value[o] < attr[o].max_value
                       THEN value[o] + 1 ELSE value[o]
  <2>1. n \in Nat /\ (Kind(o) # "SEMAPHORE" => n = 1) BY <1>0
  <2>2. ~ (value[o] = 0) BY <1>1, <1>0
  <2>3. value' = [value EXCEPT ![o] = n] /\ UNCHANGED <<fifo, state>>
    BY <2>2 DEF Release
  <2> HIDE DEF n
  <2>4. value'[o] = n BY <2>3 DEF TypeOK
  <2>5. value' = [value EXCEPT ![o] = value'[o]] BY <2>3, <2>4
  <2>6. value'[o] \in Nat /\ (Kind(o) # "SEMAPHORE" => value'[o] = 1)
    BY <2>1, <2>4
  <2> QED BY <1>1, <2>3, <2>5, <2>6
<1>2. CASE value[o] = 0 /\ fifo[o] = <<>>
  <2>1. value' = [value EXCEPT ![o] = 1] /\ UNCHANGED <<fifo, state>>
    BY <1>2 DEF Release
  <2>2. value'[o] = 1 BY <2>1 DEF TypeOK
  <2>3. value'[o] \in Nat BY <2>2
  <2>4. value' = [value EXCEPT ![o] = value'[o]] BY <2>1, <2>2
  <2> QED BY <1>2, <2>1, <2>2, <2>3, <2>4
<1>3. CASE value[o] = 0 /\ fifo[o] # <<>>
  <2>1. Tail(fifo[o]) \in Seq(Threads) /\ Head(fifo[o]) \in Threads
    BY <1>0, <1>3, DequeueProperties
  <2> QED BY <1>3, <2>1 DEF Release
<1> QED BY <1>0, <1>1, <1>2, <1>3

(* unlock keeps the types of the objects and of the states of threads.     *)
LEMMA ReleaseType ==
  ASSUME TypeOK, NEW o \in Objs, Release(o)
  PROVE  /\ value' \in [Objs -> Nat]
         /\ fifo' \in [Objs -> Seq(Threads)]
         /\ state' \in [Threads -> Blocked \union {"RUNNABLE"}]
<1>1. CASE /\ value'[o] \in Nat
           /\ value' = [value EXCEPT ![o] = value'[o]]
           /\ UNCHANGED <<fifo, state>>
  BY <1>1 DEF TypeOK
<1>2. CASE /\ Tail(fifo[o]) \in Seq(Threads)
           /\ fifo' = [fifo EXCEPT ![o] = Tail(fifo[o])]
           /\ state' = [state EXCEPT ![Head(fifo[o])] = "RUNNABLE"]
           /\ UNCHANGED value
  BY <1>2 DEF TypeOK
<1> QED BY <1>1, <1>2, ReleaseCases

(* A thread that gives up leaves a queue of threads behind.                *)
LEMMA RemoveType ==
  ASSUME NEW q \in Seq(Threads), NEW t
  PROVE  RemoveThread(q, t) \in Seq(Threads)
BY RemoveProperties

(* The objects start out well typed.                                       *)
LEMMA InitType == Init => TypeOK
<1> SUFFICES ASSUME Init PROVE TypeOK
  OBVIOUS
<1>1. <<>> \in Seq(Threads) BY EmptyQueue
<1>2. 0 \in Objs BY ConstantsAssumption DEF Objs
<1> QED BY <1>1, <1>2 DEF Init, TypeOK, PCs

(* Every call and every tick preserves the types.                          *)
LEMMA StepType == TypeOK /\ [Next]_vars => TypeOK'
<1> SUFFICES ASSUME TypeOK, [Next]_vars PROVE TypeOK'
  OBVIOUS
<1>0. 0 \in Nat /\ \A x \in Timeouts : x \in Nat
  BY ConstantsAssumption
<1>1. ASSUME NEW o \in Objs, NEW a \in Attrs, Create(o, a) PROVE TypeOK'
  <2>1. a \in AttrType BY ConstantsAssumption
  <2>2. attr' \in [Objs -> AttrType \union {NoAttr}]
    BY <1>1, <2>1 DEF Create, TypeOK, AttrType, Disciplines
  <2>3. value' \in [Objs -> Nat]
    BY <1>1, <2>1 DEF Create, TypeOK, AttrType
  <2>4. <<>> \in Seq(Threads) BY EmptyQueue
  <2> QED BY <1>1, <2>2, <2>3, <2>4 DEF Create, TypeOK, threadVars
<1>2. CASE StartNormal
  BY <1>2 DEF StartNormal, TypeOK, objVars, threadVars
<1>3. ASSUME NEW t \in Threads, NEW o \in Objs, NEW timeout \in Timeouts,
             Lock(t, o, timeout)
      PROVE  TypeOK'
  <2>1. "lock" \in PCs BY DEF PCs
  <2>2. /\ value' \in [Objs -> Nat]
        /\ fifo' \in [Objs -> Seq(Threads)]
        /\ state' \in [Threads -> Blocked \union {"RUNNABLE"}]
        /\ wakeup' \in [Threads -> Nat]
        /\ timed' \in [Threads -> BOOLEAN]
        /\ pc' \in [Threads -> PCs]
        /\ hold' \in [Objs -> SUBSET Threads]
    BY <1>3, <1>0, <2>1, TakeOrBlockType DEF Lock
  <2> QED BY <1>3, <2>2 DEF Lock, TypeOK
<1>4. ASSUME NEW t \in Threads, LockReturn(t) PROVE TypeOK'
  <2>1. on[t] \in Objs /\ RemoveThread(fifo[on[t]], t) \in Seq(Threads)
    BY RemoveType DEF TypeOK
  <2>2. CASE DeadlinePassed(t)
    BY <1>4, <2>1, <2>2 DEF LockReturn, TypeOK, PCs
  <2>3. CASE ~ DeadlinePassed(t)
    <3>1. hold[on[t]] \union {t} \in SUBSET Threads BY <2>1 DEF TypeOK
    <3>2. /\ hold' = [hold EXCEPT ![on[t]] = @ \union {t}]
          /\ pc' = [pc EXCEPT ![t] = "user"]
          /\ UNCHANGED <<mode, attr, value, fifo, event_fifo, eventspin,
                         state, wakeup, timed, on, ret>>
      BY <1>4, <2>3 DEF LockReturn
    <3> QED BY <2>1, <3>1, <3>2 DEF TypeOK, PCs
  <2> QED BY <2>2, <2>3
<1>5. ASSUME NEW t \in Threads, NEW o \in Objs, Unlock(t, o) PROVE TypeOK'
  BY <1>5, ReleaseType DEF Unlock, TypeOK
<1>6. ASSUME NEW t \in Threads, NEW o \in Objs, EventWait(t, o)
      PROVE  TypeOK'
  <2>1. /\ value' \in [Objs -> Nat]
        /\ fifo' \in [Objs -> Seq(Threads)]
        /\ state' \in [Threads -> Blocked \union {"RUNNABLE"}]
    BY <1>6, ReleaseType DEF EventWait
  <2> QED BY <1>6, <2>1 DEF EventWait, TypeOK, PCs, InKernel
<1>7. ASSUME NEW t \in Threads, NEW timeout \in Timeouts,
             EventEnqueue(t, timeout)
      PROVE  TypeOK'
  <2>1. on[t] \in Objs
        /\ Enqueue(event_fifo[on[t]], t, "PRIORITY", Prio) \in Seq(Threads)
    BY EnqueueThread DEF TypeOK
  <2> QED BY <1>7, <1>0, <2>1
      DEF EventEnqueue, Block, TypeOK, PCs, Blocked
<1>8. ASSUME NEW t \in Threads, EventReturn(t) PROVE TypeOK'
  <2>1. on[t] \in Objs /\ RemoveThread(event_fifo[on[t]], t) \in Seq(Threads)
    BY RemoveType DEF TypeOK
  <2> QED BY <1>8, <2>1 DEF EventReturn, TypeOK, PCs, InKernel
<1>9. ASSUME NEW t \in Threads, EventLock(t) PROVE TypeOK'
  <2>1. "relock" \in PCs /\ on[t] \in Objs BY DEF PCs, TypeOK
  <2>2. /\ value' \in [Objs -> Nat]
        /\ fifo' \in [Objs -> Seq(Threads)]
        /\ state' \in [Threads -> Blocked \union {"RUNNABLE"}]
        /\ wakeup' \in [Threads -> Nat]
        /\ timed' \in [Threads -> BOOLEAN]
        /\ pc' \in [Threads -> PCs]
        /\ hold' \in [Objs -> SUBSET Threads]
    BY <1>9, <1>0, <2>1, TakeOrBlockType DEF EventLock
  <2> QED BY <1>9, <2>2 DEF EventLock, TypeOK
<1>10. ASSUME NEW t \in Threads, EventLockReturn(t) PROVE TypeOK'
  BY <1>10 DEF EventLockReturn, TypeOK, PCs, objVars
<1>11. ASSUME NEW t \in Threads, NEW o \in Objs, Signal(t, o) PROVE TypeOK'
  <2>1. event_fifo[o] \in Seq(Threads) BY DEF TypeOK
  <2>2. event_fifo[o] # <<>> =>
          Tail(event_fifo[o]) \in Seq(Threads)
          /\ Head(event_fifo[o]) \in Threads
    BY <2>1, DequeueProperties
  <2> QED BY <1>11, <2>2 DEF Signal, TypeOK
<1>12. ASSUME NEW t \in Threads, NEW o \in Objs, Broadcast(t, o)
       PROVE  TypeOK'
  <2>1. <<>> \in Seq(Threads) BY EmptyQueue
  <2> QED BY <1>12, <2>1 DEF Broadcast, TypeOK
<1>13. CASE Tick
  BY <1>13 DEF Tick, TypeOK, objVars
<1>14. ASSUME NEW p \in Procs, WakeExpired(p) PROVE TypeOK'
  BY <1>14 DEF WakeExpired, TypeOK, objVars
<1>15. CASE UNCHANGED vars
  BY <1>15 DEF vars, objVars, threadVars, TypeOK
<1> QED
  BY <1>1, <1>2, <1>3, <1>4, <1>5, <1>6, <1>7, <1>8, <1>9, <1>10, <1>11,
     <1>12, <1>13, <1>14, <1>15 DEF Next, ThreadStep

(* Every variable keeps its type: current_value never falls below 0, and   *)
(* the queues hold threads only.                                           *)
THEOREM TypeCorrect == Spec => []TypeOK
BY InitType, StepType, PTL DEF Spec
-----------------------------------------------------------------------------
(* The inductive invariant.  MutualExclusion needs QueuedIsWaiting, for a  *)
(* thread that lock() lets go must be out of the queue to be an owner, and *)
(* that one needs CallsMatchStates.                                        *)
IInv ==
  /\ TypeOK
  /\ CallsMatchStates
  /\ NoIdleResource
  /\ QueuedIsWaiting
  /\ BlockedIsQueued
  /\ MutualExclusion

LockQueueOK(o) ==
  /\ Distinct(fifo[o])
  /\ \A t \in ToSet(fifo[o]) :
       /\ on[t] = o /\ pc[t] \in {"lock", "relock"}
       /\ state[t] \in Blocked \/ DeadlinePassed(t)

EventQueueOK(o) ==
  /\ Distinct(event_fifo[o])
  /\ \A t \in ToSet(event_fifo[o]) :
       /\ on[t] = o /\ pc[t] = "ev_wait"
       /\ state[t] \in Blocked \/ DeadlinePassed(t)

(* The two queues of every object are sequences of threads.                *)
LEMMA QueuesOK ==
  QueuedIsWaiting <=> \A o \in Objs : LockQueueOK(o) /\ EventQueueOK(o)
BY DEF QueuedIsWaiting, LockQueueOK, EventQueueOK

(* Queues hold threads; a thread outside its call is in none of them.      *)
LEMMA QueueMembers ==
  ASSUME IInv
  PROVE  \A o \in Objs : /\ ToSet(fifo[o]) \subseteq Threads
                         /\ ToSet(event_fifo[o]) \subseteq Threads
<1> SUFFICES ASSUME NEW o \in Objs
             PROVE  /\ ToSet(fifo[o]) \subseteq Threads
                    /\ ToSet(event_fifo[o]) \subseteq Threads
  OBVIOUS
<1>1. fifo[o] \in Seq(Threads) /\ event_fifo[o] \in Seq(Threads)
  BY DEF IInv, TypeOK
<1> QED BY <1>1, Members

(* The two outcomes of the first section of lock, with the queue described *)
(* by its members.                                                         *)
LEMMA TakeOrBlockCases ==
  ASSUME TypeOK, NEW t \in Threads, NEW o \in Objs, NEW timeout \in Nat,
         NEW c \in PCs, TakeOrBlock(t, o, timeout, c)
  PROVE  \/ /\ value[o] > 0
            /\ value' = [value EXCEPT ![o] = value[o] - 1]
            /\ hold' = [hold EXCEPT ![o] = hold[o] \union {t}]
            /\ pc' = [pc EXCEPT ![t] = "user"]
            /\ UNCHANGED <<fifo, state, wakeup, timed>>
         \/ /\ value[o] = 0
            /\ \A p \in Objs \ {o} : fifo'[p] = fifo[p]
            /\ ToSet(fifo'[o]) = ToSet(fifo[o]) \union {t}
            /\ Distinct(fifo[o]) /\ t \notin ToSet(fifo[o])
                 => Distinct(fifo'[o])
            /\ Block(t, timeout)
            /\ pc' = [pc EXCEPT ![t] = c]
            /\ UNCHANGED <<value, hold>>
<1>0. value[o] \in Nat BY DEF TypeOK
<1>1. CASE value[o] > 0
  BY <1>1 DEF TakeOrBlock
<1>2. CASE value[o] = 0
  <2> DEFINE q == Enqueue(fifo[o], t, attr[o].queueing_policy, Prio)
  <2>1. fifo[o] \in Seq(Threads) BY DEF TypeOK
  <2>2. /\ ToSet(q) = ToSet(fifo[o]) \union {t}
        /\ Distinct(fifo[o]) /\ t \notin ToSet(fifo[o]) => Distinct(q)
    BY <2>1, EnqueueThread
  <2>3. /\ fifo' = [fifo EXCEPT ![o] = q]
        /\ Block(t, timeout)
        /\ pc' = [pc EXCEPT ![t] = c]
        /\ UNCHANGED <<value, hold>>
    BY <1>2 DEF TakeOrBlock
  <2> HIDE DEF q
  <2>4. fifo'[o] = q /\ \A p \in Objs \ {o} : fifo'[p] = fifo[p]
    BY <2>3 DEF TypeOK
  <2> QED BY <1>2, <2>2, <2>3, <2>4
<1> QED BY <1>0, <1>1, <1>2

(* The second section of lock, and that of eventwait: either the thread is *)
(* late and leaves its queue, or it was not in it any more.                *)
LEMMA LeaveQueue ==
  ASSUME NEW q \in Seq(Threads), NEW t, Distinct(q)
  PROVE  /\ ToSet(RemoveThread(q, t)) = ToSet(q) \ {t}
         /\ Distinct(RemoveThread(q, t))
BY RemoveProperties
-----------------------------------------------------------------------------
(* lock queues a thread only when no unit is available.                    *)
LEMMA TakeOrBlockIdle ==
  ASSUME IInv, NEW t \in Threads, NEW o \in Objs, NEW timeout \in Nat,
         NEW c \in PCs, TakeOrBlock(t, o, timeout, c)
  PROVE  NoIdleResource'
<1> SUFFICES ASSUME NEW p \in Objs, value'[p] > 0 PROVE fifo'[p] = <<>>
  BY DEF NoIdleResource
<1>0. /\ TypeOK /\ \A x \in Objs : value[x] > 0 => fifo[x] = <<>>
      /\ \A x \in Objs : value[x] \in Nat
  BY DEF IInv, NoIdleResource, TypeOK
<1>1. \/ value' = [value EXCEPT ![o] = value[o] - 1]
          /\ value[o] > 0 /\ fifo' = fifo
      \/ value' = value /\ value[o] = 0
          /\ \A x \in Objs \ {o} : fifo'[x] = fifo[x]
  BY <1>0, TakeOrBlockCases
<1>2. CASE p = o
  <2>1. value[o] > 0 /\ fifo' = fifo BY <1>0, <1>1, <1>2
  <2> QED BY <1>0, <1>2, <2>1
<1>3. CASE p # o
  <2>1. value'[p] = value[p] /\ fifo'[p] = fifo[p]
    BY <1>1, <1>3 DEF IInv, TypeOK
  <2> QED BY <1>0, <2>1
<1> QED BY <1>2, <1>3

(* unlock makes a unit available only when nobody queues for it.           *)
LEMMA ReleaseIdle ==
  ASSUME IInv, NEW o \in Objs, Release(o)
  PROVE  NoIdleResource'
<1> SUFFICES ASSUME NEW p \in Objs, value'[p] > 0 PROVE fifo'[p] = <<>>
  BY DEF NoIdleResource
<1>0. /\ TypeOK /\ \A x \in Objs : value[x] > 0 => fifo[x] = <<>>
  BY DEF IInv, NoIdleResource
<1>1. \/ /\ value[o] > 0 \/ fifo[o] = <<>>
         /\ value' = [value EXCEPT ![o] = value'[o]] /\ fifo' = fifo
      \/ /\ value[o] = 0 /\ value' = value
         /\ fifo' = [fifo EXCEPT ![o] = Tail(fifo[o])]
  BY <1>0, ReleaseCases
<1>2. CASE p = o
  <2>1. fifo[o] = <<>> /\ fifo' = fifo BY <1>0, <1>1, <1>2
  <2> QED BY <1>2, <2>1
<1>3. CASE p # o
  <2>1. value'[p] = value[p] /\ fifo'[p] = fifo[p]
    BY <1>1, <1>3 DEF IInv, TypeOK
  <2> QED BY <1>0, <2>1
<1> QED BY <1>2, <1>3

(* No step leaves a unit available while a thread queues for it.           *)
LEMMA StepIdle == IInv /\ [Next]_vars => NoIdleResource'
<1> SUFFICES ASSUME IInv, [Next]_vars PROVE NoIdleResource'
  OBVIOUS
<1>0. /\ TypeOK
      /\ \A o \in Objs : value[o] > 0 => fifo[o] = <<>>
      /\ 0 \in Nat /\ \A x \in Timeouts : x \in Nat
  BY ConstantsAssumption DEF IInv, NoIdleResource
<1>1. ASSUME NEW o \in Objs, NEW a \in Attrs, Create(o, a)
      PROVE  NoIdleResource'
  BY <1>0, <1>1 DEF Create, NoIdleResource, TypeOK
<1>2. ASSUME NEW t \in Threads, NEW o \in Objs, NEW timeout \in Timeouts,
             Lock(t, o, timeout)
      PROVE  NoIdleResource'
  <2>1. "lock" \in PCs BY DEF PCs
  <2> QED BY <1>0, <1>2, <2>1, TakeOrBlockIdle DEF Lock
<1>3. ASSUME NEW t \in Threads, LockReturn(t) PROVE NoIdleResource'
  <2>1. RemoveThread(<<>>, t) = <<>> BY EmptyQueue
  <2>2. value' = value
        /\ (fifo' = fifo
            \/ fifo' = [fifo EXCEPT ![on[t]] = RemoveThread(fifo[on[t]], t)])
    BY <1>3 DEF LockReturn
  <2>3. ASSUME NEW o \in Objs, value'[o] > 0 PROVE fifo'[o] = <<>>
    <3>1. fifo[o] = <<>> BY <1>0, <2>2, <2>3
    <3> QED BY <1>0, <2>1, <2>2, <3>1 DEF TypeOK
  <2> QED BY <2>3 DEF NoIdleResource
<1>4. ASSUME NEW t \in Threads, NEW o \in Objs, Release(o)
      PROVE  NoIdleResource'
  BY <1>4, ReleaseIdle
<1>5. ASSUME NEW t \in Threads, EventLock(t) PROVE NoIdleResource'
  <2>1. "relock" \in PCs /\ on[t] \in Objs BY <1>0 DEF PCs, TypeOK
  <2> QED BY <1>0, <1>5, <2>1, TakeOrBlockIdle DEF EventLock
<1>6. CASE UNCHANGED <<value, fifo>>
  BY <1>0, <1>6 DEF NoIdleResource
<1>7. CASE StartNormal \/ Tick \/ UNCHANGED vars
           \/ \E p \in Procs : WakeExpired(p)
  BY <1>6, <1>7 DEF StartNormal, Tick, WakeExpired, vars, objVars
<1>8. ASSUME NEW t \in Threads, ThreadStep(t) PROVE NoIdleResource'
  BY <1>2, <1>3, <1>4, <1>5, <1>6, <1>8
  DEF ThreadStep, Unlock, EventWait, EventEnqueue, EventReturn,
      EventLockReturn, Signal, Broadcast, objVars
<1> QED BY <1>1, <1>7, <1>8 DEF Next
-----------------------------------------------------------------------------
ThreadMatches(t) ==
  /\ pc[t] \in InKernel \union {"user"} => state[t] = "RUNNABLE"
  /\ state[t] = "WAITING" => timed[t]
  /\ pc[t] = "relock" => ~ timed[t]
  /\ mode = "INIT" => pc[t] = "user"

ObjMatches(o) ==
  /\ attr[o] = NoAttr \/ Kind(o) # "SEMAPHORE" => value[o] <= 1
  /\ mode = "INIT" => fifo[o] = <<>> /\ event_fifo[o] = <<>> /\ hold[o] = {}

(* The invariant CallsMatchStates, for one thread.                         *)
LEMMA AllMatch ==
  CallsMatchStates <=> /\ \A t \in Threads : ThreadMatches(t)
                       /\ \A o \in Objs : ObjMatches(o)
BY DEF CallsMatchStates, ThreadMatches, ObjMatches

(* lock leaves its caller runnable with the object, or blocked in the call.*)
LEMMA TakeOrBlockMatches ==
  ASSUME IInv, NEW t \in Threads, NEW o \in Objs, NEW timeout \in Nat,
         NEW c \in {"lock", "relock"}, c = "relock" => timeout = 0,
         TakeOrBlock(t, o, timeout, c),
         mode = "NORMAL", state[t] = "RUNNABLE", pc[t] \in {"user", "ev_relock"},
         UNCHANGED <<mode, attr>>
  PROVE  CallsMatchStates'
<1>0. /\ TypeOK /\ c \in PCs
      /\ \A u \in Threads : ThreadMatches(u)
      /\ \A p \in Objs : ObjMatches(p)
  BY AllMatch DEF IInv, PCs
<1>1. ASSUME NEW u \in Threads PROVE ThreadMatches(u)'
  <2>1. ThreadMatches(u) BY <1>0
  <2>2. CASE pc' = [pc EXCEPT ![t] = "user"] /\ UNCHANGED <<state, timed>>
    <3>1. CASE u = t
      <4>1. pc'[u] = "user" /\ state'[u] = "RUNNABLE"
        BY <1>0, <2>2, <3>1 DEF TypeOK
      <4> QED BY <4>1 DEF ThreadMatches
    <3>2. CASE u # t
      <4>1. pc'[u] = pc[u] BY <1>0, <2>2, <3>2 DEF TypeOK
      <4> QED BY <2>1, <2>2, <4>1 DEF ThreadMatches
    <3> QED BY <3>1, <3>2
  <2>3. CASE Block(t, timeout) /\ pc' = [pc EXCEPT ![t] = c]
    <3>1. CASE u = t
      <4>1. pc'[u] = c BY <1>0, <2>3, <3>1 DEF TypeOK
      <4>2. state'[u] = IF timeout > 0 THEN "WAITING" ELSE "LOCK"
        BY <1>0, <2>3, <3>1 DEF TypeOK, Block
      <4>3. timed'[u] <=> timeout > 0
        BY <1>0, <2>3, <3>1 DEF TypeOK, Block
      <4>4. c \notin InKernel \union {"user"} BY DEF InKernel
      <4>5. state'[u] = "WAITING" => timed'[u] BY <4>2, <4>3
      <4>6. c = "relock" => ~ timed'[u] BY <4>3
      <4> QED BY <4>1, <4>4, <4>5, <4>6 DEF ThreadMatches
    <3>2. CASE u # t
      <4>1. pc'[u] = pc[u] /\ state'[u] = state[u] /\ timed'[u] = timed[u]
        BY <1>0, <2>3, <3>2 DEF TypeOK, Block
      <4> QED BY <2>1, <4>1 DEF ThreadMatches
    <3> QED BY <3>1, <3>2
  <2> QED BY <1>0, <2>2, <2>3, TakeOrBlockCases
<1>2. ASSUME NEW p \in Objs PROVE ObjMatches(p)'
  <2>1. ObjMatches(p) /\ value[p] \in Nat BY <1>0 DEF TypeOK
  <2>2. \/ value' = [value EXCEPT ![o] = value[o] - 1] /\ value[o] > 0
        \/ value' = value
    BY <1>0, TakeOrBlockCases
  <2>3. value'[p] <= value[p] /\ value'[p] \in Int
    <3>1. CASE p = o BY <2>1, <2>2, <3>1, <1>0 DEF TypeOK
    <3>2. CASE p # o BY <2>1, <2>2, <3>2, <1>0 DEF TypeOK
    <3> QED BY <3>1, <3>2
  <2> QED BY <2>1, <2>3 DEF ObjMatches, Kind
<1> QED BY <1>1, <1>2, AllMatch DEF CallsMatchStates, ThreadMatches, ObjMatches

(* Other steps wake threads, or move one that runs.                        *)
LEMMA ThreadStillMatches ==
  ASSUME NEW t \in Threads, ThreadMatches(t), mode' = mode,
         timed'[t] = timed[t], state'[t] \in {state[t], "RUNNABLE"},
         \/ pc'[t] = pc[t]
         \/ mode = "NORMAL" /\ state'[t] = "RUNNABLE" /\ pc'[t] # "relock"
  PROVE  ThreadMatches(t)'
BY DEF ThreadMatches

(* An object that a step does not touch still matches its kind.            *)
LEMMA ObjStillMatches ==
  ASSUME NEW o \in Objs, ObjMatches(o), mode = "NORMAL", mode' = mode,
         attr' = attr,
         value'[o] = value[o] \/ (Kind(o) # "SEMAPHORE" => value'[o] = 1),
         value'[o] = value[o] \/ attr[o] # NoAttr
  PROVE  ObjMatches(o)'
BY DEF ObjMatches, Kind

(* unlock wakes the thread it serves and no other.                         *)
LEMMA ReleaseMatches ==
  ASSUME IInv, NEW o \in Objs, Release(o), attr[o] # NoAttr,
         mode = "NORMAL", mode' = mode, attr' = attr
  PROVE  /\ \A p \in Objs : ObjMatches(p)'
         /\ \A t \in Threads : state'[t] \in {state[t], "RUNNABLE"}
<1>0. TypeOK /\ \A p \in Objs : ObjMatches(p) BY AllMatch DEF IInv
<1>1. \/ /\ value' = [value EXCEPT ![o] = value'[o]]
         /\ Kind(o) # "SEMAPHORE" => value'[o] = 1
         /\ state' = state
      \/ /\ state' = [state EXCEPT ![Head(fifo[o])] = "RUNNABLE"]
         /\ value' = value
  BY <1>0, ReleaseCases
<1>2. ASSUME NEW p \in Objs PROVE ObjMatches(p)'
  <2>1. CASE p = o BY <1>0, <1>1, <2>1, ObjStillMatches
  <2>2. CASE p # o
    <3>1. value'[p] = value[p] BY <1>0, <1>1, <2>2 DEF TypeOK
    <3> QED BY <1>0, <3>1, ObjStillMatches
  <2> QED BY <2>1, <2>2
<1>3. ASSUME NEW t \in Threads PROVE state'[t] \in {state[t], "RUNNABLE"}
  BY <1>0, <1>1 DEF TypeOK
<1> QED BY <1>2, <1>3

(* Every step keeps calls and states of threads consistent.                *)
LEMMA StepMatches == IInv /\ [Next]_vars => CallsMatchStates'
<1> SUFFICES ASSUME IInv, [Next]_vars PROVE CallsMatchStates'
  OBVIOUS
<1>0. /\ TypeOK
      /\ \A t \in Threads : ThreadMatches(t)
      /\ \A o \in Objs : ObjMatches(o)
      /\ 0 \in Nat /\ \A x \in Timeouts : x \in Nat
  BY AllMatch, ConstantsAssumption DEF IInv
<1>a. (\A t \in Threads : ThreadMatches(t)') /\ (\A o \in Objs : ObjMatches(o)')
        => CallsMatchStates'
  BY DEF CallsMatchStates, ThreadMatches, ObjMatches
<1>b. ASSUME UNCHANGED <<mode, attr, value, hold>>,
             mode = "NORMAL" \/ UNCHANGED <<fifo, event_fifo>>
      PROVE  \A o \in Objs : ObjMatches(o)'
  BY <1>0, <1>b DEF ObjMatches, Kind
<1>1. ASSUME NEW o \in Objs, NEW a \in Attrs, Create(o, a)
      PROVE  CallsMatchStates'
  <2>1. \A t \in Threads : ThreadMatches(t)'
    BY <1>0, <1>1 DEF Create, threadVars, ThreadMatches
  <2>2. ASSUME NEW p \in Objs PROVE ObjMatches(p)'
    <3>1. CASE p # o
      <4>1. /\ attr'[p] = attr[p] /\ value'[p] = value[p]
            /\ fifo'[p] = fifo[p] /\ event_fifo'[p] = event_fifo[p]
            /\ UNCHANGED <<mode, hold>>
        BY <1>0, <1>1, <3>1 DEF Create, TypeOK
      <4> QED BY <1>0, <4>1 DEF ObjMatches, Kind
    <3>2. CASE p = o
      <4>1. /\ fifo'[p] = <<>> /\ event_fifo'[p] = <<>>
            /\ UNCHANGED <<mode, hold>>
        BY <1>0, <1>1, <3>2 DEF Create, TypeOK
      <4>2. attr'[p] # NoAttr /\ attr'[p].kind = a.kind
        <5>1. a \in AttrType BY ConstantsAssumption
        <5> QED BY <1>0, <1>1, <3>2, <5>1
            DEF Create, TypeOK, AttrType, NoAttr, Kinds, Disciplines
      <4>3. a.kind # "SEMAPHORE" => value'[p] = 1
        BY <1>0, <1>1, <3>2 DEF Create, TypeOK
      <4> QED BY <1>0, <4>1, <4>2, <4>3 DEF ObjMatches, Kind
    <3> QED BY <3>1, <3>2
  <2> QED BY <1>a, <2>1, <2>2
<1>2. CASE StartNormal
  BY <1>0, <1>2, <1>a
  DEF StartNormal, objVars, threadVars, ThreadMatches, ObjMatches, Kind
<1>3. ASSUME NEW t \in Threads, NEW o \in Objs, NEW timeout \in Timeouts,
             Lock(t, o, timeout)
      PROVE  CallsMatchStates'
  BY <1>0, <1>3, TakeOrBlockMatches DEF Lock, Call, CanRun
<1>4. ASSUME NEW t \in Threads, LockReturn(t) PROVE CallsMatchStates'
  <2>1. ASSUME NEW u \in Threads PROVE ThreadMatches(u)'
    <3>1. \/ pc'[u] = pc[u]
          \/ pc'[u] = "user" /\ state'[u] = "RUNNABLE"
      BY <1>0, <1>4 DEF LockReturn, CanRun, TypeOK
    <3> QED BY <1>0, <1>4, <3>1, ThreadStillMatches DEF LockReturn, CanRun
  <2>2. ASSUME NEW o \in Objs PROVE ObjMatches(o)'
    BY <1>0, <1>4, ObjStillMatches DEF LockReturn, CanRun
  <2> QED BY <1>a, <2>1, <2>2
<1>5. ASSUME NEW t \in Threads, NEW o \in Objs, Unlock(t, o)
      PROVE  CallsMatchStates'
  <2>1. /\ \A p \in Objs : ObjMatches(p)'
        /\ \A u \in Threads : state'[u] \in {state[u], "RUNNABLE"}
    BY <1>5, ReleaseMatches DEF Unlock, Call, CanRun
  <2>2. ASSUME NEW u \in Threads PROVE ThreadMatches(u)'
    BY <1>0, <1>5, <2>1, ThreadStillMatches DEF Unlock
  <2> QED BY <1>a, <2>1, <2>2
<1>6. ASSUME NEW t \in Threads, NEW o \in Objs, EventWait(t, o)
      PROVE  CallsMatchStates'
  <2>1. /\ \A p \in Objs : ObjMatches(p)'
        /\ \A u \in Threads : state'[u] \in {state[u], "RUNNABLE"}
    BY <1>6, ReleaseMatches DEF EventWait, Call, CanRun
  <2>2. ASSUME NEW u \in Threads PROVE ThreadMatches(u)'
    <3>1. CASE u = t
      <4>1. state[u] = "RUNNABLE" /\ pc'[u] = "ev_enqueue"
        BY <1>0, <1>6, <3>1 DEF EventWait, Call, CanRun, TypeOK
      <4> QED BY <1>0, <1>6, <2>1, <4>1, ThreadStillMatches
          DEF EventWait, Call, CanRun
    <3>2. CASE u # t
      <4>1. pc'[u] = pc[u] BY <1>0, <1>6, <3>2 DEF EventWait, TypeOK
      <4> QED BY <1>0, <1>6, <2>1, <4>1, ThreadStillMatches DEF EventWait
    <3> QED BY <3>1, <3>2
  <2> QED BY <1>a, <2>1, <2>2
<1>7. ASSUME NEW t \in Threads, NEW timeout \in Timeouts,
             EventEnqueue(t, timeout)
      PROVE  CallsMatchStates'
  <2>0. pc[t] = "ev_enqueue" /\ mode = "NORMAL" /\ UNCHANGED <<mode, attr, value>>
    BY <1>0, <1>7 DEF EventEnqueue, ThreadMatches, TypeOK
  <2>1. ASSUME NEW u \in Threads PROVE ThreadMatches(u)'
    <3>1. CASE u = t
      <4>1. pc'[u] = "ev_wait" BY <1>0, <1>7, <3>1 DEF EventEnqueue, TypeOK
      <4>2. state'[u] = IF timeout > 0 THEN "WAITING" ELSE "LOCK"
        BY <1>0, <1>7, <3>1 DEF EventEnqueue, Block, TypeOK
      <4>3. timed'[u] <=> timeout > 0
        BY <1>0, <1>7, <3>1 DEF EventEnqueue, Block, TypeOK
      <4>4. state'[u] = "WAITING" => timed'[u] BY <4>2, <4>3
      <4> QED BY <2>0, <4>1, <4>4 DEF ThreadMatches, InKernel
    <3>2. CASE u # t
      <4>1. pc'[u] = pc[u] /\ state'[u] = state[u] /\ timed'[u] = timed[u]
        BY <1>0, <1>7, <3>2 DEF EventEnqueue, Block, TypeOK
      <4> QED BY <1>0, <2>0, <4>1 DEF ThreadMatches
    <3> QED BY <3>1, <3>2
  <2>2. ASSUME NEW p \in Objs PROVE ObjMatches(p)'
    BY <1>0, <2>0, ObjStillMatches
  <2> QED BY <1>a, <2>1, <2>2
<1>8. ASSUME NEW t \in Threads, EventReturn(t) PROVE CallsMatchStates'
  <2>1. ASSUME NEW u \in Threads PROVE ThreadMatches(u)'
    <3>1. \/ pc'[u] = pc[u]
          \/ pc'[u] = "ev_relock" /\ state'[u] = "RUNNABLE"
      BY <1>0, <1>8 DEF EventReturn, CanRun, TypeOK
    <3> QED BY <1>0, <1>8, <3>1, ThreadStillMatches DEF EventReturn, CanRun
  <2>2. ASSUME NEW o \in Objs PROVE ObjMatches(o)'
    BY <1>0, <1>8, ObjStillMatches DEF EventReturn, CanRun
  <2> QED BY <1>a, <2>1, <2>2
<1>9. ASSUME NEW t \in Threads, EventLock(t) PROVE CallsMatchStates'
  <2>1. on[t] \in Objs BY <1>0 DEF TypeOK
  <2> QED BY <1>0, <1>9, <2>1, TakeOrBlockMatches DEF EventLock, CanRun
<1>10. ASSUME NEW t \in Threads, EventLockReturn(t) PROVE CallsMatchStates'
  <2>1. ASSUME NEW u \in Threads PROVE ThreadMatches(u)'
    <3>1. \/ pc'[u] = pc[u]
          \/ pc'[u] = "user" /\ state'[u] = "RUNNABLE"
      BY <1>0, <1>10 DEF EventLockReturn, CanRun, TypeOK
    <3> QED BY <1>0, <1>10, <3>1, ThreadStillMatches
        DEF EventLockReturn, CanRun
  <2>2. ASSUME NEW o \in Objs PROVE ObjMatches(o)'
    BY <1>0, <1>10, ObjStillMatches DEF EventLockReturn, CanRun, objVars
  <2> QED BY <1>a, <2>1, <2>2
<1>11. ASSUME NEW t \in Threads, NEW o \in Objs,
              Signal(t, o) \/ Broadcast(t, o)
       PROVE  CallsMatchStates'
  <2>0. mode = "NORMAL" /\ UNCHANGED <<mode, attr, value, timed, pc>>
    BY <1>11 DEF Signal, Broadcast, Call, CanRun
  <2>1. ASSUME NEW u \in Threads PROVE ThreadMatches(u)'
    <3>1. state'[u] \in {state[u], "RUNNABLE"}
      <4>1. CASE Signal(t, o)
        BY <1>0, <4>1 DEF Signal, TypeOK
      <4>2. CASE Broadcast(t, o)
        BY <1>0, <4>2 DEF Broadcast, TypeOK
      <4> QED BY <1>11, <4>1, <4>2
    <3> QED BY <1>0, <2>0, <3>1, ThreadStillMatches
  <2>2. ASSUME NEW p \in Objs PROVE ObjMatches(p)'
    BY <1>0, <2>0, ObjStillMatches
  <2> QED BY <1>a, <2>1, <2>2
<1>12. ASSUME Tick \/ \E p \in Procs : WakeExpired(p)
       PROVE  CallsMatchStates'
  <2>0. UNCHANGED <<mode, objVars, timed, pc, hold>>
    BY <1>12 DEF Tick, WakeExpired
  <2>1. ASSUME NEW u \in Threads PROVE ThreadMatches(u)'
    <3>1. state'[u] \in {state[u], "RUNNABLE"}
      BY <1>0, <1>12 DEF Tick, WakeExpired, TypeOK
    <3> QED BY <1>0, <2>0, <3>1, ThreadStillMatches
  <2> QED BY <1>a, <1>b, <2>0, <2>1 DEF objVars
<1>13. CASE UNCHANGED vars
  BY <1>0, <1>13, <1>a
  DEF vars, objVars, threadVars, ThreadMatches, ObjMatches, Kind
<1> QED
  BY <1>1, <1>2, <1>3, <1>4, <1>5, <1>6, <1>7, <1>8, <1>9, <1>10, <1>11,
     <1>12, <1>13 DEF Next, ThreadStep
-----------------------------------------------------------------------------
(* t waits, or has not noticed yet that its deadline has passed.           *)
Waits(t) == state[t] \in Blocked \/ DeadlinePassed(t)

(* A lock queue that only loses threads still holds waiters only.          *)
LEMMA LockQueueKept ==
  ASSUME NEW o \in Objs, LockQueueOK(o), Distinct(fifo'[o]),
         \A u \in ToSet(fifo'[o]) :
           /\ u \in ToSet(fifo[o])
           /\ on'[u] = on[u] /\ pc'[u] = pc[u]
           /\ Waits(u) => Waits(u)'
  PROVE  LockQueueOK(o)'
BY DEF LockQueueOK, Waits

(* ... and so does an event queue.                                         *)
LEMMA EventQueueKept ==
  ASSUME NEW o \in Objs, EventQueueOK(o), Distinct(event_fifo'[o]),
         \A u \in ToSet(event_fifo'[o]) :
           /\ u \in ToSet(event_fifo[o])
           /\ on'[u] = on[u] /\ pc'[u] = pc[u]
           /\ Waits(u) => Waits(u)'
  PROVE  EventQueueOK(o)'
BY DEF EventQueueOK, Waits

(* A waiting thread whose state and deadline do not change still waits.    *)
LEMMA SameWaits ==
  ASSUME NEW t, state'[t] = state[t], wakeup'[t] = wakeup[t],
         timed'[t] = timed[t]
  PROVE  Waits(t) => Waits(t)'
BY DEF Waits, DeadlinePassed

(* A queued thread is inside the call that queued it, for that object.     *)
LEMMA NotQueued ==
  ASSUME IInv, NEW t \in Threads
  PROVE  \A o \in Objs :
           /\ t \in ToSet(fifo[o]) =>
                on[t] = o /\ pc[t] \in {"lock", "relock"} /\ Waits(t)
           /\ t \in ToSet(event_fifo[o]) =>
                on[t] = o /\ pc[t] = "ev_wait" /\ Waits(t)
BY DEF IInv, QueuedIsWaiting, Waits

(* lock queues its caller once, and only inside the call.                  *)
LEMMA TakeOrBlockQueued ==
  ASSUME IInv, NEW t \in Threads, NEW o \in Objs, NEW timeout \in Nat,
         NEW c \in {"lock", "relock"}, TakeOrBlock(t, o, timeout, c),
         pc[t] \in {"user", "ev_relock"}, UNCHANGED event_fifo,
         on'[t] = o, \A u \in Threads \ {t} : on'[u] = on[u]
  PROVE  QueuedIsWaiting'
<1>0. /\ TypeOK /\ c \in PCs
      /\ \A p \in Objs : LockQueueOK(p) /\ EventQueueOK(p)
      /\ \A p \in Objs : /\ ToSet(fifo[p]) \subseteq Threads
                         /\ ToSet(event_fifo[p]) \subseteq Threads
      /\ \A p \in Objs : t \notin ToSet(fifo[p]) /\ t \notin ToSet(event_fifo[p])
  BY QueuesOK, QueueMembers, NotQueued DEF IInv, PCs
<1>1. ASSUME NEW u \in Threads, u # t
      PROVE  /\ on'[u] = on[u] /\ pc'[u] = pc[u]
             /\ Waits(u) => Waits(u)'
  <2>1. /\ pc'[u] = pc[u] /\ state'[u] = state[u]
        /\ wakeup'[u] = wakeup[u] /\ timed'[u] = timed[u]
    <3>1. CASE /\ pc' = [pc EXCEPT ![t] = "user"]
               /\ UNCHANGED <<state, wakeup, timed>>
      BY <1>0, <1>1, <3>1 DEF TypeOK
    <3>2. CASE /\ Block(t, timeout)
               /\ pc' = [pc EXCEPT ![t] = c]
      BY <1>0, <1>1, <3>2 DEF TypeOK, Block
    <3> QED BY <1>0, <3>1, <3>2, TakeOrBlockCases
  <2> QED BY <1>1, <2>1, SameWaits
<1>2. ASSUME NEW p \in Objs PROVE EventQueueOK(p)'
  <2>1. Distinct(event_fifo'[p]) BY <1>0 DEF EventQueueOK
  <2> QED BY <1>0, <1>1, <2>1, EventQueueKept
<1>3. ASSUME NEW p \in Objs, fifo'[p] = fifo[p] PROVE LockQueueOK(p)'
  <2>1. Distinct(fifo'[p]) BY <1>0, <1>3 DEF LockQueueOK
  <2> QED BY <1>0, <1>1, <1>3, <2>1, LockQueueKept
<1>4. CASE fifo' = fifo
  BY <1>2, <1>3, <1>4 DEF QueuedIsWaiting, LockQueueOK, EventQueueOK
<1>5. CASE /\ \A p \in Objs \ {o} : fifo'[p] = fifo[p]
           /\ ToSet(fifo'[o]) = ToSet(fifo[o]) \union {t}
           /\ Distinct(fifo[o]) /\ t \notin ToSet(fifo[o]) => Distinct(fifo'[o])
           /\ Block(t, timeout)
           /\ pc' = [pc EXCEPT ![t] = c]
  <2>1. Distinct(fifo'[o]) BY <1>0, <1>5 DEF LockQueueOK
  <2>2. pc'[t] = c /\ state'[t] \in Blocked
    BY <1>0, <1>5 DEF TypeOK, Block, Blocked
  <2>3. ASSUME NEW u \in ToSet(fifo'[o])
        PROVE  /\ on'[u] = o /\ pc'[u] \in {"lock", "relock"}
               /\ Waits(u)'
    <3>1. CASE u = t BY <2>2, <3>1 DEF Waits
    <3>2. CASE u # t
      <4>1. u \in ToSet(fifo[o]) /\ u \in Threads BY <1>0, <1>5, <3>2
      <4> QED BY <1>0, <1>1, <3>2, <4>1 DEF LockQueueOK, Waits
    <3> QED BY <3>1, <3>2
  <2>4. LockQueueOK(o)' BY <2>1, <2>3 DEF LockQueueOK, Waits
  <2> QED BY <1>2, <1>3, <1>5, <2>4 DEF QueuedIsWaiting, LockQueueOK, EventQueueOK
<1> QED BY <1>0, <1>4, <1>5, TakeOrBlockCases

(* unlock wakes the head of the queue and takes it out; eventwait also     *)
(* moves the thread t that calls it.                                       *)
LEMMA ReleaseQueued ==
  ASSUME IInv, NEW t \in Threads, NEW o \in Objs, Release(o),
         pc[t] = "user", UNCHANGED <<event_fifo, wakeup, timed>>,
         \A u \in Threads \ {t} : on'[u] = on[u] /\ pc'[u] = pc[u]
  PROVE  QueuedIsWaiting'
<1>0. /\ TypeOK
      /\ \A p \in Objs : LockQueueOK(p) /\ EventQueueOK(p)
      /\ \A p \in Objs : /\ ToSet(fifo[p]) \subseteq Threads
                         /\ ToSet(event_fifo[p]) \subseteq Threads
      /\ \A p \in Objs : t \notin ToSet(fifo[p]) /\ t \notin ToSet(event_fifo[p])
  BY QueuesOK, QueueMembers, NotQueued DEF IInv
<1>1. ASSUME NEW u \in Threads, u # t, state'[u] = state[u]
      PROVE  /\ on'[u] = on[u] /\ pc'[u] = pc[u]
             /\ Waits(u) => Waits(u)'
  BY <1>1, SameWaits
<1>2. CASE fifo' = fifo /\ state' = state
  <2>1. ASSUME NEW p \in Objs PROVE LockQueueOK(p)' /\ EventQueueOK(p)'
    <3>1. Distinct(fifo'[p]) /\ Distinct(event_fifo'[p])
      BY <1>0, <1>2 DEF LockQueueOK, EventQueueOK
    <3>2. LockQueueOK(p)' BY <1>0, <1>1, <1>2, <3>1, LockQueueKept
    <3>3. EventQueueOK(p)' BY <1>0, <1>1, <1>2, <3>1, EventQueueKept
    <3> QED BY <3>2, <3>3
  <2> QED BY <2>1 DEF QueuedIsWaiting, LockQueueOK, EventQueueOK
<1>3. CASE /\ fifo[o] # <<>>
           /\ fifo' = [fifo EXCEPT ![o] = Tail(fifo[o])]
           /\ state' = [state EXCEPT ![Head(fifo[o])] = "RUNNABLE"]
  <2> DEFINE h == Head(fifo[o])
  <2>0. fifo[o] \in Seq(Threads) /\ Distinct(fifo[o])
    BY <1>0 DEF TypeOK, LockQueueOK
  <2>1. /\ h \in Threads /\ h \in ToSet(fifo[o])
        /\ ToSet(Tail(fifo[o])) \subseteq ToSet(fifo[o])
        /\ Distinct(Tail(fifo[o])) /\ h \notin ToSet(Tail(fifo[o]))
    BY <2>0, <1>3, DequeueProperties
  <2>2. /\ fifo'[o] = Tail(fifo[o])
        /\ \A p \in Objs \ {o} : fifo'[p] = fifo[p]
        /\ \A u \in Threads \ {h} : state'[u] = state[u]
    BY <1>0, <1>3, <2>1 DEF TypeOK
  <2> HIDE DEF h
  <2>3. on[h] = o /\ pc[h] \in {"lock", "relock"}
    BY <1>0, <2>1 DEF LockQueueOK
  <2>4. ASSUME NEW p \in Objs PROVE EventQueueOK(p)'
    <3>1. Distinct(event_fifo'[p]) /\ h \notin ToSet(event_fifo[p])
      BY <1>0, <2>3 DEF EventQueueOK
    <3> QED BY <1>0, <1>1, <2>2, <3>1, EventQueueKept
  <2>5. ASSUME NEW p \in Objs PROVE LockQueueOK(p)'
    <3>1. /\ Distinct(fifo'[p]) /\ h \notin ToSet(fifo'[p])
          /\ ToSet(fifo'[p]) \subseteq ToSet(fifo[p])
      <4>1. CASE p = o BY <2>1, <2>2, <4>1
      <4>2. CASE p # o BY <1>0, <2>2, <2>3, <4>2 DEF LockQueueOK
      <4> QED BY <4>1, <4>2
    <3> QED BY <1>0, <1>1, <2>2, <3>1, LockQueueKept
  <2> QED BY <2>4, <2>5 DEF QueuedIsWaiting, LockQueueOK, EventQueueOK
<1> QED BY <1>0, <1>2, <1>3, ReleaseCases

(* A thread that goes on has left the queues, and nobody else moves.       *)
LEMMA ReturnQueued ==
  ASSUME IInv, NEW t \in Threads, UNCHANGED <<on, state, wakeup, timed>>,
         \A u \in Threads \ {t} : pc'[u] = pc[u],
         \A p \in Objs :
           /\ Distinct(fifo'[p]) /\ ToSet(fifo'[p]) \subseteq ToSet(fifo[p]) \ {t}
           /\ Distinct(event_fifo'[p])
           /\ ToSet(event_fifo'[p]) \subseteq ToSet(event_fifo[p]) \ {t}
  PROVE  QueuedIsWaiting'
<1>0. /\ \A p \in Objs : LockQueueOK(p) /\ EventQueueOK(p)
      /\ \A p \in Objs : /\ ToSet(fifo[p]) \subseteq Threads
                         /\ ToSet(event_fifo[p]) \subseteq Threads
  BY QueuesOK, QueueMembers DEF IInv
<1>1. ASSUME NEW u \in Threads, u # t
      PROVE  on'[u] = on[u] /\ pc'[u] = pc[u] /\ (Waits(u) => Waits(u)')
  BY <1>1, SameWaits
<1>2. ASSUME NEW p \in Objs PROVE LockQueueOK(p)' /\ EventQueueOK(p)'
  <2>1. LockQueueOK(p)' BY <1>0, <1>1, LockQueueKept
  <2>2. EventQueueOK(p)' BY <1>0, <1>1, EventQueueKept
  <2> QED BY <2>1, <2>2
<1> QED BY <1>2 DEF QueuedIsWaiting, LockQueueOK, EventQueueOK

(* A thread that returns from lock is in no queue.                         *)
LEMMA LockReturnQueued ==
  ASSUME IInv, NEW t \in Threads, LockReturn(t)
  PROVE  QueuedIsWaiting'
<1>0. /\ TypeOK
      /\ \A p \in Objs : Distinct(fifo[p]) /\ Distinct(event_fifo[p])
      /\ state[t] = "RUNNABLE" /\ pc[t] = "lock" /\ on[t] \in Objs
  BY DEF IInv, LockReturn, CanRun, QueuedIsWaiting, TypeOK
<1>1. /\ UNCHANGED <<on, state, wakeup, timed, event_fifo>>
      /\ \A u \in Threads \ {t} : pc'[u] = pc[u]
  BY <1>0 DEF LockReturn, TypeOK
<1>2. ASSUME NEW p \in Objs
      PROVE  /\ Distinct(fifo'[p])
             /\ ToSet(fifo'[p]) \subseteq ToSet(fifo[p]) \ {t}
  <2>1. CASE DeadlinePassed(t) /\ p = on[t]
    <3>1. fifo'[p] = RemoveThread(fifo[p], t)
      BY <1>0, <2>1 DEF LockReturn, TypeOK
    <3>2. fifo[p] \in Seq(Threads) BY <1>0 DEF TypeOK
    <3> QED BY <1>0, <3>1, <3>2, LeaveQueue
  <2>2. CASE DeadlinePassed(t) /\ p # on[t]
    <3>1. fifo'[p] = fifo[p] BY <1>0, <2>2 DEF LockReturn, TypeOK
    <3> QED BY <1>0, <2>2, <3>1, NotQueued
  <2>3. CASE ~ DeadlinePassed(t)
    <3>1. fifo' = fifo BY <2>3 DEF LockReturn
    <3>2. ~ Waits(t) BY <1>0, <2>3 DEF Waits, Blocked
    <3> QED BY <1>0, <3>1, <3>2, NotQueued
  <2> QED BY <2>1, <2>2, <2>3
<1>3. \A p \in Objs : t \notin ToSet(event_fifo[p]) BY <1>0, NotQueued
<1> QED BY <1>0, <1>1, <1>2, <1>3, ReturnQueued

(* A waiter that times out has left the event's queue.                     *)
LEMMA EventReturnQueued ==
  ASSUME IInv, NEW t \in Threads, EventReturn(t)
  PROVE  QueuedIsWaiting'
<1>0. /\ TypeOK
      /\ \A p \in Objs : Distinct(fifo[p]) /\ Distinct(event_fifo[p])
      /\ state[t] = "RUNNABLE" /\ pc[t] = "ev_wait" /\ on[t] \in Objs
  BY DEF IInv, EventReturn, CanRun, QueuedIsWaiting, TypeOK
<1>1. /\ UNCHANGED <<on, state, wakeup, timed, fifo>>
      /\ \A u \in Threads \ {t} : pc'[u] = pc[u]
  BY <1>0 DEF EventReturn, TypeOK
<1>2. ASSUME NEW p \in Objs
      PROVE  /\ Distinct(event_fifo'[p])
             /\ ToSet(event_fifo'[p]) \subseteq ToSet(event_fifo[p]) \ {t}
  <2>1. CASE DeadlinePassed(t) /\ p = on[t]
    <3>1. event_fifo'[p] = RemoveThread(event_fifo[p], t)
      BY <1>0, <2>1 DEF EventReturn, TypeOK
    <3>2. event_fifo[p] \in Seq(Threads) BY <1>0 DEF TypeOK
    <3> QED BY <1>0, <3>1, <3>2, LeaveQueue
  <2>2. CASE DeadlinePassed(t) /\ p # on[t]
    <3>1. event_fifo'[p] = event_fifo[p]
      BY <1>0, <2>2 DEF EventReturn, TypeOK
    <3> QED BY <1>0, <2>2, <3>1, NotQueued
  <2>3. CASE ~ DeadlinePassed(t)
    <3>1. event_fifo' = event_fifo BY <2>3 DEF EventReturn
    <3>2. ~ Waits(t) BY <1>0, <2>3 DEF Waits, Blocked
    <3> QED BY <1>0, <3>1, <3>2, NotQueued
  <2> QED BY <2>1, <2>2, <2>3
<1>3. \A p \in Objs : t \notin ToSet(fifo[p]) BY <1>0, NotQueued
<1> QED BY <1>0, <1>1, <1>2, <1>3, ReturnQueued

(* A waiter that has its object back is in no queue.                       *)
LEMMA EventLockReturnQueued ==
  ASSUME IInv, NEW t \in Threads, EventLockReturn(t)
  PROVE  QueuedIsWaiting'
<1>0. /\ TypeOK
      /\ \A p \in Objs : Distinct(fifo[p]) /\ Distinct(event_fifo[p])
      /\ state[t] = "RUNNABLE" /\ pc[t] = "relock" /\ ~ timed[t]
  BY AllMatch DEF IInv, EventLockReturn, CanRun, QueuedIsWaiting, ThreadMatches
<1>1. /\ UNCHANGED <<on, state, wakeup, timed, fifo, event_fifo>>
      /\ \A u \in Threads \ {t} : pc'[u] = pc[u]
  BY <1>0 DEF EventLockReturn, TypeOK, objVars
<1>2. ~ Waits(t) BY <1>0 DEF Waits, DeadlinePassed, Blocked
<1>3. \A p \in Objs : t \notin ToSet(fifo[p]) /\ t \notin ToSet(event_fifo[p])
  BY <1>2, NotQueued
<1> QED BY <1>0, <1>1, <1>3, ReturnQueued

(* eventwait queues its caller for the event and gives the object up.      *)
LEMMA EventEnqueueQueued ==
  ASSUME IInv, NEW t \in Threads, NEW timeout \in Nat, EventEnqueue(t, timeout)
  PROVE  QueuedIsWaiting'
<1> DEFINE o == on[t]
<1>0. /\ TypeOK /\ o \in Objs /\ pc[t] = "ev_enqueue"
      /\ \A p \in Objs : LockQueueOK(p) /\ EventQueueOK(p)
      /\ \A p \in Objs : /\ ToSet(fifo[p]) \subseteq Threads
                         /\ ToSet(event_fifo[p]) \subseteq Threads
      /\ \A p \in Objs : t \notin ToSet(fifo[p]) /\ t \notin ToSet(event_fifo[p])
  BY QueuesOK, QueueMembers, NotQueued DEF IInv, TypeOK, EventEnqueue
<1>1. ASSUME NEW u \in Threads, u # t
      PROVE  on'[u] = on[u] /\ pc'[u] = pc[u] /\ (Waits(u) => Waits(u)')
  <2>1. /\ on'[u] = on[u] /\ pc'[u] = pc[u] /\ state'[u] = state[u]
        /\ wakeup'[u] = wakeup[u] /\ timed'[u] = timed[u]
    BY <1>0, <1>1 DEF EventEnqueue, Block, TypeOK
  <2> QED BY <2>1, SameWaits
<1>2. /\ pc'[t] = "ev_wait" /\ on'[t] = o /\ Waits(t)'
      /\ fifo' = fifo /\ \A p \in Objs \ {o} : event_fifo'[p] = event_fifo[p]
  BY <1>0 DEF EventEnqueue, Block, TypeOK, Waits, Blocked
<1>3. /\ ToSet(event_fifo'[o]) = ToSet(event_fifo[o]) \union {t}
      /\ Distinct(event_fifo'[o])
  <2>1. event_fifo[o] \in Seq(Threads) /\ Distinct(event_fifo[o])
    BY <1>0 DEF TypeOK, EventQueueOK
  <2>2. event_fifo'[o] = Enqueue(event_fifo[o], t, "PRIORITY", Prio)
    BY <1>0 DEF EventEnqueue, TypeOK
  <2> QED BY <1>0, <2>1, <2>2, EnqueueThread
<1> HIDE DEF o
<1>4. ASSUME NEW p \in Objs PROVE LockQueueOK(p)'
  <2>1. Distinct(fifo'[p]) BY <1>0, <1>2 DEF LockQueueOK
  <2> QED BY <1>0, <1>1, <1>2, <2>1, LockQueueKept
<1>5. ASSUME NEW p \in Objs PROVE EventQueueOK(p)'
  <2>1. CASE p = o
    <3>1. ASSUME NEW u \in ToSet(event_fifo'[p])
          PROVE  on'[u] = p /\ pc'[u] = "ev_wait" /\ Waits(u)'
      <4>1. CASE u = t BY <1>2, <2>1, <4>1
      <4>2. CASE u # t
        <5>1. u \in ToSet(event_fifo[p]) /\ u \in Threads
          BY <1>0, <1>3, <2>1, <4>2
        <5> QED BY <1>0, <1>1, <4>2, <5>1 DEF EventQueueOK, Waits
      <4> QED BY <4>1, <4>2
    <3> QED BY <1>3, <2>1, <3>1 DEF EventQueueOK, Waits
  <2>2. CASE p # o
    <3>1. event_fifo'[p] = event_fifo[p] BY <1>2, <2>2
    <3>2. Distinct(event_fifo'[p]) BY <1>0, <3>1 DEF EventQueueOK
    <3> QED BY <1>0, <1>1, <3>1, <3>2, EventQueueKept
  <2> QED BY <2>1, <2>2
<1> QED BY <1>4, <1>5 DEF QueuedIsWaiting, LockQueueOK, EventQueueOK

(* signal and broadcast wake threads they take out of the event's queue.   *)
LEMMA WakeQueued ==
  ASSUME IInv, NEW o \in Objs, UNCHANGED <<fifo, on, pc, wakeup, timed>>,
         \A p \in Objs \ {o} : event_fifo'[p] = event_fifo[p],
         Distinct(event_fifo'[o]),
         ToSet(event_fifo'[o]) \subseteq ToSet(event_fifo[o]),
         \A u \in Threads :
           \/ state'[u] = state[u]
           \/ u \in ToSet(event_fifo[o]) \ ToSet(event_fifo'[o])
  PROVE  QueuedIsWaiting'
<1>0. /\ \A p \in Objs : LockQueueOK(p) /\ EventQueueOK(p)
      /\ \A p \in Objs : /\ ToSet(fifo[p]) \subseteq Threads
                         /\ ToSet(event_fifo[p]) \subseteq Threads
  BY QueuesOK, QueueMembers DEF IInv
<1>1. ASSUME NEW u \in Threads, ~ (Waits(u) => Waits(u)')
      PROVE  /\ u \in ToSet(event_fifo[o]) \ ToSet(event_fifo'[o])
             /\ on[u] = o /\ pc[u] = "ev_wait"
  <2>1. state'[u] # state[u] BY <1>1, SameWaits
  <2> QED BY <1>0, <2>1 DEF EventQueueOK
<1>2. ASSUME NEW p \in Objs PROVE LockQueueOK(p)' /\ EventQueueOK(p)'
  <2>1. \A u \in ToSet(fifo[p]) : Waits(u) => Waits(u)'
    <3> SUFFICES ASSUME NEW u \in ToSet(fifo[p]), ~ (Waits(u) => Waits(u)')
                 PROVE  FALSE
      OBVIOUS
    <3>1. u \in Threads /\ pc[u] \in {"lock", "relock"}
      BY <1>0 DEF LockQueueOK
    <3>2. pc[u] = "ev_wait" BY <1>1, <3>1
    <3> QED BY <3>1, <3>2
  <2>2. Distinct(fifo'[p]) BY <1>0 DEF LockQueueOK
  <2>3. LockQueueOK(p)' BY <1>0, <2>1, <2>2, LockQueueKept
  <2>4. /\ ToSet(event_fifo'[p]) \subseteq ToSet(event_fifo[p])
        /\ Distinct(event_fifo'[p])
    <3>1. CASE p = o BY <3>1
    <3>2. CASE p # o BY <1>0, <3>2 DEF EventQueueOK
    <3> QED BY <3>1, <3>2
  <2>5. \A u \in ToSet(event_fifo'[p]) : Waits(u) => Waits(u)'
    <3> SUFFICES ASSUME NEW u \in ToSet(event_fifo'[p]),
                        ~ (Waits(u) => Waits(u)')
                 PROVE  FALSE
      OBVIOUS
    <3>1. u \in Threads /\ u \in ToSet(event_fifo[p]) /\ on[u] = p
      BY <1>0, <2>4 DEF EventQueueOK
    <3>2. u \notin ToSet(event_fifo'[o]) /\ on[u] = o BY <1>1, <3>1
    <3> QED BY <3>1, <3>2
  <2>6. EventQueueOK(p)' BY <1>0, <2>4, <2>5, EventQueueKept
  <2> QED BY <2>3, <2>6
<1> QED BY <1>2 DEF QueuedIsWaiting, LockQueueOK, EventQueueOK

(* signal takes the thread it wakes out of the queue.                      *)
LEMMA SignalQueued ==
  ASSUME IInv, NEW t \in Threads, NEW o \in Objs, Signal(t, o)
  PROVE  QueuedIsWaiting'
<1>0. /\ TypeOK /\ UNCHANGED <<fifo, on, pc, wakeup, timed>>
      /\ event_fifo[o] \in Seq(Threads) /\ Distinct(event_fifo[o])
  BY DEF IInv, TypeOK, Signal, QueuedIsWaiting
<1>1. CASE event_fifo[o] = <<>>
  <2>1. event_fifo' = event_fifo /\ state' = state BY <1>1 DEF Signal
  <2> QED BY <1>0, <2>1, WakeQueued
<1>2. CASE event_fifo[o] # <<>>
  <2> DEFINE h == Head(event_fifo[o])
             r == Tail(event_fifo[o])
  <2>1. /\ h \in Threads
        /\ h \in ToSet(event_fifo[o]) \ ToSet(r)
        /\ ToSet(r) \subseteq ToSet(event_fifo[o]) /\ Distinct(r)
    BY <1>0, <1>2, DequeueProperties
  <2>2. /\ state' = [state EXCEPT ![h] = "RUNNABLE"]
        /\ event_fifo' = [event_fifo EXCEPT ![o] = r]
    BY <1>2 DEF Signal
  <2> HIDE DEF h, r
  <2>3. /\ event_fifo'[o] = r
        /\ \A p \in Objs \ {o} : event_fifo'[p] = event_fifo[p]
        /\ \A u \in Threads \ {h} : state'[u] = state[u]
    BY <1>0, <2>1, <2>2 DEF TypeOK
  <2> QED BY <1>0, <2>1, <2>3, WakeQueued
<1> QED BY <1>1, <1>2

(* broadcast empties the queue.                                            *)
LEMMA BroadcastQueued ==
  ASSUME IInv, NEW t \in Threads, NEW o \in Objs, Broadcast(t, o)
  PROVE  QueuedIsWaiting'
<1>0. TypeOK /\ UNCHANGED <<fifo, on, pc, wakeup, timed>>
  BY DEF IInv, Broadcast
<1>1. /\ event_fifo'[o] = <<>>
      /\ \A p \in Objs \ {o} : event_fifo'[p] = event_fifo[p]
      /\ \A u \in Threads : u \notin ToSet(event_fifo[o]) => state'[u] = state[u]
  BY <1>0 DEF Broadcast, TypeOK
<1>2. ToSet(<<>>) = {} /\ Distinct(<<>>) BY EmptyQueue
<1> QED BY <1>0, <1>1, <1>2, WakeQueued

(* The clock turns waits into late waits.                                  *)
LEMMA ClockQueued ==
  ASSUME IInv, Tick \/ \E p \in Procs : WakeExpired(p)
  PROVE  QueuedIsWaiting'
<1>0. /\ TypeOK /\ UNCHANGED <<fifo, event_fifo, on, pc, timed>>
      /\ \A p \in Objs : LockQueueOK(p) /\ EventQueueOK(p)
      /\ \A p \in Objs : /\ ToSet(fifo[p]) \subseteq Threads
                         /\ ToSet(event_fifo[p]) \subseteq Threads
      /\ \A t \in Threads : ThreadMatches(t)
  BY QueuesOK, QueueMembers, AllMatch DEF IInv, Tick, WakeExpired, objVars
<1>1. ASSUME NEW t \in Threads, Waits(t) PROVE Waits(t)'
  <2>1. CASE Tick
    BY <1>0, <1>1, <2>1 DEF Tick, Waits, DeadlinePassed, TypeOK
  <2>2. ASSUME NEW p \in Procs, WakeExpired(p) PROVE Waits(t)'
    <3>1. CASE t \in Expired(p)
      <4>1. timed[t] /\ wakeup[t] = 0 BY <1>0, <3>1 DEF Expired, ThreadMatches
      <4> QED BY <1>0, <2>2, <4>1 DEF WakeExpired, Waits, DeadlinePassed
    <3>2. CASE t \notin Expired(p)
      <4>1. state'[t] = state[t] /\ wakeup'[t] = wakeup[t]
        BY <2>2, <3>2 DEF WakeExpired
      <4> QED BY <1>0, <1>1, <4>1, SameWaits
    <3> QED BY <3>1, <3>2
  <2> QED BY <2>1, <2>2
<1>2. ASSUME NEW p \in Objs PROVE LockQueueOK(p)' /\ EventQueueOK(p)'
  <2>1. Distinct(fifo'[p]) /\ Distinct(event_fifo'[p])
    BY <1>0 DEF LockQueueOK, EventQueueOK
  <2>2. LockQueueOK(p)' BY <1>0, <1>1, <2>1, LockQueueKept
  <2>3. EventQueueOK(p)' BY <1>0, <1>1, <2>1, EventQueueKept
  <2> QED BY <2>2, <2>3
<1> QED BY <1>2 DEF QueuedIsWaiting, LockQueueOK, EventQueueOK

(* Every step keeps only waiting threads in the queues, once each.         *)
LEMMA StepQueued == IInv /\ [Next]_vars => QueuedIsWaiting'
<1> SUFFICES ASSUME IInv, [Next]_vars PROVE QueuedIsWaiting'
  OBVIOUS
<1>0. /\ TypeOK
      /\ \A p \in Objs : LockQueueOK(p) /\ EventQueueOK(p)
      /\ 0 \in Nat /\ \A x \in Timeouts : x \in Nat
  BY QueuesOK, ConstantsAssumption DEF IInv
<1>1. ASSUME NEW o \in Objs, NEW a \in Attrs, Create(o, a)
      PROVE  QueuedIsWaiting'
  <2>1. ToSet(<<>>) = {} /\ Distinct(<<>>) BY EmptyQueue
  <2>2. ASSUME NEW p \in Objs PROVE LockQueueOK(p)' /\ EventQueueOK(p)'
    <3>1. CASE p = o
      <4>1. fifo'[p] = <<>> /\ event_fifo'[p] = <<>>
        BY <1>0, <1>1, <3>1 DEF Create, TypeOK
      <4> QED BY <2>1, <4>1 DEF LockQueueOK, EventQueueOK
    <3>2. CASE p # o
      <4>1. /\ fifo'[p] = fifo[p] /\ event_fifo'[p] = event_fifo[p]
            /\ UNCHANGED threadVars
        BY <1>0, <1>1, <3>2 DEF Create, TypeOK
      <4> QED BY <1>0, <4>1
          DEF threadVars, LockQueueOK, EventQueueOK, DeadlinePassed
    <3> QED BY <3>1, <3>2
  <2> QED BY <2>2 DEF QueuedIsWaiting, LockQueueOK, EventQueueOK
<1>2. CASE StartNormal \/ UNCHANGED vars
  BY <1>2 DEF IInv, StartNormal, vars, objVars, threadVars, QueuedIsWaiting,
              DeadlinePassed
<1>3. ASSUME NEW t \in Threads, NEW o \in Objs, NEW timeout \in Timeouts,
             Lock(t, o, timeout)
      PROVE  QueuedIsWaiting'
  <2>1. on'[t] = o /\ \A u \in Threads \ {t} : on'[u] = on[u]
    BY <1>0, <1>3 DEF Lock, TypeOK
  <2> QED BY <1>0, <1>3, <2>1, TakeOrBlockQueued DEF Lock, Call
<1>4. ASSUME NEW t \in Threads, NEW o \in Objs, Unlock(t, o)
      PROVE  QueuedIsWaiting'
  BY <1>4, ReleaseQueued DEF Unlock, Call
<1>5. ASSUME NEW t \in Threads, NEW o \in Objs, EventWait(t, o)
      PROVE  QueuedIsWaiting'
  <2>1. \A u \in Threads \ {t} : on'[u] = on[u] /\ pc'[u] = pc[u]
    BY <1>0, <1>5 DEF EventWait, TypeOK
  <2> QED BY <1>5, <2>1, ReleaseQueued DEF EventWait, Call
<1>6. ASSUME NEW t \in Threads, EventLock(t) PROVE QueuedIsWaiting'
  <2>1. on[t] \in Objs BY <1>0 DEF TypeOK
  <2> QED BY <1>0, <1>6, <2>1, TakeOrBlockQueued DEF EventLock
<1>7. ASSUME NEW t \in Threads, ThreadStep(t) PROVE QueuedIsWaiting'
  BY <1>0, <1>3, <1>4, <1>5, <1>6, <1>7, LockReturnQueued, EventReturnQueued,
     EventLockReturnQueued, EventEnqueueQueued, SignalQueued, BroadcastQueued
  DEF ThreadStep
<1> QED BY <1>1, <1>2, <1>7, ClockQueued DEF Next
-----------------------------------------------------------------------------
QueuedFor(t) ==
  \/ pc[t] \in {"lock", "relock"} /\ t \in ToSet(fifo[on[t]])
  \/ pc[t] = "ev_wait" /\ t \in ToSet(event_fifo[on[t]])

(* Threads that stay blocked stay where they are.                          *)
LEMMA StillQueued ==
  ASSUME IInv,
         \A u \in Threads :
           \/ state'[u] \notin Blocked
           \/ QueuedFor(u)'
           \/ /\ state[u] \in Blocked
              /\ pc'[u] = pc[u] /\ on'[u] = on[u]
              /\ u \in ToSet(fifo[on[u]]) => u \in ToSet(fifo'[on[u]])
              /\ u \in ToSet(event_fifo[on[u]])
                   => u \in ToSet(event_fifo'[on[u]])
  PROVE  BlockedIsQueued'
<1> SUFFICES ASSUME NEW u \in Threads, state'[u] \in Blocked
             PROVE  QueuedFor(u)'
  BY DEF BlockedIsQueued, QueuedFor
<1>1. state[u] \in Blocked => QueuedFor(u)
  BY DEF IInv, BlockedIsQueued, QueuedFor
<1> QED BY <1>1 DEF QueuedFor

(* A thread that lock blocks is in the queue of the object.                *)
LEMMA TakeOrBlockBlocked ==
  ASSUME IInv, NEW t \in Threads, NEW o \in Objs, NEW timeout \in Nat,
         NEW c \in {"lock", "relock"}, TakeOrBlock(t, o, timeout, c),
         state[t] = "RUNNABLE", UNCHANGED event_fifo,
         on'[t] = o, \A u \in Threads \ {t} : on'[u] = on[u]
  PROVE  BlockedIsQueued'
<1>0. TypeOK /\ c \in PCs BY DEF IInv, PCs
<1>1. CASE /\ pc' = [pc EXCEPT ![t] = "user"]
           /\ UNCHANGED <<fifo, state>>
  <2>1. ASSUME NEW u \in Threads, u # t
        PROVE  pc'[u] = pc[u] /\ on'[u] = on[u]
    BY <1>0, <1>1, <2>1 DEF TypeOK
  <2>2. state'[t] \notin Blocked BY <1>1 DEF Blocked
  <2> QED BY <1>1, <2>1, <2>2, StillQueued
<1>2. CASE /\ \A p \in Objs \ {o} : fifo'[p] = fifo[p]
           /\ ToSet(fifo'[o]) = ToSet(fifo[o]) \union {t}
           /\ Block(t, timeout)
           /\ pc' = [pc EXCEPT ![t] = c]
  <2>1. QueuedFor(t)' BY <1>0, <1>2 DEF TypeOK, QueuedFor
  <2>2. ASSUME NEW u \in Threads, u # t
        PROVE  /\ pc'[u] = pc[u] /\ on'[u] = on[u] /\ state'[u] = state[u]
               /\ u \in ToSet(fifo[on[u]]) => u \in ToSet(fifo'[on[u]])
    <3>1. pc'[u] = pc[u] /\ on'[u] = on[u] /\ state'[u] = state[u]
          /\ on[u] \in Objs
      BY <1>0, <1>2, <2>2 DEF TypeOK, Block
    <3>2. CASE on[u] = o BY <1>2, <3>1, <3>2
    <3>3. CASE on[u] # o BY <1>2, <3>1, <3>3
    <3> QED BY <3>1, <3>2, <3>3
  <2> QED BY <2>1, <2>2, StillQueued
<1> QED BY <1>0, <1>1, <1>2, TakeOrBlockCases

(* unlock takes only the thread it makes runnable out of a queue.          *)
LEMMA ReleaseBlocked ==
  ASSUME IInv, NEW t \in Threads, NEW o \in Objs, Release(o),
         state[t] = "RUNNABLE", UNCHANGED event_fifo,
         \A u \in Threads \ {t} : on'[u] = on[u] /\ pc'[u] = pc[u]
  PROVE  BlockedIsQueued'
<1>0. TypeOK BY DEF IInv
<1>1. CASE fifo' = fifo /\ state' = state
  <2>1. state'[t] \notin Blocked BY <1>1 DEF Blocked
  <2> QED BY <1>1, <2>1, StillQueued
<1>2. CASE /\ fifo[o] # <<>>
           /\ fifo' = [fifo EXCEPT ![o] = Tail(fifo[o])]
           /\ state' = [state EXCEPT ![Head(fifo[o])] = "RUNNABLE"]
  <2> DEFINE h == Head(fifo[o])
  <2>0. fifo[o] \in Seq(Threads) BY <1>0 DEF TypeOK
  <2>1. h \in Threads /\ ToSet(fifo[o]) = ToSet(Tail(fifo[o])) \union {h}
    BY <2>0, <1>2, DequeueProperties
  <2>2. /\ fifo'[o] = Tail(fifo[o])
        /\ \A p \in Objs \ {o} : fifo'[p] = fifo[p]
        /\ state'[h] = "RUNNABLE" /\ state'[t] = "RUNNABLE"
        /\ \A u \in Threads \ {h} : state'[u] = state[u]
    BY <1>0, <1>2, <2>1 DEF TypeOK
  <2> HIDE DEF h
  <2>3. ASSUME NEW u \in Threads, u # h, u # t
        PROVE  /\ state'[u] = state[u] /\ on'[u] = on[u] /\ pc'[u] = pc[u]
               /\ u \in ToSet(fifo[on[u]]) => u \in ToSet(fifo'[on[u]])
    <3>1. on[u] \in Objs BY <1>0 DEF TypeOK
    <3>2. CASE on[u] = o BY <2>1, <2>2, <2>3, <3>2
    <3>3. CASE on[u] # o BY <2>2, <2>3, <3>1, <3>3
    <3> QED BY <3>2, <3>3
  <2>4. state'[h] \notin Blocked /\ state'[t] \notin Blocked
    BY <2>2 DEF Blocked
  <2> QED BY <2>3, <2>4, StillQueued
<1> QED BY <1>0, <1>1, <1>2, ReleaseCases

(* A thread that goes on takes nobody else out of a queue.                 *)
LEMMA LeaveOthers ==
  ASSUME NEW q \in Seq(Threads), NEW t, NEW u, u # t, u \in ToSet(q)
  PROVE  u \in ToSet(RemoveThread(q, t))
BY RemoveProperties

(* No step leaves a blocked thread outside the queues.                     *)
LEMMA StepBlocked == IInv /\ [Next]_vars => BlockedIsQueued'
<1> SUFFICES ASSUME IInv, [Next]_vars PROVE BlockedIsQueued'
  OBVIOUS
<1>0. /\ TypeOK
      /\ 0 \in Nat /\ \A x \in Timeouts : x \in Nat
      /\ \A t \in Threads : on[t] \in Objs
  BY ConstantsAssumption DEF IInv, TypeOK
<1>1. ASSUME NEW o \in Objs, NEW a \in Attrs, Create(o, a)
      PROVE  BlockedIsQueued'
  <2>1. \A t \in Threads : pc[t] = "user" /\ state[t] = "RUNNABLE"
    BY <1>1 DEF IInv, CallsMatchStates, Create
  <2> QED BY <1>1, <2>1 DEF Create, threadVars, BlockedIsQueued, Blocked
<1>2. CASE StartNormal \/ UNCHANGED vars
  BY <1>2 DEF IInv, StartNormal, vars, objVars, threadVars, BlockedIsQueued
<1>3. ASSUME NEW t \in Threads, NEW o \in Objs, NEW timeout \in Timeouts,
             Lock(t, o, timeout)
      PROVE  BlockedIsQueued'
  <2>1. on'[t] = o /\ \A u \in Threads \ {t} : on'[u] = on[u]
    BY <1>0, <1>3 DEF Lock, TypeOK
  <2> QED BY <1>0, <1>3, <2>1, TakeOrBlockBlocked DEF Lock, Call, CanRun
<1>4. ASSUME NEW t \in Threads, LockReturn(t) \/ EventReturn(t)
      PROVE  BlockedIsQueued'
  <2>1. ASSUME NEW u \in Threads, u # t
        PROVE  /\ pc'[u] = pc[u] /\ on'[u] = on[u] /\ state'[u] = state[u]
               /\ u \in ToSet(fifo[on[u]]) => u \in ToSet(fifo'[on[u]])
               /\ u \in ToSet(event_fifo[on[u]])
                    => u \in ToSet(event_fifo'[on[u]])
    <3>1. pc'[u] = pc[u] /\ on' = on /\ state' = state
      BY <1>0, <1>4, <2>1 DEF LockReturn, EventReturn, TypeOK
    <3>2. fifo'[on[u]] \in {fifo[on[u]], RemoveThread(fifo[on[u]], t)}
      <4>1. fifo' \in {fifo, [fifo EXCEPT ![on[t]] = RemoveThread(fifo[on[t]], t)]}
        BY <1>4 DEF LockReturn, EventReturn
      <4> QED BY <1>0, <4>1 DEF TypeOK
    <3>3. event_fifo'[on[u]]
            \in {event_fifo[on[u]], RemoveThread(event_fifo[on[u]], t)}
      <4>1. event_fifo' \in {event_fifo, [event_fifo EXCEPT ![on[t]] =
                                           RemoveThread(event_fifo[on[t]], t)]}
        BY <1>4 DEF LockReturn, EventReturn
      <4> QED BY <1>0, <4>1 DEF TypeOK
    <3>4. fifo[on[u]] \in Seq(Threads) /\ event_fifo[on[u]] \in Seq(Threads)
      BY <1>0 DEF TypeOK
    <3> QED BY <2>1, <3>1, <3>2, <3>3, <3>4, LeaveOthers
  <2>2. state'[t] \notin Blocked
    BY <1>4 DEF LockReturn, EventReturn, CanRun, Blocked
  <2> QED BY <2>1, <2>2, StillQueued
<1>5. ASSUME NEW t \in Threads, NEW o \in Objs, Unlock(t, o) \/ EventWait(t, o)
      PROVE  BlockedIsQueued'
  <2>1. \A u \in Threads \ {t} : on'[u] = on[u] /\ pc'[u] = pc[u]
    BY <1>0, <1>5 DEF Unlock, EventWait, TypeOK
  <2> QED BY <1>5, <2>1, ReleaseBlocked DEF Unlock, EventWait, Call, CanRun
<1>6. ASSUME NEW t \in Threads, NEW timeout \in Timeouts,
             EventEnqueue(t, timeout)
      PROVE  BlockedIsQueued'
  <2>1. /\ event_fifo[on[t]] \in Seq(Threads)
        /\ event_fifo'[on[t]] = Enqueue(event_fifo[on[t]], t, "PRIORITY", Prio)
        /\ \A p \in Objs \ {on[t]} : event_fifo'[p] = event_fifo[p]
    BY <1>0, <1>6 DEF EventEnqueue, TypeOK
  <2>2. ToSet(event_fifo'[on[t]]) = ToSet(event_fifo[on[t]]) \union {t}
    BY <2>1, EnqueueThread
  <2>3. QueuedFor(t)'
    <3>1. pc'[t] = "ev_wait" /\ on' = on BY <1>0, <1>6 DEF EventEnqueue, TypeOK
    <3> QED BY <2>2, <3>1 DEF QueuedFor
  <2>4. ASSUME NEW u \in Threads, u # t
        PROVE  /\ pc'[u] = pc[u] /\ on'[u] = on[u] /\ state'[u] = state[u]
               /\ fifo' = fifo
               /\ u \in ToSet(event_fifo[on[u]])
                    => u \in ToSet(event_fifo'[on[u]])
    <3>1. /\ pc'[u] = pc[u] /\ on'[u] = on[u] /\ state'[u] = state[u]
          /\ fifo' = fifo
      BY <1>0, <1>6, <2>4 DEF EventEnqueue, Block, TypeOK
    <3>2. CASE on[u] = on[t] BY <2>2, <3>1, <3>2
    <3>3. CASE on[u] # on[t] BY <1>0, <2>1, <3>1, <3>3
    <3> QED BY <3>1, <3>2, <3>3
  <2> QED BY <2>3, <2>4, StillQueued
<1>7. ASSUME NEW t \in Threads, EventLock(t) PROVE BlockedIsQueued'
  <2>1. on[t] \in Objs BY <1>0
  <2> QED BY <1>0, <1>7, <2>1, TakeOrBlockBlocked DEF EventLock, CanRun
<1>8. ASSUME NEW t \in Threads, EventLockReturn(t) PROVE BlockedIsQueued'
  <2>1. /\ \A u \in Threads \ {t} : pc'[u] = pc[u]
        /\ UNCHANGED <<on, state, fifo, event_fifo>>
    BY <1>0, <1>8 DEF EventLockReturn, TypeOK, objVars
  <2>2. state'[t] \notin Blocked
    BY <1>8 DEF EventLockReturn, CanRun, Blocked
  <2> QED BY <2>1, <2>2, StillQueued
<1>9. ASSUME NEW t \in Threads, NEW o \in Objs, Signal(t, o)
      PROVE  BlockedIsQueued'
  <2>0. event_fifo[o] \in Seq(Threads) BY <1>0 DEF TypeOK
  <2>1. CASE event_fifo[o] = <<>>
    BY <1>9, <2>1 DEF IInv, Signal, BlockedIsQueued
  <2>2. CASE event_fifo[o] # <<>>
    <3>1. /\ Head(event_fifo[o]) \in Threads
          /\ ToSet(event_fifo[o])
               = ToSet(Tail(event_fifo[o])) \union {Head(event_fifo[o])}
      BY <2>0, <2>2, DequeueProperties
    <3>2. /\ event_fifo'[o] = Tail(event_fifo[o])
          /\ \A p \in Objs \ {o} : event_fifo'[p] = event_fifo[p]
          /\ state'[Head(event_fifo[o])] = "RUNNABLE"
          /\ \A u \in Threads \ {Head(event_fifo[o])} : state'[u] = state[u]
          /\ UNCHANGED <<fifo, pc, on>>
      BY <1>0, <1>9, <2>2, <3>1 DEF Signal, TypeOK
    <3>3. ASSUME NEW u \in Threads, u # Head(event_fifo[o])
          PROVE  u \in ToSet(event_fifo[on[u]])
                   => u \in ToSet(event_fifo'[on[u]])
      <4>1. CASE on[u] = o BY <3>1, <3>2, <3>3, <4>1
      <4>2. CASE on[u] # o BY <1>0, <3>2, <4>2
      <4> QED BY <4>1, <4>2
    <3>4. state'[Head(event_fifo[o])] \notin Blocked BY <3>2 DEF Blocked
    <3> QED BY <3>2, <3>3, <3>4, StillQueued
  <2> QED BY <2>1, <2>2
<1>10. ASSUME NEW t \in Threads, NEW o \in Objs, Broadcast(t, o)
       PROVE  BlockedIsQueued'
  <2>1. /\ \A p \in Objs \ {o} : event_fifo'[p] = event_fifo[p]
        /\ \A u \in ToSet(event_fifo[o]) \intersect Threads :
             state'[u] = "RUNNABLE"
        /\ \A u \in Threads : u \notin ToSet(event_fifo[o]) => state'[u] = state[u]
        /\ UNCHANGED <<fifo, pc, on>>
    BY <1>0, <1>10 DEF Broadcast, TypeOK
  <2>2. ASSUME NEW u \in Threads, u \notin ToSet(event_fifo[o])
        PROVE  u \in ToSet(event_fifo[on[u]]) => u \in ToSet(event_fifo'[on[u]])
    <3>1. CASE on[u] = o BY <2>2, <3>1
    <3>2. CASE on[u] # o BY <1>0, <2>1, <3>2
    <3> QED BY <3>1, <3>2
  <2>3. \A u \in ToSet(event_fifo[o]) \intersect Threads : state'[u] \notin Blocked
    BY <2>1 DEF Blocked
  <2> QED BY <2>1, <2>2, <2>3, StillQueued
<1>11. CASE Tick \/ \E p \in Procs : WakeExpired(p)
  <2>1. /\ UNCHANGED <<fifo, event_fifo, pc, on>>
        /\ \A u \in Threads : state'[u] \in {state[u], "RUNNABLE"}
    BY <1>11 DEF Tick, WakeExpired, objVars
  <2>2. \A u \in Threads : state'[u] = state[u] \/ state'[u] \notin Blocked
    BY <2>1 DEF Blocked
  <2> QED BY <2>1, <2>2, StillQueued
<1> QED BY <1>1, <1>2, <1>3, <1>4, <1>5, <1>6, <1>7, <1>8, <1>9, <1>10, <1>11
        DEF Next, ThreadStep
-----------------------------------------------------------------------------
MutexOK(o) ==
  attr[o] # NoAttr /\ Kind(o) # "SEMAPHORE" =>
    /\ \A t, u \in Owners(o) : t = u
    /\ value[o] > 0 => Owners(o) = {}

(* Owners by membership, so that a step is judged thread by thread.        *)
LEMMA OwnersMembers ==
  ASSUME TypeOK, NEW o \in Objs
  PROVE  /\ Owners(o) \subseteq Threads
         /\ \A u \in Threads :
              u \in Owners(o) <=>
                \/ u \in hold[o]
                \/ /\ pc[u] \in {"lock", "relock"} /\ on[u] = o
                   /\ u \notin ToSet(fifo[o])
BY DEF TypeOK, Owners, Granted

(* An object that has gained no owner stays exclusive.                     *)
LEMMA ExclusionKept ==
  ASSUME IInv, NEW o \in Objs, UNCHANGED attr,
         TypeOK', Owners(o)' \subseteq Owners(o),
         value'[o] > 0 => value[o] > 0 \/ Owners(o)' = {}
  PROVE  MutexOK(o)'
<1>1. MutexOK(o) BY DEF IInv, MutualExclusion, MutexOK
<1> HIDE DEF Owners
<1> QED BY <1>1 DEF MutexOK, Kind

(* A step in which nobody but t moves and no object has gained t.          *)
LEMMA SameOwners ==
  ASSUME TypeOK, TypeOK', NEW o \in Objs, NEW t \in Threads,
         \A u \in Threads \ {t} :
           /\ u \in hold'[o] => u \in hold[o]
           /\ pc'[u] = pc[u] /\ on'[u] = on[u]
           /\ u \in ToSet(fifo[o]) => u \in ToSet(fifo'[o]),
         t \in Owners(o)' => t \in Owners(o)
  PROVE  Owners(o)' \subseteq Owners(o)
<1> SUFFICES ASSUME NEW u \in Owners(o)', u # t PROVE u \in Owners(o)
  OBVIOUS
<1>1. /\ Owners(o)' \subseteq Threads
      /\ \A v \in Threads :
           v \in Owners(o)' <=>
             \/ v \in hold'[o]
             \/ /\ pc'[v] \in {"lock", "relock"} /\ on'[v] = o
                /\ v \notin ToSet(fifo'[o])
  BY DEF TypeOK, Owners, Granted
<1>2. u \in Threads BY <1>1
<1> HIDE DEF Owners
<1> QED BY <1>1, <1>2, OwnersMembers

(* lock gives a unit only if there is one.                                 *)
LEMMA TakeOrBlockExclusion ==
  ASSUME IInv, TypeOK', NEW t \in Threads, NEW o \in Objs, NEW timeout \in Nat,
         NEW c \in {"lock", "relock"}, TakeOrBlock(t, o, timeout, c),
         UNCHANGED attr, pc[t] \in {"user", "ev_relock"},
         on'[t] = o, \A u \in Threads \ {t} : on'[u] = on[u]
  PROVE  MutualExclusion'
<1>0. TypeOK /\ c \in PCs BY DEF IInv, PCs
<1>1. ASSUME NEW p \in Objs, p # o PROVE MutexOK(p)'
  <2>1. /\ fifo'[p] = fifo[p] /\ value'[p] = value[p] /\ hold'[p] = hold[p]
        /\ \A u \in Threads \ {t} : pc'[u] = pc[u]
    <3>1. \/ /\ value' = [value EXCEPT ![o] = value[o] - 1]
             /\ hold' = [hold EXCEPT ![o] = hold[o] \union {t}]
             /\ pc' = [pc EXCEPT ![t] = "user"]
             /\ fifo' = fifo
          \/ /\ \A x \in Objs \ {o} : fifo'[x] = fifo[x]
             /\ pc' = [pc EXCEPT ![t] = c]
             /\ UNCHANGED <<value, hold>>
      BY <1>0, TakeOrBlockCases
    <3>2. ASSUME NEW u \in Threads \ {t} PROVE pc'[u] = pc[u]
      BY <1>0, <3>1, <3>2 DEF TypeOK
    <3>3. fifo'[p] = fifo[p]
      BY <1>1, <3>1
    <3>4. value'[p] = value[p] /\ hold'[p] = hold[p]
      <4>1. CASE /\ value' = [value EXCEPT ![o] = value[o] - 1]
                 /\ hold' = [hold EXCEPT ![o] = hold[o] \union {t}]
        BY <1>0, <1>1, <4>1 DEF TypeOK
      <4> QED BY <3>1, <4>1
    <3> QED BY <3>2, <3>3, <3>4
  <2>2. t \in Owners(p)' => t \in Owners(p)
    BY <1>1, <2>1 DEF Owners, Granted
  <2>3. Owners(p)' \subseteq Owners(p) BY <1>0, <2>1, <2>2, SameOwners
  <2> QED BY <2>1, <2>3, ExclusionKept
<1>2. MutexOK(o)'
  <2>1. CASE /\ value[o] > 0
             /\ value' = [value EXCEPT ![o] = value[o] - 1]
             /\ hold' = [hold EXCEPT ![o] = hold[o] \union {t}]
             /\ pc' = [pc EXCEPT ![t] = "user"]
             /\ fifo' = fifo
    <3> SUFFICES ASSUME attr[o] # NoAttr, Kind(o) # "SEMAPHORE"
                 PROVE  MutexOK(o)'
      BY DEF MutexOK, Kind
    <3>1. Owners(o) = {} BY <2>1 DEF IInv, MutualExclusion
    <3>2. value'[o] = 0
      <4>1. value[o] <= 1 /\ value[o] \in Nat
        BY <1>0 DEF IInv, CallsMatchStates, TypeOK
      <4> QED BY <1>0, <2>1, <4>1 DEF TypeOK
    <3>3. ASSUME NEW u \in Owners(o)' PROVE u = t
      <4> SUFFICES ASSUME u # t PROVE u \in Owners(o)
        BY <3>1
      <4>1. /\ u \in Threads
            /\ \/ u \in hold'[o]
               \/ /\ pc'[u] \in {"lock", "relock"} /\ on'[u] = o
                  /\ u \notin ToSet(fifo'[o])
        BY DEF TypeOK, Owners, Granted
      <4>2. pc'[u] = pc[u] /\ (u \in hold'[o] => u \in hold[o])
        BY <1>0, <2>1, <4>1 DEF TypeOK
      <4> QED BY <1>0, <2>1, <4>1, <4>2, OwnersMembers
    <3> HIDE DEF Owners
    <3> QED BY <3>2, <3>3 DEF MutexOK
  <2>2. CASE /\ value[o] = 0
             /\ ToSet(fifo'[o]) = ToSet(fifo[o]) \union {t}
             /\ pc' = [pc EXCEPT ![t] = c]
             /\ UNCHANGED <<value, hold>>
    <3>1. t \in Owners(o)' => t \in Owners(o)
      BY <2>2 DEF Owners, Granted
    <3>2. \A u \in Threads \ {t} : pc'[u] = pc[u]
      BY <1>0, <2>2 DEF TypeOK
    <3>3. Owners(o)' \subseteq Owners(o)
      BY <1>0, <2>2, <3>1, <3>2, SameOwners
    <3> QED BY <2>2, <3>3, ExclusionKept
  <2> QED BY <1>0, <2>1, <2>2, TakeOrBlockCases
<1> QED BY <1>1, <1>2 DEF MutualExclusion, MutexOK

(* The only owner gives the object up, or to the head of the queue.        *)
LEMMA ReleaseExclusion ==
  ASSUME IInv, TypeOK', NEW t \in Threads, NEW o \in Objs, Release(o),
         UNCHANGED attr, MayUnlock(t, o), pc[t] = "user",
         pc'[t] \notin {"lock", "relock"},
         hold' = [hold EXCEPT ![o] = @ \ {t}],
         \A u \in Threads \ {t} : on'[u] = on[u] /\ pc'[u] = pc[u]
  PROVE  MutualExclusion'
<1>0. TypeOK BY DEF IInv
<1>1. ASSUME NEW p \in Objs, p # o PROVE MutexOK(p)'
  <2>1. fifo'[p] = fifo[p] /\ value'[p] = value[p] /\ hold'[p] = hold[p]
    <3>1. \/ /\ value' = [value EXCEPT ![o] = value'[o]] /\ fifo' = fifo
          \/ /\ fifo' = [fifo EXCEPT ![o] = Tail(fifo[o])] /\ value' = value
      BY <1>0, ReleaseCases
    <3> QED BY <1>0, <1>1, <3>1 DEF TypeOK
  <2>2. t \in Owners(p)' => t \in Owners(p) BY <2>1 DEF Owners, Granted
  <2>3. Owners(p)' \subseteq Owners(p) BY <1>0, <2>1, <2>2, SameOwners
  <2> QED BY <2>1, <2>3, ExclusionKept
<1>2. MutexOK(o)'
  <2> SUFFICES ASSUME attr[o] # NoAttr, Kind(o) # "SEMAPHORE"
               PROVE  MutexOK(o)'
    BY DEF MutexOK, Kind
  <2>1. /\ t \in hold[o] /\ t \in Owners(o)
        /\ \A u, v \in Owners(o) : u = v
        /\ ~ (value[o] > 0)
    BY DEF MayUnlock, Owners, IInv, MutualExclusion
  <2>2. ASSUME NEW u \in Threads PROVE u \notin hold'[o]
    <3>1. u \in hold[o] => u = t BY <2>1 DEF Owners
    <3> QED BY <1>0, <3>1 DEF TypeOK
  <2>3. ASSUME NEW u \in Threads, pc'[u] \in {"lock", "relock"}, on'[u] = o
        PROVE  u \in ToSet(fifo[o])
    <3>1. u # t /\ pc[u] \in {"lock", "relock"} /\ on[u] = o BY <2>3
    <3>2. u \notin Owners(o) BY <2>1, <3>1
    <3> HIDE DEF Owners
    <3> QED BY <1>0, <3>1, <3>2, OwnersMembers
  <2>4. ASSUME NEW u \in Owners(o)'
        PROVE  /\ u \in Threads /\ u \in ToSet(fifo[o])
               /\ u \notin ToSet(fifo'[o])
    <3>1. /\ u \in Threads
          /\ \/ u \in hold'[o]
             \/ /\ pc'[u] \in {"lock", "relock"} /\ on'[u] = o
                /\ u \notin ToSet(fifo'[o])
      BY DEF TypeOK, Owners, Granted
    <3> QED BY <2>2, <2>3, <3>1
  <2>5. CASE fifo' = fifo
    <3>1. Owners(o)' = {} BY <2>4, <2>5
    <3> HIDE DEF Owners
    <3> QED BY <3>1 DEF MutexOK
  <2>6. CASE /\ fifo[o] # <<>> /\ fifo' = [fifo EXCEPT ![o] = Tail(fifo[o])]
             /\ value' = value
    <3>1. fifo[o] \in Seq(Threads) /\ fifo'[o] = Tail(fifo[o])
      BY <1>0, <2>6 DEF TypeOK
    <3>2. ToSet(fifo[o]) = ToSet(Tail(fifo[o])) \union {Head(fifo[o])}
      BY <2>6, <3>1, DequeueProperties
    <3>3. \A u \in Owners(o)' : u = Head(fifo[o]) BY <2>4, <3>1, <3>2
    <3>4. ~ (value'[o] > 0) BY <2>1, <2>6
    <3> HIDE DEF Owners
    <3> QED BY <3>3, <3>4 DEF MutexOK
  <2> QED BY <1>0, <2>5, <2>6, ReleaseCases
<1> QED BY <1>1, <1>2 DEF MutualExclusion, MutexOK

(* A thread that returns from lock with the object was its owner already:  *)
(* unlock had taken it out of the queue.                                   *)
LEMMA ReturnExclusion ==
  ASSUME IInv, TypeOK', NEW t \in Threads, UNCHANGED <<attr, value, on>>,
         pc[t] \in {"lock", "relock"}, pc'[t] \notin {"lock", "relock"},
         \A u \in Threads \ {t} : pc'[u] = pc[u],
         \A p \in Objs : \A u \in Threads \ {t} :
           u \in ToSet(fifo[p]) => u \in ToSet(fifo'[p]),
         \/ hold' = hold
         \/ /\ hold' = [hold EXCEPT ![on[t]] = @ \union {t}]
            /\ t \notin ToSet(fifo[on[t]])
  PROVE  MutualExclusion'
<1>0. TypeOK /\ on[t] \in Objs BY DEF IInv, TypeOK
<1>1. ASSUME NEW p \in Objs PROVE MutexOK(p)'
  <2>1. \A u \in Threads \ {t} : u \in hold'[p] => u \in hold[p]
    <3>1. hold'[p] \subseteq hold[p] \union {t}
      <4>1. CASE hold' = hold BY <4>1
      <4>2. CASE hold' = [hold EXCEPT ![on[t]] = @ \union {t}]
        <5>1. hold'[p] = hold[p] \/ hold'[p] = hold[p] \union {t}
          BY <1>0, <4>2 DEF TypeOK
        <5> QED BY <5>1
      <4> QED BY <4>1, <4>2
    <3> QED BY <3>1
  <2>2. ASSUME t \in Owners(p)' PROVE t \in Owners(p)
    <3>1. t \in hold'[p] BY <2>2 DEF Owners, Granted
    <3>2. CASE t \in hold[p] BY <3>2 DEF Owners
    <3>3. CASE t \notin hold[p]
      <4>1. p = on[t] /\ t \notin ToSet(fifo[p])
        BY <1>0, <3>1, <3>3 DEF TypeOK
      <4> QED BY <4>1 DEF Owners, Granted
    <3> QED BY <3>2, <3>3
  <2>3. Owners(p)' \subseteq Owners(p) BY <1>0, <2>1, <2>2, SameOwners
  <2> QED BY <2>3, ExclusionKept
<1> QED BY <1>1 DEF MutualExclusion, MutexOK

(* No step gives a mutex or an event's object to a second thread.          *)
LEMMA StepExclusion == IInv /\ [Next]_vars => MutualExclusion'
<1> SUFFICES ASSUME IInv, [Next]_vars PROVE MutualExclusion'
  OBVIOUS
<1>0. /\ TypeOK /\ TypeOK'
      /\ 0 \in Nat /\ \A x \in Timeouts : x \in Nat
      /\ \A t \in Threads : on[t] \in Objs
  BY StepType, ConstantsAssumption DEF IInv, TypeOK
<1>1. ASSUME NEW o \in Objs, NEW a \in Attrs, Create(o, a)
      PROVE  MutualExclusion'
  <2>1. ASSUME NEW p \in Objs PROVE Owners(p)' = {}
    <3>1. hold'[p] = {} /\ \A t \in Threads : pc'[t] = "user"
      BY <1>1 DEF IInv, CallsMatchStates, Create, threadVars
    <3> QED BY <3>1 DEF Owners, Granted
  <2> HIDE DEF Owners
  <2> QED BY <2>1 DEF MutualExclusion
<1>2. CASE StartNormal \/ UNCHANGED vars
  BY <1>2 DEF IInv, StartNormal, vars, objVars, threadVars, MutualExclusion,
              Owners, Granted, Kind
<1>3. ASSUME NEW t \in Threads, NEW o \in Objs, NEW timeout \in Timeouts,
             Lock(t, o, timeout)
      PROVE  MutualExclusion'
  <2>1. on'[t] = o /\ \A u \in Threads \ {t} : on'[u] = on[u]
    BY <1>0, <1>3 DEF Lock, TypeOK
  <2> QED BY <1>0, <1>3, <2>1, TakeOrBlockExclusion DEF Lock, Call
<1>4. ASSUME NEW t \in Threads, LockReturn(t) PROVE MutualExclusion'
  <2>1. /\ UNCHANGED <<attr, value, on>> /\ pc[t] = "lock" /\ pc'[t] = "user"
        /\ \A u \in Threads \ {t} : pc'[u] = pc[u]
    BY <1>0, <1>4 DEF LockReturn, TypeOK
  <2>2. CASE DeadlinePassed(t)
    <3>1. ASSUME NEW p \in Objs, NEW u \in Threads, u # t, u \in ToSet(fifo[p])
          PROVE  u \in ToSet(fifo'[p])
      <4>1. fifo'[p] \in {fifo[p], RemoveThread(fifo[p], t)}
        BY <1>0, <1>4, <2>2 DEF LockReturn, TypeOK
      <4>2. fifo[p] \in Seq(Threads) BY <1>0 DEF TypeOK
      <4> QED BY <3>1, <4>1, <4>2, LeaveOthers
    <3>2. hold' = hold BY <1>4, <2>2 DEF LockReturn
    <3> QED BY <1>0, <2>1, <3>1, <3>2, ReturnExclusion
  <2>3. CASE ~ DeadlinePassed(t)
    <3>1. /\ hold' = [hold EXCEPT ![on[t]] = @ \union {t}] /\ fifo' = fifo
      BY <1>4, <2>3 DEF LockReturn
    <3>2. ~ Waits(t) BY <1>4, <2>3 DEF LockReturn, CanRun, Waits, Blocked
    <3>3. t \notin ToSet(fifo[on[t]]) BY <1>0, <3>2, NotQueued
    <3> QED BY <1>0, <2>1, <3>1, <3>3, ReturnExclusion
  <2> QED BY <2>2, <2>3
<1>5. ASSUME NEW t \in Threads, NEW o \in Objs, Unlock(t, o)
      PROVE  MutualExclusion'
  BY <1>0, <1>5, ReleaseExclusion DEF Unlock, Call
<1>6. ASSUME NEW t \in Threads, NEW o \in Objs, EventWait(t, o)
      PROVE  MutualExclusion'
  <2>1. /\ \A u \in Threads \ {t} : on'[u] = on[u] /\ pc'[u] = pc[u]
        /\ pc'[t] = "ev_enqueue"
    BY <1>0, <1>6 DEF EventWait, TypeOK
  <2> QED BY <1>0, <1>6, <2>1, ReleaseExclusion DEF EventWait, Call
<1>7. ASSUME NEW t \in Threads, EventLock(t) PROVE MutualExclusion'
  BY <1>0, <1>7, TakeOrBlockExclusion DEF EventLock
<1>8. ASSUME NEW t \in Threads, EventLockReturn(t) PROVE MutualExclusion'
  <2>1. /\ UNCHANGED <<attr, value, on, fifo>>
        /\ pc[t] = "relock" /\ pc'[t] = "user"
        /\ \A u \in Threads \ {t} : pc'[u] = pc[u]
        /\ hold' = [hold EXCEPT ![on[t]] = @ \union {t}]
    BY <1>0, <1>8 DEF EventLockReturn, TypeOK, objVars
  <2>2. ~ Waits(t)
    BY <1>8, AllMatch
    DEF IInv, ThreadMatches, EventLockReturn, CanRun, Waits, Blocked,
        DeadlinePassed
  <2>3. t \notin ToSet(fifo[on[t]]) BY <1>0, <2>2, NotQueued
  <2> QED BY <1>0, <2>1, <2>3, ReturnExclusion
<1>9. ASSUME NEW t \in Threads,
             \/ \E timeout \in Timeouts : EventEnqueue(t, timeout)
             \/ EventReturn(t)
      PROVE  MutualExclusion'
  <2>1. /\ UNCHANGED <<attr, value, fifo, on, hold>>
        /\ \A u \in Threads \ {t} : pc'[u] = pc[u]
        /\ pc'[t] \in {"ev_wait", "ev_relock"}
    BY <1>0, <1>9 DEF EventEnqueue, EventReturn, TypeOK
  <2>2. ASSUME NEW p \in Objs PROVE MutexOK(p)'
    <3>1. t \in Owners(p)' => t \in Owners(p) BY <2>1 DEF Owners, Granted
    <3>2. Owners(p)' \subseteq Owners(p) BY <1>0, <2>1, <3>1, SameOwners
    <3> QED BY <1>0, <2>1, <3>2, ExclusionKept
  <2> QED BY <2>2 DEF MutualExclusion, MutexOK
<1>10. CASE UNCHANGED <<attr, value, fifo, pc, on, hold>>
  BY <1>10 DEF IInv, MutualExclusion, Owners, Granted, Kind
<1>11. ASSUME NEW t \in Threads, NEW o \in Objs, Signal(t, o) \/ Broadcast(t, o)
       PROVE  MutualExclusion'
  BY <1>10, <1>11 DEF Signal, Broadcast
<1>12. CASE Tick \/ \E p \in Procs : WakeExpired(p)
  BY <1>10, <1>12 DEF Tick, WakeExpired, objVars
<1> QED BY <1>1, <1>2, <1>3, <1>4, <1>5, <1>6, <1>7, <1>8, <1>9, <1>11, <1>12
        DEF Next, ThreadStep
-----------------------------------------------------------------------------
(* The invariant holds when the objects are created.                       *)
LEMMA InitInv == Init => IInv
<1> SUFFICES ASSUME Init PROVE IInv
  OBVIOUS
<1>1. ToSet(<<>>) = {} /\ Distinct(<<>>) BY EmptyQueue
<1>2. CallsMatchStates BY DEF Init, CallsMatchStates, Kind
<1>3. NoIdleResource BY DEF Init, NoIdleResource
<1>4. QueuedIsWaiting BY <1>1 DEF Init, QueuedIsWaiting
<1>5. BlockedIsQueued BY DEF Init, BlockedIsQueued, Blocked
<1>6. MutualExclusion BY DEF Init, MutualExclusion
<1> QED BY <1>2, <1>3, <1>4, <1>5, <1>6, InitType DEF IInv

(* The conjunction of the invariants is inductive.                         *)
LEMMA Invariance == Spec => []IInv
<1>1. IInv /\ [Next]_vars => IInv'
  BY StepType, StepMatches, StepIdle, StepQueued, StepBlocked, StepExclusion
  DEF IInv
<1> QED BY <1>1, InitInv, PTL DEF Spec

(* The assertions of pok_lockobj_lock and pok_lockobj_unlock never fail.   *)
THEOREM ResourceNeverIdle == Spec => []NoIdleResource
BY Invariance, PTL DEF IInv

(* Threads outside their calls are not blocked, and only semaphores count. *)
THEOREM CallsConsistent == Spec => []CallsMatchStates
BY Invariance, PTL DEF IInv

(* No queue keeps a thread that has left its call.                         *)
THEOREM QueuesHoldWaiters == Spec => []QueuedIsWaiting
BY Invariance, PTL DEF IInv

(* No blocked thread is out of reach of unlock, signal and broadcast.      *)
THEOREM BlockedReachable == Spec => []BlockedIsQueued
BY Invariance, PTL DEF IInv

(* A mutex has at most one owner.                                          *)
THEOREM Exclusion == Spec => []MutualExclusion
BY Invariance, PTL DEF IInv
-----------------------------------------------------------------------------
(* To whom and when lock objects are handed over: a semaphore keeps within *)
(* its bound, signals are not lost, objects go to the thread of the        *)
(* highest priority, and a thread they are given to gets them.             *)

(* A semaphore with sensible attributes, and its bound.                    *)
Bounded(o) == /\ attr[o] # NoAttr /\ Kind(o) = "SEMAPHORE"
              /\ 0 < attr[o].max_value
              /\ attr[o].initial_value <= attr[o].max_value

(* unlock counts up to the maximum only.                                   *)
LEMMA ReleaseBounded ==
  ASSUME TypeOK, SemaphoreBounded, NEW o \in Objs, Release(o),
         UNCHANGED attr
  PROVE  SemaphoreBounded'
<1> SUFFICES ASSUME NEW p \in Objs, Bounded(p)
             PROVE  value'[p] <= attr[p].max_value
  BY DEF SemaphoreBounded, Bounded, Kind
<1>0. /\ value[p] \in Nat /\ attr[p].max_value \in Nat
      /\ Kind(p) = "SEMAPHORE"
      /\ value[p] <= attr[p].max_value /\ 0 < attr[p].max_value
  BY DEF TypeOK, Bounded, SemaphoreBounded, AttrType
<1>1. CASE p # o
  <2>1. value'[p] = value[p] BY <1>1 DEF TypeOK, Release
  <2> QED BY <1>0, <2>1
<1>2. CASE p = o
  <2>1. \/ value'[p] \in {value[p], 1}
        \/ value'[p] = value[p] + 1 /\ value[p] < attr[p].max_value
    BY <1>0, <1>2 DEF TypeOK, Release
  <2> QED BY <1>0, <2>1
<1> QED BY <1>1, <1>2

(* lock never adds to a semaphore.                                         *)
LEMMA TakeOrBlockBounded ==
  ASSUME TypeOK, SemaphoreBounded, UNCHANGED attr,
         NEW t \in Threads, NEW o \in Objs, NEW timeout, NEW c,
         TakeOrBlock(t, o, timeout, c)
  PROVE  SemaphoreBounded'
<1> SUFFICES ASSUME NEW p \in Objs, Bounded(p)
             PROVE  value'[p] <= attr[p].max_value
  BY DEF SemaphoreBounded, Bounded, Kind
<1>0. /\ value[p] \in Nat /\ attr[p].max_value \in Nat
      /\ value[p] <= attr[p].max_value
  BY DEF TypeOK, Bounded, SemaphoreBounded, AttrType
<1>1. value'[p] \in {value[p], value[p] - 1}
  BY DEF TypeOK, TakeOrBlock
<1> QED BY <1>0, <1>1

(* Every step keeps the semaphores within their bounds.                    *)
LEMMA StepBounded == TypeOK /\ SemaphoreBounded /\ [Next]_vars => SemaphoreBounded'
<1> SUFFICES ASSUME TypeOK, SemaphoreBounded, [Next]_vars
             PROVE  SemaphoreBounded'
  OBVIOUS
<1>1. ASSUME NEW o \in Objs, NEW a \in Attrs, Create(o, a)
      PROVE  SemaphoreBounded'
  <2> SUFFICES ASSUME NEW p \in Objs, Bounded(p)'
               PROVE  value'[p] <= attr'[p].max_value
    BY DEF SemaphoreBounded, Bounded, Kind
  <2>1. CASE p = o
    <3>1. a \in AttrType BY ConstantsAssumption
    <3>2. CASE a.kind = "SEMAPHORE"
      <4>1. attr'[p] = a /\ value'[p] = a.initial_value
        BY <1>1, <2>1, <3>2 DEF Create, TypeOK
      <4> QED BY <4>1 DEF Bounded
    <3>3. CASE a.kind # "SEMAPHORE"
      <4>1. attr'[p].kind = a.kind
        BY <1>1, <2>1, <3>1 DEF Create, TypeOK, AttrType
      <4> QED BY <3>3, <4>1 DEF Bounded, Kind
    <3> QED BY <3>2, <3>3
  <2>2. CASE p # o
    <3>1. attr'[p] = attr[p] /\ value'[p] = value[p]
      BY <1>1, <2>2 DEF Create, TypeOK
    <3> QED BY <3>1 DEF Bounded, Kind, SemaphoreBounded
  <2> QED BY <2>1, <2>2
<1>2. CASE UNCHANGED <<attr, value>>
  BY <1>2 DEF SemaphoreBounded, Kind
<1>3. CASE StartNormal \/ Tick \/ UNCHANGED vars
           \/ \E p \in Procs : WakeExpired(p)
  BY <1>2, <1>3 DEF StartNormal, Tick, WakeExpired, vars, objVars
<1>4. ASSUME NEW t \in Threads, ThreadStep(t) PROVE SemaphoreBounded'
  <2>1. on[t] \in Objs BY DEF TypeOK
  <2> QED
    BY <1>2, <1>4, <2>1, ReleaseBounded, TakeOrBlockBounded
    DEF ThreadStep, Lock, LockReturn, Unlock, EventWait, EventEnqueue,
        EventReturn, EventLock, EventLockReturn, Signal, Broadcast, objVars
<1> QED BY <1>1, <1>3, <1>4 DEF Next

(* However many threads signal it, a semaphore stays within its bound.     *)
THEOREM SemaphoresBounded == Spec => []SemaphoreBounded
<1>1. Init => SemaphoreBounded BY DEF Init, SemaphoreBounded
<1> QED BY <1>1, StepBounded, TypeCorrect, PTL DEF Spec
-----------------------------------------------------------------------------
(* eventspin is held by the thread that is about to queue for the event,   *)
(* and so keeps everybody else out.                                        *)
SpinHeld == \A t \in Threads : pc[t] = "ev_enqueue" => eventspin[on[t]] = t

(* Threads outside the first half of eventwait do not disturb SpinHeld.    *)
LEMMA SpinKept ==
  ASSUME SpinHeld, NEW t \in Threads, UNCHANGED eventspin,
         \A u \in Threads \ {t} : pc'[u] = pc[u] /\ on'[u] = on[u],
         pc'[t] # "ev_enqueue"
  PROVE  SpinHeld'
BY DEF SpinHeld

(* Every step keeps the spin lock with the thread that took it.            *)
LEMMA StepSpin == TypeOK /\ SpinHeld /\ [Next]_vars => SpinHeld'
<1> SUFFICES ASSUME TypeOK, SpinHeld, [Next]_vars PROVE SpinHeld'
  OBVIOUS
<1>1. ASSUME NEW o \in Objs, NEW a \in Attrs, Create(o, a) PROVE SpinHeld'
  BY <1>1 DEF Create, SpinHeld, threadVars
<1>2. CASE StartNormal \/ Tick \/ UNCHANGED vars
           \/ \E p \in Procs : WakeExpired(p)
  BY <1>2 DEF StartNormal, Tick, WakeExpired, vars, objVars, threadVars,
              SpinHeld
<1>3. ASSUME NEW t \in Threads, NEW o \in Objs, NEW timeout \in Timeouts,
             Lock(t, o, timeout)
      PROVE  SpinHeld'
  <2>1. /\ UNCHANGED eventspin /\ pc'[t] \in {"user", "lock"}
        /\ \A u \in Threads \ {t} : pc'[u] = pc[u] /\ on'[u] = on[u]
    BY <1>3 DEF Lock, TakeOrBlock, TypeOK
  <2> QED BY <2>1, SpinKept
<1>4. ASSUME NEW t \in Threads, EventLock(t) PROVE SpinHeld'
  <2>1. /\ UNCHANGED eventspin /\ pc'[t] \in {"user", "relock"}
        /\ \A u \in Threads \ {t} : pc'[u] = pc[u] /\ on'[u] = on[u]
    BY <1>4 DEF EventLock, TakeOrBlock, TypeOK
  <2> QED BY <2>1, SpinKept
<1>5. ASSUME NEW t \in Threads,
             LockReturn(t) \/ EventReturn(t) \/ EventLockReturn(t)
      PROVE  SpinHeld'
  <2>1. /\ UNCHANGED <<eventspin, on>> /\ pc'[t] \in {"user", "ev_relock"}
        /\ \A u \in Threads \ {t} : pc'[u] = pc[u]
    BY <1>5 DEF LockReturn, EventReturn, EventLockReturn, TypeOK, objVars
  <2> QED BY <2>1, SpinKept
<1>6. ASSUME NEW t \in Threads, NEW o \in Objs,
             Unlock(t, o) \/ Signal(t, o) \/ Broadcast(t, o)
      PROVE  SpinHeld'
  BY <1>6 DEF Unlock, Signal, Broadcast, SpinHeld
<1>7. ASSUME NEW t \in Threads, NEW o \in Objs, EventWait(t, o)
      PROVE  SpinHeld'
  <2>1. /\ eventspin[o] = NoThread /\ NoThread \notin Threads
        /\ eventspin' = [eventspin EXCEPT ![o] = t]
        /\ on'[t] = o
        /\ \A u \in Threads \ {t} : pc'[u] = pc[u] /\ on'[u] = on[u]
    BY <1>7, ConstantsAssumption DEF EventWait, EventSpinFree, TypeOK
  <2>2. ASSUME NEW u \in Threads, pc'[u] = "ev_enqueue"
        PROVE  eventspin'[on'[u]] = u
    <3>1. CASE u = t BY <2>1, <3>1 DEF TypeOK
    <3>2. CASE u # t
      <4>1. eventspin[on[u]] = u BY <2>1, <2>2, <3>2 DEF SpinHeld
      <4>2. on[u] # o BY <2>1, <4>1
      <4> QED BY <2>1, <3>2, <4>1, <4>2 DEF TypeOK
    <3> QED BY <3>1, <3>2
  <2> QED BY <2>2 DEF SpinHeld
<1>8. ASSUME NEW t \in Threads, NEW timeout \in Timeouts,
             EventEnqueue(t, timeout)
      PROVE  SpinHeld'
  <2>1. /\ eventspin[on[t]] = t
        /\ eventspin' = [eventspin EXCEPT ![on[t]] = NoThread]
        /\ on' = on /\ pc'[t] = "ev_wait"
        /\ \A u \in Threads \ {t} : pc'[u] = pc[u]
    BY <1>8 DEF EventEnqueue, SpinHeld, TypeOK
  <2>2. ASSUME NEW u \in Threads, pc'[u] = "ev_enqueue"
        PROVE  eventspin'[on'[u]] = u
    <3>1. u # t /\ eventspin[on[u]] = u BY <2>1, <2>2 DEF SpinHeld
    <3>2. on[u] # on[t] BY <2>1, <3>1
    <3> QED BY <2>1, <3>1, <3>2 DEF TypeOK
  <2> QED BY <2>2 DEF SpinHeld
<1> QED BY <1>1, <1>2, <1>3, <1>4, <1>5, <1>6, <1>7, <1>8
        DEF Next, ThreadStep

(* Whoever signals or broadcasts meets every waiter in the queue.          *)
LEMMA StepSignals ==
  ASSUME IInv, SpinHeld
  PROVE  \A t, u \in Threads : \A o \in Objs :
           /\ Signal(t, o) /\ ret'[t] = "NOTFOUND" =>
                ~ (pc[u] = "ev_enqueue" /\ on[u] = o)
           /\ Broadcast(t, o) /\ pc[u] = "ev_wait" /\ on[u] = o =>
                state'[u] = "RUNNABLE"
<1> SUFFICES ASSUME NEW t \in Threads, NEW u \in Threads, NEW o \in Objs
             PROVE  /\ Signal(t, o) /\ ret'[t] = "NOTFOUND" =>
                         ~ (pc[u] = "ev_enqueue" /\ on[u] = o)
                    /\ Broadcast(t, o) /\ pc[u] = "ev_wait" /\ on[u] = o =>
                         state'[u] = "RUNNABLE"
  OBVIOUS
<1>1. ASSUME Signal(t, o), pc[u] = "ev_enqueue", on[u] = o PROVE FALSE
  <2>1. eventspin[o] = NoThread /\ NoThread \notin Threads
    BY <1>1, ConstantsAssumption DEF Signal, EventSpinFree
  <2> QED BY <1>1, <2>1 DEF SpinHeld
<1>2. ASSUME Broadcast(t, o), pc[u] = "ev_wait", on[u] = o
      PROVE  state'[u] = "RUNNABLE"
  <2>1. state'[u] = IF u \in ToSet(event_fifo[o]) THEN "RUNNABLE" ELSE state[u]
    BY <1>2 DEF Broadcast
  <2>2. state[u] \in Blocked => u \in ToSet(event_fifo[o])
    BY <1>2 DEF IInv, BlockedIsQueued
  <2>3. state[u] \in Blocked \union {"RUNNABLE"} BY DEF IInv, TypeOK
  <2> QED BY <2>1, <2>2, <2>3
<1> QED BY <1>1, <1>2

(* No signal is lost between the two halves of eventwait, and a broadcast  *)
(* leaves nobody blocked.                                                  *)
THEOREM SignalsReachWaiters == Spec => NoLostSignal
<1>1. Init => SpinHeld BY DEF Init, SpinHeld
<1>2. IInv /\ SpinHeld =>
        [\A t, u \in Threads : \A o \in Objs :
           /\ Signal(t, o) /\ ret'[t] = "NOTFOUND" =>
                ~ (pc[u] = "ev_enqueue" /\ on[u] = o)
           /\ Broadcast(t, o) /\ pc[u] = "ev_wait" /\ on[u] = o =>
                state'[u] = "RUNNABLE"]_vars
  BY StepSignals
<1> QED BY <1>1, <1>2, StepSpin, TypeCorrect, Invariance, PTL
        DEF Spec, NoLostSignal
-----------------------------------------------------------------------------
(* The queue of an object with the discipline PRIORITY is sorted.          *)
ByPriority(o) == attr[o] # NoAttr /\ attr[o].queueing_policy = "PRIORITY"

QueuesSorted == \A o \in Objs : ByPriority(o) => SortedByPriority(fifo[o], Prio)

(* The first section of lock inserts its caller by priority.               *)
LEMMA TakeOrBlockSorted ==
  ASSUME TypeOK, QueuesSorted, UNCHANGED attr,
         NEW t \in Threads, NEW o \in Objs, NEW timeout, NEW c,
         TakeOrBlock(t, o, timeout, c)
  PROVE  QueuesSorted'
<1> SUFFICES ASSUME NEW p \in Objs, ByPriority(p)
             PROVE  SortedByPriority(fifo'[p], Prio)
  BY DEF QueuesSorted, ByPriority
<1>0. /\ SortedByPriority(fifo[p], Prio) /\ attr[p].queueing_policy # "FIFO"
      /\ fifo[p] \in Seq(Threads) /\ Prio \in [Threads -> Nat]
  BY ConstantsAssumption DEF TypeOK, QueuesSorted, ByPriority
<1>1. CASE fifo'[p] = fifo[p] BY <1>0, <1>1
<1>2. CASE p = o /\ fifo'[p] = Enqueue(fifo[p], t, attr[p].queueing_policy, Prio)
  BY <1>0, <1>2, EnqueueSorted
<1>3. \/ fifo'[p] = fifo[p]
      \/ p = o /\ fifo'[p] = Enqueue(fifo[p], t, attr[p].queueing_policy, Prio)
  BY DEF TakeOrBlock, TypeOK
<1> QED BY <1>1, <1>2, <1>3

(* Taking out the head keeps the others in order.                          *)
LEMMA ReleaseSorted ==
  ASSUME TypeOK, QueuesSorted, UNCHANGED attr, NEW o \in Objs, Release(o)
  PROVE  QueuesSorted'
<1> SUFFICES ASSUME NEW p \in Objs, ByPriority(p)
             PROVE  SortedByPriority(fifo'[p], Prio)
  BY DEF QueuesSorted, ByPriority
<1>0. /\ SortedByPriority(fifo[p], Prio)
      /\ fifo[p] \in Seq(Threads) /\ Prio \in [Threads -> Nat]
  BY ConstantsAssumption DEF TypeOK, QueuesSorted
<1>1. CASE fifo'[p] = fifo[p] BY <1>0, <1>1
<1>2. CASE fifo[p] # <<>> /\ fifo'[p] = Tail(fifo[p])
  BY <1>0, <1>2, DequeueSorted
<1>3. CASE UNCHANGED fifo BY <1>1, <1>3
<1>4. CASE fifo[o] # <<>> /\ fifo' = [fifo EXCEPT ![o] = Tail(@)]
  <2>1. CASE p # o
    <3>1. fifo'[p] = fifo[p] BY <1>4, <2>1 DEF TypeOK
    <3> QED BY <3>1, <1>1
  <2>2. CASE p = o
    <3>1. fifo'[o] = Tail(fifo[o]) BY <1>4 DEF TypeOK
    <3> QED BY <3>1, <1>2, <1>4, <2>2
  <2> QED BY <2>1, <2>2
<1> QED BY <1>3, <1>4 DEF Release

(* So does a thread that gives up.                                         *)
LEMMA LockReturnSorted ==
  ASSUME TypeOK, QueuesSorted, NEW t \in Threads, LockReturn(t)
  PROVE  QueuesSorted'
<1> SUFFICES ASSUME NEW p \in Objs, ByPriority(p)
             PROVE  SortedByPriority(fifo'[p], Prio)
  BY DEF LockReturn, QueuesSorted, ByPriority
<1>0. /\ SortedByPriority(fifo[p], Prio)
      /\ fifo[p] \in Seq(Threads) /\ Prio \in [Threads -> Nat]
  BY ConstantsAssumption DEF TypeOK, QueuesSorted
<1>1. CASE fifo'[p] = fifo[p] BY <1>0, <1>1
<1>2. CASE fifo'[p] = RemoveThread(fifo[p], t) BY <1>0, <1>2, RemoveSorted
<1>3. fifo'[p] \in {fifo[p], RemoveThread(fifo[p], t)}
  BY DEF LockReturn, TypeOK
<1> QED BY <1>1, <1>2, <1>3

(* Every step keeps the queues sorted.                                     *)
LEMMA StepSorted == TypeOK /\ QueuesSorted /\ [Next]_vars => QueuesSorted'
<1> SUFFICES ASSUME TypeOK, QueuesSorted, [Next]_vars PROVE QueuesSorted'
  OBVIOUS
<1>1. ASSUME NEW o \in Objs, NEW a \in Attrs, Create(o, a)
      PROVE  QueuesSorted'
  <2> SUFFICES ASSUME NEW p \in Objs, ByPriority(p)'
               PROVE  SortedByPriority(fifo'[p], Prio)
    BY DEF QueuesSorted
  <2>1. CASE p = o
    <3>1. fifo'[p] = <<>> BY <1>1, <2>1 DEF Create, TypeOK
    <3> QED BY <3>1, EmptySorted
  <2>2. CASE p # o
    <3>1. attr'[p] = attr[p] /\ fifo'[p] = fifo[p]
      BY <1>1, <2>2 DEF Create, TypeOK
    <3> QED BY <3>1 DEF ByPriority, QueuesSorted
  <2> QED BY <2>1, <2>2
<1>2. CASE UNCHANGED <<attr, fifo>>
  BY <1>2 DEF QueuesSorted, ByPriority
<1>3. CASE StartNormal \/ Tick \/ UNCHANGED vars
           \/ \E p \in Procs : WakeExpired(p)
  BY <1>2, <1>3 DEF StartNormal, Tick, WakeExpired, vars, objVars
<1>4. ASSUME NEW t \in Threads, ThreadStep(t) PROVE QueuesSorted'
  <2>1. on[t] \in Objs BY DEF TypeOK
  <2> QED
    BY <1>2, <1>4, <2>1, ReleaseSorted, TakeOrBlockSorted, LockReturnSorted
    DEF ThreadStep, Lock, Unlock, EventWait, EventEnqueue,
        EventReturn, EventLock, EventLockReturn, Signal, Broadcast, objVars
<1> QED BY <1>1, <1>3, <1>4 DEF Next
-----------------------------------------------------------------------------
(* What a step of u changes for the other threads: nobody but u enters a   *)
(* queue or another call, and nobody but u leaves or enters hold.          *)
LEMMA OthersKeep ==
  ASSUME TypeOK, NEW u \in Threads, ThreadStep(u)
  PROVE  /\ attr' = attr
         /\ \A t \in Threads \ {u} :
              /\ pc'[t] = pc[t] /\ on'[t] = on[t]
              /\ \A o \in Objs : /\ t \in hold'[o] <=> t \in hold[o]
                                 /\ t \in ToSet(fifo'[o]) => t \in ToSet(fifo[o])
<1> USE DEF TypeOK
<1>0. on[u] \in Objs /\ \A o \in Objs : fifo[o] \in Seq(Threads)
  OBVIOUS
<1>1. ASSUME NEW o \in Objs, NEW timeout \in Nat, NEW c \in PCs,
             TakeOrBlock(u, o, timeout, c)
      PROVE  \A t \in Threads \ {u} :
               /\ pc'[t] = pc[t]
               /\ \A p \in Objs :
                    /\ t \in hold'[p] <=> t \in hold[p]
                    /\ t \in ToSet(fifo'[p]) => t \in ToSet(fifo[p])
  <2>1. CASE /\ hold' = [hold EXCEPT ![o] = hold[o] \union {u}]
             /\ pc' = [pc EXCEPT ![u] = "user"]
             /\ fifo' = fifo
    BY <2>1
  <2>2. CASE /\ \A p \in Objs \ {o} : fifo'[p] = fifo[p]
             /\ ToSet(fifo'[o]) = ToSet(fifo[o]) \union {u}
             /\ pc' = [pc EXCEPT ![u] = c]
             /\ hold' = hold
    BY <2>2
  <2> QED BY <1>1, <2>1, <2>2, TakeOrBlockCases
<1>2. ASSUME NEW o \in Objs, Release(o)
      PROVE  \A p \in Objs : ToSet(fifo'[p]) \subseteq ToSet(fifo[p])
  <2>1. CASE fifo' = fifo BY <2>1
  <2>2. CASE fifo[o] # <<>> /\ fifo' = [fifo EXCEPT ![o] = Tail(fifo[o])]
    <3>1. ToSet(Tail(fifo[o])) \subseteq ToSet(fifo[o])
      BY <1>0, <2>2, DequeueProperties
    <3> QED BY <2>2, <3>1
  <2> QED BY <1>2, <2>1, <2>2, ReleaseCases
<1>3. 0 \in Nat /\ (\A x \in Timeouts : x \in Nat)
      /\ "lock" \in PCs /\ "relock" \in PCs
  BY ConstantsAssumption DEF PCs
<1>4. ASSUME NEW o \in Objs, NEW timeout \in Timeouts, Lock(u, o, timeout)
      PROVE  attr' = attr /\ \A t \in Threads \ {u} : on'[t] = on[t]
  BY <1>4 DEF Lock
<1>5. CASE \E o \in Objs, timeout \in Timeouts : Lock(u, o, timeout)
  BY <1>1, <1>3, <1>4, <1>5 DEF Lock
<1>6. CASE LockReturn(u)
  <2>1. \A p \in Objs : ToSet(fifo'[p]) \subseteq ToSet(fifo[p])
    <3>1. ToSet(RemoveThread(fifo[on[u]], u)) \subseteq ToSet(fifo[on[u]])
      BY <1>0, RemoveProperties
    <3> QED BY <1>0, <1>6, <3>1 DEF LockReturn
  <2>2. attr' = attr /\ on' = on /\ pc' = [pc EXCEPT ![u] = "user"]
    BY <1>6, Zenon DEF LockReturn
  <2>3. \A o \in Objs : hold'[o] \in {hold[o], hold[o] \union {u}}
    BY <1>6 DEF LockReturn
  <2>4. ASSUME NEW t \in Threads \ {u}, NEW o \in Objs
        PROVE  t \in hold'[o] <=> t \in hold[o]
    BY <2>3
  <2>5. \A t \in Threads \ {u} : pc'[t] = pc[t] /\ on'[t] = on[t] BY <2>2
  <2> QED BY <2>1, <2>2, <2>4, <2>5
<1>7. ASSUME NEW o \in Objs, Unlock(u, o) \/ EventWait(u, o)
      PROVE  /\ attr' = attr
             /\ \A t \in Threads \ {u} :
                  /\ pc'[t] = pc[t] /\ on'[t] = on[t]
                  /\ \A p \in Objs :
                       /\ t \in hold'[p] <=> t \in hold[p]
                       /\ t \in ToSet(fifo'[p]) => t \in ToSet(fifo[p])
  <2>1. Release(o) /\ attr' = attr
        /\ hold' = [hold EXCEPT ![o] = hold[o] \ {u}]
    BY <1>7 DEF Unlock, EventWait
  <2>2. \A t \in Threads \ {u} : pc'[t] = pc[t] /\ on'[t] = on[t]
    BY <1>7 DEF Unlock, EventWait
  <2>3. \A t \in Threads \ {u} : \A p \in Objs : t \in hold'[p] <=> t \in hold[p]
    BY <2>1
  <2> QED BY <1>2, <2>1, <2>2, <2>3
<1>8. CASE \/ \E timeout \in Timeouts : EventEnqueue(u, timeout)
           \/ EventReturn(u)
           \/ EventLockReturn(u)
           \/ \E o \in Objs : Signal(u, o) \/ Broadcast(u, o)
  <2>1. UNCHANGED <<attr, fifo, on>>
    BY <1>8
    DEF EventEnqueue, EventReturn, EventLockReturn, Signal, Broadcast, objVars
  <2>2. pc' = pc \/ \E c \in PCs : pc' = [pc EXCEPT ![u] = c]
    BY <1>8
    DEF EventEnqueue, EventReturn, EventLockReturn, Signal, Broadcast, PCs,
        InKernel
  <2>3. hold' = hold \/ hold' = [hold EXCEPT ![on[u]] = hold[on[u]] \union {u}]
    BY <1>8
    DEF EventEnqueue, EventReturn, EventLockReturn, Signal, Broadcast
  <2>4. \A t \in Threads \ {u} : pc'[t] = pc[t] BY <2>2
  <2>5. \A t \in Threads \ {u} : \A o \in Objs : t \in hold'[o] <=> t \in hold[o]
    BY <1>0, <2>3
  <2> QED BY <2>1, <2>4, <2>5
<1>9. CASE EventLock(u)
  BY <1>0, <1>1, <1>3, <1>9 DEF EventLock
<1> QED BY <1>5, <1>6, <1>7, <1>8, <1>9 DEF ThreadStep
-----------------------------------------------------------------------------
(* The clock, the elections and the start leave the queues alone, and so   *)
(* does the creation of an object for those that exist.                    *)
LEMMA QuietSteps ==
  ASSUME TypeOK, [Next]_vars, ~ \E u \in Threads : ThreadStep(u)
  PROVE  /\ UNCHANGED <<pc, on, timed, ret, hold>>
         /\ \A o \in Objs : /\ fifo'[o] \in {fifo[o], <<>>}
                            /\ attr[o] # NoAttr => fifo'[o] = fifo[o]
<1>1. ASSUME NEW p \in Objs, NEW a \in Attrs, Create(p, a)
      PROVE  /\ UNCHANGED <<pc, on, timed, ret, hold>>
             /\ \A o \in Objs : /\ fifo'[o] \in {fifo[o], <<>>}
                                /\ attr[o] # NoAttr => fifo'[o] = fifo[o]
  BY <1>1 DEF Create, threadVars, TypeOK
<1>2. CASE StartNormal \/ Tick \/ UNCHANGED vars
           \/ \E p \in Procs : WakeExpired(p)
  BY <1>2 DEF StartNormal, Tick, WakeExpired, vars, objVars, threadVars
<1> QED BY <1>1, <1>2 DEF Next

(* A thread leaves a queue because it gives up or because it is first.     *)
LEMMA QueueLeft ==
  ASSUME TypeOK, [Next]_vars, NEW o \in Objs, attr[o] # NoAttr,
         NEW t \in ToSet(fifo[o]), t \notin ToSet(fifo'[o])
  PROVE  \/ LockReturn(t)
         \/ fifo[o] # <<>> /\ t = Head(fifo[o]) /\ fifo'[o] = Tail(fifo[o])
<1>0. fifo[o] \in Seq(Threads) /\ t \in Threads /\ fifo'[o] # fifo[o]
  BY Members DEF TypeOK
<1>1. PICK u \in Threads : ThreadStep(u)
  BY <1>0, QuietSteps
<1>2. on[u] \in Objs /\ 0 \in Nat /\ (\A x \in Timeouts : x \in Nat)
      /\ "lock" \in PCs /\ "relock" \in PCs
  BY ConstantsAssumption DEF PCs, TypeOK
<1>3. ASSUME NEW p \in Objs, NEW timeout \in Nat, NEW c \in PCs,
             TakeOrBlock(u, p, timeout, c)
      PROVE  FALSE
  <2>1. \/ fifo' = fifo
        \/ /\ \A x \in Objs \ {p} : fifo'[x] = fifo[x]
           /\ ToSet(fifo'[p]) = ToSet(fifo[p]) \union {u}
    BY <1>3, TakeOrBlockCases
  <2>2. CASE p = o BY <1>0, <2>1, <2>2
  <2>3. CASE p # o BY <1>0, <2>1, <2>3
  <2> QED BY <2>2, <2>3
<1>4. CASE LockReturn(u)
  <2>1. fifo'[o] = RemoveThread(fifo[o], u)
    BY <1>0, <1>4 DEF LockReturn, TypeOK
  <2>2. ToSet(fifo[o]) \subseteq ToSet(fifo'[o]) \union {u}
    BY <1>0, <2>1, RemoveProperties
  <2> QED BY <1>4, <2>2
<1>5. ASSUME NEW p \in Objs, Release(p)
      PROVE  fifo[o] # <<>> /\ t = Head(fifo[o]) /\ fifo'[o] = Tail(fifo[o])
  <2>1. fifo[p] # <<>> /\ fifo' = [fifo EXCEPT ![p] = Tail(fifo[p])]
    BY <1>0, <1>5 DEF Release
  <2>2. p = o /\ fifo'[o] = Tail(fifo[o]) BY <1>0, <2>1 DEF TypeOK
  <2>3. t = Head(fifo[o]) BY <1>0, <2>1, <2>2, DequeueProperties
  <2> QED BY <2>1, <2>2, <2>3
<1>6. CASE fifo' = fifo BY <1>0, <1>6
<1> QED
  BY <1>1, <1>2, <1>3, <1>4, <1>5, <1>6
  DEF ThreadStep, Lock, Unlock, EventWait, EventEnqueue, EventReturn,
      EventLock, EventLockReturn, Signal, Broadcast, objVars

(* The thread that an object goes to is first in a sorted queue.           *)
LEMMA StepPriority ==
  ASSUME TypeOK, QueuesSorted, [Next]_vars
  PROVE  \A o \in Objs : \A t, u \in Threads :
           /\ attr[o] # NoAttr /\ attr[o].queueing_policy = "PRIORITY"
           /\ t \in Granted(o)' /\ t \in ToSet(fifo[o])
           /\ u \in ToSet(fifo[o])'
           => Prio[u] <= Prio[t]
<1> SUFFICES ASSUME NEW o \in Objs, NEW t \in Threads, NEW u \in Threads,
                    attr[o] # NoAttr, attr[o].queueing_policy = "PRIORITY",
                    t \in Granted(o)', t \in ToSet(fifo[o]),
                    u \in ToSet(fifo'[o])
             PROVE  Prio[u] <= Prio[t]
  OBVIOUS
<1>1. t \notin ToSet(fifo'[o]) /\ pc'[t] \in {"lock", "relock"}
  BY DEF Granted
<1>2. ~ LockReturn(t)
  BY <1>1 DEF LockReturn, TypeOK
<1>3. fifo[o] # <<>> /\ t = Head(fifo[o]) /\ fifo'[o] = Tail(fifo[o])
  BY <1>1, <1>2, QueueLeft
<1>4. /\ fifo[o] \in Seq(Threads) /\ SortedByPriority(fifo[o], Prio)
      /\ Prio \in [Threads -> Nat]
  BY ConstantsAssumption DEF TypeOK, QueuesSorted, ByPriority
<1>5. u \in ToSet(fifo[o]) BY <1>3, <1>4, DequeueProperties
<1> QED BY <1>3, <1>4, <1>5, DequeueSorted

(* Under the PRIORITY discipline no thread left in the queue has a higher  *)
(* priority than the one an object goes to, whoever gave up before.        *)
THEOREM GrantsByPriority == Spec => GrantByPriority
<1>1. Init => QueuesSorted BY DEF Init, QueuesSorted, ByPriority
<1>2. TypeOK /\ QueuesSorted /\ [Next]_vars =>
        [\A o \in Objs : \A t, u \in Threads :
           /\ attr[o] # NoAttr /\ attr[o].queueing_policy = "PRIORITY"
           /\ t \in Granted(o)' /\ t \in ToSet(fifo[o])
           /\ u \in ToSet(fifo[o])'
           => Prio[u] <= Prio[t]]_vars
  BY StepPriority
<1> QED BY <1>1, <1>2, StepSorted, TypeCorrect, PTL DEF Spec, GrantByPriority
-----------------------------------------------------------------------------
(* A thread that was given an object has it when it runs, unless it finds  *)
(* that its deadline has passed.                                           *)
LEMMA GrantEnds ==
  ASSUME TypeOK, [Next]_vars, NEW o \in Objs, NEW t \in Granted(o)
  PROVE  \/ t \in Granted(o)'
         \/ t \in hold'[o]
         \/ timed[t] /\ ret'[t] = "TIMEOUT"
<1>0. /\ t \in Threads /\ pc[t] \in {"lock", "relock"} /\ on[t] = o
      /\ t \notin ToSet(fifo[o])
  BY DEF Granted
<1>1. CASE ~ \E u \in Threads : ThreadStep(u)
  <2>1. /\ UNCHANGED <<pc, on>> /\ fifo'[o] \in {fifo[o], <<>>}
        /\ ToSet(<<>>) = {}
    BY <1>1, QuietSteps, EmptyQueue
  <2> QED BY <1>0, <2>1 DEF Granted
<1>2. ASSUME NEW u \in Threads, ThreadStep(u), u # t PROVE t \in Granted(o)'
  <2>1. /\ pc'[t] = pc[t] /\ on'[t] = on[t]
        /\ t \in ToSet(fifo'[o]) => t \in ToSet(fifo[o])
    BY <1>0, <1>2, OthersKeep
  <2> QED BY <1>0, <2>1 DEF Granted
<1>3. CASE ThreadStep(t)
  <2>1. LockReturn(t) \/ EventLockReturn(t)
    BY <1>0, <1>3
    DEF ThreadStep, Lock, Unlock, EventWait, EventEnqueue, EventReturn,
        EventLock, Signal, Broadcast, Call
  <2>2. CASE LockReturn(t) /\ DeadlinePassed(t)
    BY <1>0, <2>2 DEF LockReturn, DeadlinePassed, TypeOK
  <2>3. CASE LockReturn(t) /\ ~ DeadlinePassed(t)
    <3>1. hold' = [hold EXCEPT ![o] = hold[o] \union {t}]
      BY <1>0, <2>3 DEF LockReturn
    <3> QED BY <3>1 DEF TypeOK
  <2>4. CASE EventLockReturn(t)
    <3>1. hold' = [hold EXCEPT ![o] = hold[o] \union {t}]
      BY <1>0, <2>4 DEF EventLockReturn
    <3> QED BY <3>1 DEF TypeOK
  <2> QED BY <2>1, <2>2, <2>3, <2>4
<1> QED BY <1>1, <1>2, <1>3

(* A thread that waits without a deadline leaves lock with the object that *)
(* unlock gave it.                                                         *)
THEOREM UntimedGrantsHonoured == Spec => UntimedGrantHonoured
<1>1. TypeOK /\ [Next]_vars =>
        [\A o \in Objs : \A t \in Granted(o) :
           ~ timed[t] => t \in Granted(o)' \/ t \in hold'[o]]_vars
  BY GrantEnds
<1> QED BY <1>1, TypeCorrect, PTL DEF Spec, UntimedGrantHonoured

(* A thread gives up an object it holds by unlock or eventwait only.       *)
LEMMA HoldEnds ==
  ASSUME TypeOK, [Next]_vars, NEW o \in Objs, NEW t \in hold[o]
  PROVE  t \in hold'[o] \/ (Unlock(t, o) \/ EventWait(t, o))
<1>0. t \in Threads BY DEF TypeOK
<1>1. CASE ~ \E u \in Threads : ThreadStep(u)
  BY <1>1, QuietSteps
<1>2. ASSUME NEW u \in Threads, ThreadStep(u), u # t PROVE t \in hold'[o]
  BY <1>0, <1>2, OthersKeep
<1>3. CASE ThreadStep(t)
  <2>1. ASSUME NEW p \in Objs, hold' = [hold EXCEPT ![p] = hold[p] \union {t}]
        PROVE  t \in hold'[o]
    BY <2>1 DEF TypeOK
  <2>2. ASSUME NEW p \in Objs, Unlock(t, p) \/ EventWait(t, p)
        PROVE  t \in hold'[o] \/ (Unlock(t, o) \/ EventWait(t, o))
    <3>1. hold' = [hold EXCEPT ![p] = hold[p] \ {t}]
      BY <2>2 DEF Unlock, EventWait
    <3>2. CASE p = o BY <2>2, <3>2
    <3>3. CASE p # o BY <3>1, <3>3 DEF TypeOK
    <3> QED BY <3>2, <3>3
  <2>3. CASE hold' = hold BY <2>3
  <2>4. on[t] \in Objs BY <1>0 DEF TypeOK
  <2> QED
    BY <1>3, <2>1, <2>2, <2>3, <2>4
    DEF ThreadStep, Lock, LockReturn, TakeOrBlock, EventEnqueue, EventReturn,
        EventLock, EventLockReturn, Signal, Broadcast
<1> QED BY <1>1, <1>2, <1>3

(* The last owner of an object makes it available or has a successor.      *)
LEMMA StepNeverLost ==
  ASSUME IInv, [Next]_vars
  PROVE  \A o \in Objs :
           /\ attr[o] # NoAttr /\ Kind(o) # "SEMAPHORE"
           /\ Owners(o) # {} /\ Owners(o)' = {}
           => \/ value'[o] > 0
              \/ \E t \in Granted(o) : timed[t] /\ ret'[t] = "TIMEOUT"
<1> SUFFICES ASSUME NEW o \in Objs, attr[o] # NoAttr, Kind(o) # "SEMAPHORE",
                    NEW t \in Owners(o), Owners(o)' = {}
             PROVE  \/ value'[o] > 0
                    \/ \E u \in Granted(o) : timed[u] /\ ret'[u] = "TIMEOUT"
  OBVIOUS
<1>0. /\ TypeOK /\ value[o] = 0
      /\ hold'[o] = {} /\ Granted(o)' = {}
  <2>1. TypeOK /\ value[o] \in Nat BY DEF IInv, TypeOK
  <2>2. value[o] > 0 => Owners(o) = {} BY DEF IInv, MutualExclusion
  <2>3. hold'[o] = {} /\ Granted(o)' = {} BY DEF Owners
  <2> QED BY <2>1, <2>2, <2>3
<1>1. CASE t \in Granted(o)
  BY <1>0, <1>1, GrantEnds
<1>2. CASE t \in hold[o]
  <2>1. /\ t \in Threads /\ Release(o) /\ pc[t] = "user"
        /\ Unlock(t, o) \/ EventWait(t, o)
    BY <1>0, <1>2, HoldEnds DEF Unlock, EventWait, Call, TypeOK
  <2>2. CASE fifo[o] = <<>>
    <3>1. value'[o] = 1 BY <1>0, <2>1, <2>2 DEF Release, TypeOK
    <3> QED BY <3>1
  <2>3. CASE fifo[o] # <<>>
    <3> DEFINE h == Head(fifo[o])
    <3>1. fifo[o] \in Seq(Threads) /\ Distinct(fifo[o])
      BY <1>0 DEF TypeOK, IInv, QueuedIsWaiting
    <3>2. /\ h \in Threads /\ h \in ToSet(fifo[o])
          /\ h \notin ToSet(Tail(fifo[o]))
      BY <2>3, <3>1, DequeueProperties
    <3>3. fifo'[o] = Tail(fifo[o])
      BY <1>0, <2>1, <2>3 DEF Release, TypeOK
    <3> HIDE DEF h
    <3>4. on[h] = o /\ pc[h] \in {"lock", "relock"} /\ h # t
      BY <2>1, <3>2, NotQueued
    <3>5. ThreadStep(t) BY <2>1 DEF ThreadStep
    <3>6. pc'[h] = pc[h] /\ on'[h] = on[h]
      BY <1>0, <2>1, <3>2, <3>4, <3>5, OthersKeep
    <3>7. h \in Granted(o)' BY <3>2, <3>3, <3>4, <3>6 DEF Granted
    <3> QED BY <1>0, <3>7
  <2> QED BY <2>2, <2>3
<1> QED BY <1>1, <1>2 DEF Owners

(* A mutex, or the object of an event, always has an owner or is available,*)
(* unless the thread it was handed over to reports a timeout.              *)
THEOREM ObjectsNeverLost == Spec => NeverLost
<1>1. IInv /\ [Next]_vars =>
        [\A o \in Objs :
           /\ attr[o] # NoAttr /\ Kind(o) # "SEMAPHORE"
           /\ Owners(o) # {} /\ Owners(o)' = {}
           => \/ value'[o] > 0
              \/ \E t \in Granted(o) : timed[t] /\ ret'[t] = "TIMEOUT"]_vars
  BY StepNeverLost
<1> QED BY <1>1, Invariance, PTL DEF Spec, NeverLost
=============================================================================
