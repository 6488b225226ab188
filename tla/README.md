# A verification development for POK

POK is a partitioned real-time kernel in the ARINC 653 style. Partitions run in
time slots; each has its own address space, threads, scheduling policy and lock
objects; the kernel moves the messages of the ports between them. This fork adds
scheduling policies for threads (PPS, PEDF, WRR, PWRR, MLFQ) and for partitions.
These TLA+ modules model its core logic. TLC checks them on small instances,
TLAPS proves the main results for every instance. Paths are relative to the
repository; `PROJECT.json` maps every definition to the lines it stands for.

## 1. Inventory

| Part | State | Operations | What makes it correct |
|---|---|---|---|
| Lock objects (`kernel/core/lockobj.c`) | `current_value`, two queues, two spin locks per object | create, lock, unlock, eventwait, eventsignal, eventbroadcast | exclusion; no unit idle while a thread waits; no lost signal; order of hand-over; calls return |
| Ring buffer (`lockobj.c`, end) | `buffer`, `head`, `last`, `is_empty` | enqueue by arrival or by priority, dequeue, remove from the middle | it is a queue, and never full |
| Thread scheduling (`kernel/core/sched.c`, `thread.c`) | `pok_threads`; current and previous thread per processor | election with eight policies; charging, release, wakeup; sleep, suspend, resume, set_priority, delayed_start, end of period | the policy holds at every moment; budgets; deadlines; nobody starves |
| Rendezvous (`sched.c`, `rendezvous.h`, `ipi.c`) | `fence`, `barr`, pending interrupts | global reschedule, interprocessor interrupt | assertions; the address space changes while all wait; rounds end |
| Partition scheduling (`sched.c`) | slot, next deadline, major frame | pok_elect_partition, timeslice, PPS, PEDF | the schedule does not drift; due threads wake; initialisation gets the processor |
| Partition modes, thread table, errors (`partition.c`, `thread.c`, `error.c`, `boot.c`) | mode, main and error thread, table | create, set_mode, reinit, restart, error handler | only legal mode changes; the mode decides who runs |
| Ports (`kernel/middleware`) | ring of bytes per port, flags, lock; the buffer of the flush | send, receive, read, write, flush | messages arrive once, in order, or are refused; nobody sleeps beside what it waits for |
| libpok (`libpok/middleware`, `core/allocator.c`) | buffers, blackboards, allocator spaces | producers and consumers over events; allocate, free | no message lost; boards are read as of one moment; spaces partition the memory |
| libpok, ARINC 653 (`libpok/arinc653`) | numbers of processes | processes over threads; the rest translates | a process runs only when started |
| Everything else | - | boot, loader, console, C library, drivers, architectures, tools | not concurrent, or hardware |

How they interact. The timer interrupt (`pit.c`) calls `pok_global_sched` every
quantum: it elects a partition, then every processor elects a thread of it, and
the processors switch together in the rendezvous. Threads enter the kernel with
system calls, in which interrupts are disabled; calls block by setting the state
of the thread and electing another one on the same processor. Lock objects are
shared by threads of several processors and protected by spin locks. Ports and
libpok's buffers use lock objects as monitors.

What is hard: threads of different processors interleave everywhere outside a
spin lock; a thread's deadline races with the thread that wakes it; an election
charges and overwrites states that a service has just set; two processors may
reschedule globally at once; processors may be a round late at a barrier whose
counters are already used again. The full list, with lines, is `hazards` in
`PROJECT.json`.

## 2. Modules and the code

| Module | Models | Extends / instance of |
|---|---|---|
| `WaitQueue` | a queue as a sequence: insertion by discipline, removal | - |
| `LockObj` | lock objects and the threads that call them | `WaitQueue` |
| `ThreadQueue` | abstract: threads enter, leave first, or give up | `WaitQueue` |
| `LockFifo` | the ring buffer, array and indices | implements `ThreadQueue` |
| `ThreadElection` | `pok_elect_thread`, the policies as functions of the table | - |
| `ThreadSched` | processors, clock, services | `ThreadElection` |
| `Rendezvous` | `pok_global_sched`, `synchro_processors`, fence and barr | - |
| `PartitionElection` | `pok_elect_partition`, its policies, and `pok_elect_thread` seen from a partition | - |
| `Partitions` | slots, modes, creation, error handler, services, ARINC 653 processes | `PartitionElection` |
| `PortRing` | the ring of a port as functions on records | - |
| `Channel` | abstract: messages go from a source through the air to destinations | - |
| `Ports` | ports, flush, the threads that wait | `PortRing`; implements `Channel` |
| `Buffers` | buffers and blackboards of libpok, step by step | - |
| `Allocator` | allocate, free and merge of libpok | - |
| `WaitQueueProofs`, `LockObjProofs`, `LockFifoProofs`, `ThreadSchedProofs`, `RendezvousProofs`, `PartitionsProofs`, `PortsProofs`, `BuffersProofs` | theorems | |
| `MC...` | constants of the runs | |

**LockObj.** An action is a stretch of a call that nothing can interrupt: up to
the point where the call gives up the processor, or releases a spin lock that
another processor may take. `pc` says between which stretches a thread is, so
`pok_lockobj_lock` is `Lock` and `LockReturn`; `pok_lockobj_eventwait` is
`EventWait`, `EventEnqueue`, `EventReturn`, `EventLock` and `EventLockReturn`.
Any runnable thread of a processor may be the one it runs: that covers all
policies, and the run through a system call is kept (`CanRun`: nobody else on
the processor runs while a thread is inside a call with interrupts disabled).
`hold` is history: who was told it has the object. Programs are assumed to
unlock only mutexes they hold.

**LockFifo** keeps the array: slots are shifted, indices wrap around, `is_empty`
tells an empty ring from a full one. `LockObj` uses `WaitQueue`'s sequences, and
`ImplementsQueue` (refinement: the contents of the ring from head to last) shows
that this is justified.

**ThreadElection and ThreadSched.** An election is a function of the table, the
processor, its previous and its current thread: wake and release the threads of
the processor (`Activate`), charge the current one (`Charge`), apply the policy
(`Choice`). Times are relative to the clock, so that the state space is finite:
`Tick` counts wake-ups, releases and deadlines down. A service and the election
it ends with are one action, since interrupts are disabled. After a global
reschedule `pending` holds the processors still to be interrupted. The partition
is in NORMAL mode and has no error thread. The configuration (policy, attributes,
services used) is a variable that never changes, so that one run covers several
policies.

**PartitionElection and Partitions.** One processor from boot on. Tables of
partitions and threads, relative times, and the count of timer interrupts in a
quantum: a slot may end between two elections, and is then noticed late, which
`left` and `frame` show as numbers below 1. The policy inside a partition is any
function to its ready threads (`ThreadElection` has the real ones). Every service
that changes who is ready is an action, with the election it ends with; the
handler of errors is switched to without an election, as in the code.
`pok_error_thread_create` does not look at what the creation returned: where it is
refused, `RefuseErrorThread` records any number of a thread and runs that thread,
since the number is not initialised; `refused` is history, that this has happened.
(The attributes are not initialised either; `is_dynamic` then allows the creation in
NORMAL mode, which `CreateErrorThread` has.) Thread
numbers are checked as the code checks them (`InBounds`), which lets the first
number of the next partition through, and the main thread of the caller's own;
`MainsSpared` says of a configuration that no program names a main thread. With `conf.apex` programs call through
`arinc653/process.c`, whose own tests are `FirstState`, `MayStart`, `MaySuspend`.

**Ports.** The flush is a sequence of steps of the thread in whose timer
interrupt it runs (`FlushPort`, `FlushDestination`, `FlushSource`, `FlushClear`,
`EndFlush`), because waking a thread switches to it at once: what is left of the
flush stays in `call`, and goes on when the thread is elected again, perhaps
after another flush. Messages are sequences of units, each the number of the
message, so that a mixture would be seen. `PortRing` has the offsets, `full`,
`empty`, and the quirks: a port stays full until it is empty. What a flush has
still to look at is a set; `Before` has the order in which it does. `OneSource`
says of a configuration that no port is the destination of two, `Orderly` under
which messages keep their order (section 5).
`ImplementsChannel` maps ring, `pok_buffer_flush` and destinations to the
abstract channel.

**Buffers.** A thread may be preempted between any two steps; a system call is
one step; the look at the flags, the copy of a message and the change of the
offsets are steps of their own. The lock
is an event of the kernel, that is a mutex and a queue of waiters: what `LockObj`
shows of it (exclusion, no lost signal) is what `Lock`, `Wait` and `Broadcast`
rely on. A blackboard is copied in two halves. A message has a sender, a number and
a length in halves: one shorter than the board leaves the tail of the former
message (blackboarddisplay.c:50), and a read returns the whole board and the size of
the board as the length (blackboardread.c:49). `sent` keeps, of a board, the
completed displays in order.

**Allocator.** The table of spaces is a function; `Merge` folds `MergeOnce` as
often as the code may call itself. `chunks` is what the program was given.

**Rendezvous.** One step per access to `fence` and `barr`; `ipi` is the pending
bit of the local APIC. The election is a local step and is not repeated here.

## 3. Runs

| Run | Question | Result |
|---|---|---|
| `Lock` | safety of a mutex, a semaphore or an event, three threads on two processors, with and without timeouts, recursive requests, initial value beyond the maximum | holds |
| `LockLive` | do calls return, for threads that have a processor each? | hold |
| `LockTimeoutGrant` | does a thread that unlock has chosen get the object? | violated |
| `LockFifo` | is the ring the queue? | holds |
| `Sched` | the policies, every service, two processors; round robin starves nobody and sleepers wake | holds |
| `Rendezvous` | four processors, any may start a round | holds |
| `RendezvousOverlap` | ... even two at once | violated |
| `Partitions` | slots, modes, handler, processes, the three global policies, from boot on | holds |
| `PpsWake` | do due threads wake under partition priorities? | violated |
| `Ports` | are ports channels, does everybody wait for a reason, are samples current, does what is sent move on? | holds |
| `Buffers` | once and in order, nobody left behind, boards read as of one moment | holds |
| `AllocatorMerge` | is memory in use kept? | violated |

Bounds, and why they are enough.

- `Lock`: three threads are the least at which one holds an object, one waits in
  front of another, and the one behind times out; two of them share a processor,
  so that both kinds of interleaving occur; two have equal priorities. One object
  at a time, since objects share nothing. Timeouts of one tick against a clock
  that ticks at any time: a thread may be late by any amount.
- `LockLive`: the same three threads with a processor each, for the reason given
  under fairness.
- `LockFifo`: four slots and four threads: the ring is full, wraps around and
  loses threads from every position.
- `Sched`: RR and STATIC with a thread on another processor whose services act
  on the rest; RMS and PEDF with periods 3, 4, 6 and load 11/12, whose hyperperiod
  is 12 ticks; WRR and PWRR with weights 1, 2, 3 and bursts longer than their
  period; MLFQ with 20 quanta, so that levels stay above 2 (below 0 they wrap
  around, see section 4); a second round robin on one processor with the two
  services of threads on themselves, for liveness. Times more than `lag` ticks ago count as `lag` ticks ago;
  `lag` is the longest period where a past time matters.
- `Rendezvous`: four processors: two may be late while the third starts the next
  round and the fourth has joined it. Rounds are counted modulo 3.

- `Partitions`: two partitions of three threads are enough for a main thread, a
  handler and a thread it acts on beside a partition that goes on; slots of 3 and
  2 ticks with a quantum of 2 put boundaries between elections; three partitions
  for the global policies, since the scan of `activate_waiting_threads` ends only
  for certain numbers of threads (`ScanEnds`); two threads in each partition where
  creations are refused: the number found may be that of the other thread of the partition, of either
  thread of the other one, of idle, or 0; priorities 100, 200, 255 sum beyond
  a byte.
- `Ports`: rings of 1 to 4 units, of different sizes at both ends, so that
  destinations are full when the source is not; messages of one length per
  configuration (see section 4), which divides the sizes; four messages wrap
  around both rings. Two destinations, waiting callers, and flush by window and
  by frame, each in a configuration.
- `Buffers`: one and two slots, up to four threads, so that senders and receivers
  wait at the same time in one queue; four messages wrap around. Displays have 0, 1
  or 2 halves of the board.
- `AllocatorMerge`: six units, sizes 1 and 2, the least with three chunks in use
  and one free space behind them.

CHECK_DEADLOCK is off for the lock runs (a thread that waits for a program that
never unlocks is a legal end) and for the allocator (the memory may be used up
and kept). The other runs check that no state is without successor.

Fairness. `LockLive`: `RunSpec` says that the timer ticks, that its election wakes
threads whose time-out is over, and that a thread which is `Alone` on its processor
makes a step when it is RUNNABLE continuously. Nothing of the kind is said of
threads that share a processor, because the schedulers do not give it: round robin
never leaves a runnable thread of infinite capacity (sched.c:1206), and STATIC, RMS,
PEDF and PWRR leave a lower rank waiting for ever. A thread alone on its processor is
elected whenever it is ready, at the next interrupt at the latest, under every
policy but WRR, if deadlines and priorities are set: that is `WorkConserving`,
checked in `Sched` and proved (`IdleForAReason`). A thread that shares its processor
may starve inside a call; the run claims nothing about it. `LockReturns` assumes besides `FairUsers`,
programs end their critical sections, and that nobody passes a timeout, because
of `LockTimeoutGrant`. `TimedLockReturns` assumes nothing of programs. `Sched`:
the timer ticks and an interrupted processor elects, in the configuration of
round robin where threads act on themselves only; programs owe nothing.
`Partitions`: the timer interrupts. `Ports`: the timer interrupts and a flush
that has begun goes on, which it does as it runs with interrupts disabled on the
one processor; `MovesOn` is stated for callers that poll. `Rendezvous`: processors
execute instructions, and take a pending interrupt while they run a thread.

## 4. What the failing runs show

- `LockTimeoutGrant` (lockobj.c:278): a thread chosen by unlock but elected after
  its deadline reports a timeout. It does not own the object, and nobody else
  does: the object is lost.
- `RendezvousOverlap` (sched.c:493): two processors that reschedule globally at
  the same time violate `assert(!*r)`.
- `PpsWake` (sched.c:260): `activate_waiting_threads` uses one index for
  partitions and threads, so that it looks at one thread of each partition. A
  partition whose ready-to-start threads are others sums to priority 0 and is not
  chosen again while another is.
- `AllocatorMerge` (allocator.c:219): after a merge the allocator goes on with a
  number that the deletion has given to the next space. Allocate three chunks,
  free the second and the first: the third, in use, counts as free.

Observations made while modelling, which the models contain or avoid as said:

- Thread scheduling. WRR never looks at the thread its scan starts from, so that
  a lone thread is not elected from idle (sched.c:924; `WorkConserving` excepts
  WRR), and from idle on a processor without a ready thread the scan never ends
  (sched.c:943; avoided). WRR, PWRR and MLFQ never let a thread of infinite
  capacity continue, since -1 is not greater than 0 (sched.c:902; `TurnsAreFull`
  is about finite capacities). PWRR looks for the next thread from the lowest
  number while the previous thread of its processor is still the idle thread it
  was initialised with (sched.c:990, partition.c:230), as on processors other than
  the main thread's until a thread there is first switched away from: of two
  threads of equal priority one is then elected again after every turn, against
  "sche another same prio thread (rr)" (`TurnsEnd` fails in such a configuration;
  `ScansMoveOn` excludes it, the run has its threads on the main thread's
  processor). An MLFQ level of 0 falls to 255 (sched.c:1153;
  avoided). The election that suspend ends with replaces STOPPED by
  WAIT_NEXT_ACTIVATION in the last unit of capacity (sched.c:403; modelled). A
  delayed start changes the priority of a periodic thread without a reschedule,
  and in NORMAL mode never makes it ready (thread.c:335; modelled).
- Partitions. Tests against `thread_index_high` let its value through, which is
  the main thread of the next partition (thread.c:377; modelled). Reinitialising
  leaves the other threads as they were, so that in NORMAL mode they run before
  they are created again (partition.c:392; modelled). `pok_error_thread_create`
  records an undefined number when the creation fails, and activates that thread
  (error.c:36; modelled: any thread, also of another partition, may then run as the
  handler; `ModeDecides` and `ModesMoveLegally` speak of the time until then). A second
  error before the handler runs replaces the first (error.c:55; left out).
  `pok_boot` initialises threads after partitions and so erases what the latter
  set for the main threads (boot.c:33; modelled). The sum of priorities of a
  partition wraps at 256 (sched.c:1362; modelled).
- ARINC 653. SUSPEND leaves a process STOPPED, which counts as DORMANT; RESUME
  wants WAITING (3), which is the kernel's LOCK: it refuses what was suspended,
  and would wake a thread that waits for a lock (process.c:191-207). The reason why
  `Partitions` has no such action is that it never does anything there. A time-out
  of a semaphore below 1000 becomes 0, which waits for ever (semaphore.c).
- Ports. The flush wakes threads in the middle of `pok_elect_partition`, before
  the slot has advanced: if the thread that was switched to is interrupted at the
  end of the same slot, a second flush starts there, the slot advances twice, and
  from then on the major frame and the slots are out of step (portflushall.c:106;
  modelled: `ImplementsChannel`, `WaitsForReason` and `SamplesCurrent` hold
  nevertheless with one destination; with two destinations and waiting callers
  the flush that was left behind writes the buffer of a later one, and
  `ImplementsChannel` fails). `must_be_flushed` is cleared last and takes the mark
  of a message sent meanwhile with it (`MovesOn` is for callers that poll). The
  free space between end and beginning is taken as b - e (portutils.c:40): with
  messages of different lengths `ImplementsChannel` fails. Time-outs of calls are
  made absolute twice, and so never over in time (portqueueingsend.c:80 and
  lockobj.c:184; the models let a time-out be over at any time). A failing check
  in `pok_port_sampling_read` keeps the lock (portsamplingread.c:64). Ports are not
  reset when their partition restarts.
- libpok. A receive with time-out 0 from an empty buffer gives the lock up and
  goes on looking without it (bufferreceive.c:49; modelled, on a buffer nobody
  fills; beside two senders it gives up locks of others, and both `ExactlyOnce` and
  `NobodyLeftBehind` fail). Clearing a blackboard has no effect on readers. A display shorter than the board
  leaves the tail of the former message, which a read returns and counts in the
  length (blackboarddisplay.c:50, blackboardread.c:49; modelled). The deletion of a space
  reads one entry past the table (allocator.c:168), and the allocator has no lock,
  although threads share it.

## 5. Proofs

All theorems are about the specifications as TLC runs them, for any value of the
constants that satisfies the modules' ASSUMEs.

`LockObjProofs`: any threads, processors, priorities, objects and timeouts.
The inductive invariant is the conjunction of the invariants the run checks:
types; `NoIdleResource` (a unit that is available has no waiters, so
the assertions of lock and unlock hold); `CallsMatchStates`;
`QueuedIsWaiting` (each thread is in at most one queue, once, and inside the call
that put it there); `BlockedIsQueued` (the converse, for threads nobody has
chosen yet); `MutualExclusion`. Exclusion alone is not inductive: that unlock
chooses a thread that still waits, and chooses it once, is what the others say.
`WaitQueueProofs` has the lemmas on insertion and removal, among them that the
insertion point exists, is within the queue, keeps it free of duplicates and, by
priority, sorted.

The second part of `LockObjProofs`: to whom and when objects are handed over, so
that every property of `Lock` is proved. Two more invariants are needed. `QueuesSorted`: the
queue of an object by priority is sorted at any moment, which insertion gives and
removal keeps, also of a thread that times out in the middle; `GrantsByPriority`
follows, since unlock and signal take the first. `SpinHeld`: whoever is between
the two halves of eventwait has the event's spin lock, so that a signal cannot
pass between them (`SignalsReachWaiters`). `ObjectsNeverLost` compares a state
with the next: the last owner of a mutex makes it available or has a successor,
and a chosen thread (`UntimedGrantsHonoured`) loses it by a timeout only.

`RendezvousProofs`: any number of processors, any set of them as sources, under
the assumption `~ Overlap` (one round at a time), which `RendezvousOverlap` shows
to be necessary. The invariant `IInv` says, for each point the source may be at,
where everybody else is, and that `fence` or `barr` is one more than the number
of processors waiting there (`Gathering`, `Crossing`); the lemma `AllThere` turns
"the counter equals the number of processors" into "everybody waits". `InStep`
says that whoever has not left an inactive `barr` is exactly one round behind.
From it: the assertions (`AssertionsHold`), `SwitchAlone`, `InLockstep`, and the
bounds of the counters (`TypeCorrect`).

`BuffersProofs`: any threads, buffers of any size, blackboards, calls and
time-outs (`ConfigsAssumption`: buffers have slots and are not blackboards, each
call names an object of its kind). Everything rests on `Exclusion`: at most one
thread is between the lock and the unlock of an object, so what such a thread has
seen of the object (`KnowsBoard`, `KnowsBuffer`: that there is room, that the slot
holds its message, which half it has copied) is still true at its next step. The
lemmas on rings (`HeldAt`, `CopyHeld`, `FilledHeld`, `ConsumedHeld`) say, for any
size, that filling a slot appends to what the ring holds and consuming one takes
from its front, also where offsets wrap. The invariant of a board
(`BoardWhole`) says that, while nobody displays, each half shows the last completed
display long enough to reach it, and that a display under way may have changed the
first half (`Displaying`). From these: `ReadsAtomic`, without
further conditions, and, under `NoPolling` (no receive with time-out 0),
`ExactlyOnce` and `NobodyLeftBehind`. The condition is needed: a receiver that
polls gives up a lock it no longer has (bufferreceive.c:49).

`LockFifoProofs`: any threads and priorities, and rings with a slot for every
thread (`RingAssumption`, what lockobj.c allocates). The invariant: what lies
between `head` and `last` are different threads, and where the two meet the ring
is empty or holds as many threads as it has slots, which `is_empty` tells apart.
By pigeonhole a thread that is not in the ring finds a free slot, so that
insertion in the middle never shifts over the end. `RingIsQueue` is the step
simulation of `ThreadQueue`: shifting slots, index by index and modulo the size,
is `Insert` and removal on sequences.

`ThreadSchedProofs`: any threads, processors, affinities, attributes and services,
all eight policies. An election is split as the code splits it: lemmas about each
policy say that its choice is ready on the processor (`Valid`), is idle only if
nobody is ready (`Busy`), and that nobody ready outranks it (`Best`); `ElectionElects`
puts activation, charging and choice together. Steps have three forms: the
processor elects (`Local`), all processors are told to (`Global`), or only the table
changes (`Quiet`). The inductive invariant has, beside types, that the main thread
stays stopped, that times are no older than `lag`, that deadlines follow releases,
that whoever is ready has capacity left (`Funded`), that threads run on the
processor of their affinity (`Placed`) and that running threads have capacity. The
results: `DispatchesReady` and `TurnsFull` without conditions; `TurnsRunOut`, for WRR
without a condition, for PWRR if threads that share a processor share that of the main
thread (`ScansMoveOn`), with the invariant `Remembered`: that processor still runs the
main thread or has switched away from it, so that what it remembers as the previous
thread is not idle and the scan starts behind the current one;
`BudgetsLast` if nobody is resumed or started in the middle of a period
(`BudgetsStand`: pok_thread_resume gives no new budget); `IdleForAReason` if
deadlines and priorities are not 0 (`DeadlinesSet`, `PrioritiesSet`: PEDF and PWRR
take 0 for "none found"); `PolicyHolds` if the table is sorted by period
(`PeriodsSorted`, as thread creation leaves it under RMS), deadlines are set, and no
delayed start changes the priority of a periodic thread (`PrioritiesStand`:
thread.c:335 does so without a reschedule). `MCThreadSched` has TLC check that its
configurations satisfy these conditions.

`PartitionsProofs`: any number of partitions and threads, any slots of at least a
quantum, the three global policies, any services (`ConfigsAssumption`: threads of
partitions follow one another; main threads have no period and no budget, as
pok_partition_setup_main_thread sets them). The invariant is the conjunction of
three parts. The tables: threads created are threads of their partition, times lie within their bounds, so that the
maxima and minima of PPS and PEDF exist and both choose a partition
(`PpsChooses`, `PedfChooses`). The clock: `left` is above minus the interrupts of the
quantum so far, and `frame` is `left` plus the slots that follow, from lemmas about
sums. The modes: `current` and `error` of a partition are its own, the handler is not
its main thread, which is stopped in NORMAL mode (`Proper`), and the mode fits who
runs (`Fits`); this part holds until a creation is refused. Neither of the last two is
inductive alone: that a handler that "stays" is not the main thread of partition
0, whose number is also that of "no handler", follows from the former. `TablesTyped`
and `ScheduleAligned` need no condition and hold also after a refused creation, when
the handler may be any thread. `ModeRules` and `ModesLegal` are about the time before
one, and assume `MainsSpared`, which is necessary: resume lets a program name its main thread, which
then runs again in NORMAL mode (thread.c:377). `MCPartitions` checks that its
configurations satisfy it.

`PortsProofs`: any partitions, slots, threads, ports of any size up to
`POK_PORT_MAX_SIZE`, messages of any length that fits, flushed by window or by
frame, whether callers wait or poll (`ConfigsAssumption`; sizes are below half of
the numbers that `pok_port_size_t` has). `PortsTyped` is about the rings: equal
offsets mean an empty port or one marked full, whatever was written over, and what
is left of a flush names OUT ports and their own destinations. For
`NobodySleepsInVain`, two lemmas on rings do the work: the flush takes what
`pok_port_consumed_size` says, which leaves a port empty and not full (`GotAll`), so
that from then to its broadcast somebody is offering what it held; and a sender that
finds no room finds the mark (`RoomUnlessFull`), since the difference that is taken
the wrong way round (portutils.c:40) is larger than any message.
`SamplesAreCurrent` needs a stronger invariant, `SamplesInv`: nobody waits for a
sampling port (`OnlyQueuesWait`), so its flush wakes nobody and keeps the processor
to its end (`Uninterrupted`), nobody writes in between, and the sample in
`pok_buffer_flush` is the last one, which the destinations done with have
(`InHand`). It assumes `OneSource`: with two writers TLC shows a destination that
holds the sample of the other. `MCPorts` checks that its configurations satisfy
it.

`MessagesInOrder`, the last part of `PortsProofs`, is the step simulation of
`Channel` by `Ports`. The mapping: a source holds the contents of its ring; what is
in the air is `pok_buffer_flush`, while some thread has destinations left; they are
its `dests`. Lemmas on rings say what the three operations do to contents, for any
offsets: `WrittenContents` (a write appends, and where it does not fit the end of
the whole is left), `GotContents` (a get takes from the front) and `FetchedAll` (the
flush empties the port into the buffer). The invariant `OrderInv` says when the one
buffer is safe: whoever has destinations of a queueing port left has the processor
(`Alone`), although each delivery wakes threads and reschedules; where calls wait
this holds as it has only one destination (`Once`), where they do not nobody
sleeps (`Patient`); and a source holds whole messages (`Whole`), so that one
that fits never overwrites. `Orderly` is the assumption, checked on the
configurations by `MCPorts`: messages have one length, of which the sizes of sources
are multiples; a port is not twice a destination of one source; where calls wait a
source has one destination. TLC finds `ImplementsChannel` violated when any one of
these four is dropped.

Induction (sums, the numbers of threads, minima) is by a least counterexample
(`LeastElement`, from the well-foundedness of the natural numbers), since the
library's induction theorems cannot be instantiated.

Only model-checked: all liveness (TLAPS has no ENABLED and no fairness);
`DeadlinesMet`, which is about particular sets of threads and the analysis that
admits them; and the allocator (recursive operators). The `TypeOK` of `Buffers` documents
the states and is not part of a run; nor is that of `Ports`, which is proved.

## 6. Not modelled, and the plan

1. Lock objects under suspend, resume and restart (a thread made runnable inside
   a call it has left, sched.c:1281), over `LockObj`.
2. The sort of RMS tables (thread.c:60), as a pure algorithm.

Left out for good: the ELF loader, console, the C library, drivers, context
switch and address spaces (hardware); PowerPC and SPARC, whose timers call a
function that `sched.c` no longer has; pure look-ups and wrappers; the vendored
libm and protocols; tools and examples. They are most of the repository's lines:
the kernel's core, its middleware and libpok's own services are about a tenth of
it. `ThreadSched` does not let a service reschedule globally while another global
reschedule is under way: that case is `Rendezvous`'s. `Partitions` and `Ports`
have one processor. Memory ordering is sequentially consistent (x86 with locked
increments).
