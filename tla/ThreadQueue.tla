---------------------------- MODULE ThreadQueue ----------------------------
(***************************************************************************)
(* What a wait queue promises to the lock objects: threads leave it in the *)
(* order of its discipline, or from wherever they are when they give up.   *)
(***************************************************************************)
EXTENDS WaitQueue

CONSTANTS Threads, Prio

VARIABLES discipline, queue

Init == discipline \in Disciplines /\ queue = <<>>

Enter == \E t \in Threads \ ToSet(queue) :
           queue' = Enqueue(queue, t, discipline, Prio)

LeaveFirst == queue # <<>> /\ queue' = Tail(queue)

GiveUp == \E t \in ToSet(queue) : queue' = RemoveThread(queue, t)

Next == (Enter \/ LeaveFirst \/ GiveUp) /\ UNCHANGED discipline

Spec == Init /\ [][Next]_<<discipline, queue>>
=============================================================================
