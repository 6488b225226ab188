----------------------------- MODULE MCBuffers -----------------------------
(***************************************************************************)
(* Instances of Buffers: objects 1 (and 2).                                *)
(***************************************************************************)
EXTENDS Buffers

Use(op, o, timeout) == [op |-> op, obj |-> o, timeout |-> timeout]

Config(size, boards, uses, messages) ==
  [size |-> size, boards |-> boards, uses |-> uses, messages |-> messages]

(* Two slots; senders that wait or do not, against receivers that wait.    *)
ManySenders == Config(<<2>>, {},
  <<{Use("send", 1, 1)}, {Use("send", 1, 0), Use("send", 1, 1)},
    {Use("receive", 1, 1)}>>, 4)

ManyReceivers == Config(<<2>>, {},
  <<{Use("send", 1, 1)}, {Use("receive", 1, 1)}, {Use("receive", 1, 1)}>>, 4)

(* One slot, where senders and receivers wait at the same time.            *)
OneSlot == Config(<<1>>, {},
  <<{Use("send", 1, 1)}, {Use("send", 1, 1)},
    {Use("receive", 1, 1)}, {Use("receive", 1, 1)}>>, 3)

(* A blackboard, and a thread that polls a buffer that nobody fills.       *)
Boards == Config(<<1>>, {2},
  <<{Use("display", 2, 0)}, {Use("display", 2, 0), Use("read", 2, 0)},
    {Use("read", 2, 0)}, {Use("receive", 1, 0)}>>, 3)

SafeConfigs == {ManySenders, ManyReceivers, OneSlot, Boards}
=============================================================================
