CONSTANTS
  Threads <- MCThreads
  Procs <- MCProcs
  Proc <- MCProc
  Prio <- MCPrio
  NbLockObjs = 1
  NoThread = 0
  Attrs <- AllAttrs
  Timeouts = {0, 1}
  Relock = TRUE
SPECIFICATION Spec
CHECK_DEADLOCK FALSE
INVARIANTS
  TypeOK
  NoIdleResource
  BlockedIsQueued
  QueuedIsWaiting
  MutualExclusion
  SemaphoreBounded
PROPERTIES
  GrantByPriority
  NeverLost
  UntimedGrantHonoured
  NoLostSignal
