CONSTANTS
  Threads <- MCThreads
  Procs <- OwnProcs
  Proc <- OwnProc
  Prio <- MCPrio
  NbLockObjs = 1
  NoThread = 0
  Attrs <- FifoMutexAttrs
  Timeouts = {0, 1}
  Relock = FALSE
SPECIFICATION RunSpec
CHECK_DEADLOCK FALSE
PROPERTIES
  LockReturns
  TimedLockReturns
