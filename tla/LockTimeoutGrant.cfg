CONSTANTS
  Threads <- MCThreads
  Procs <- MCProcs
  Proc <- MCProc
  Prio <- MCPrio
  NbLockObjs = 1
  NoThread = 0
  Attrs <- FifoMutexAttrs
  Timeouts = {0, 1}
  Relock = FALSE
SPECIFICATION Spec
CHECK_DEADLOCK FALSE
PROPERTIES
  GrantHonoured
