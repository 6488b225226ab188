CONSTANTS
  NbThreads = 4
  Procs <- TwoProcs
  Idle = Idle
  Timer = 1
  Configs <- AllConfigs
  NewPriorities = {0, 2}
SPECIFICATION FairSpec
INVARIANTS
  WorkConserving
  RightThreadRuns
  BudgetLeft
  DeadlinesMet
PROPERTIES
  DispatchedIsReady
  TurnsEnd
  TurnsAreFull
  NoStarvation
  SleepersWake
