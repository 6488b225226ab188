CONSTANTS
  Procs <- MCProcs
  Sources <- MCProcs
  Overlap = FALSE
SPECIFICATION FairSpec
INVARIANTS
  TypeOK
  AssertsHold
  SwitchesAlone
  NobodyAhead
PROPERTIES
  RoundsEnd
