CONSTANTS
  Procs <- MCProcs
  Sources <- MCProcs
  Overlap = TRUE
SPECIFICATION Spec
INVARIANTS
  AssertsHold
