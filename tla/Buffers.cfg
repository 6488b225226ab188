CONSTANTS
  Configs <- SafeConfigs
SPECIFICATION Spec
INVARIANTS
  ExactlyOnce
  NobodyLeftBehind
  ReadsAtomic
