CONSTANTS
  Configs <- PassConfigs
  MaxSize = 4
SPECIFICATION FairSpec
INVARIANTS
  WaitsForReason
  SamplesCurrent
PROPERTIES
  ImplementsChannel
  MovesOn
