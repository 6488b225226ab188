CONSTANTS
  Configs <- SafeConfigs
SPECIFICATION FairSpec
INVARIANTS
  TypeOK
  FrameAligned
  ModeDecides
PROPERTIES
  ModesMoveLegally
  InitGetsTime
  DueWakesInSlots
