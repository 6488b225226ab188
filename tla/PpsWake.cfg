CONSTANTS
  Configs <- PpsConfigs
SPECIFICATION FairSpec
PROPERTY DueWakes
