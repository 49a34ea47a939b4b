SPECIFICATION FairSpec
CONSTANTS
  Configs <- LiveConfigs
  EventsCap = 1
PROPERTY InitEnds
PROPERTY EditsServed
PROPERTY FailStop
CHECK_DEADLOCK FALSE
