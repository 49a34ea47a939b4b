SPECIFICATION Spec
CONSTANTS
  Configs <- StandaloneConfigs
  EventsCap = 1
INVARIANT StandaloneKeepsRunning
CHECK_DEADLOCK FALSE
