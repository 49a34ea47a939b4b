SPECIFICATION Spec
CONSTANTS
  Configs <- SafetyConfigs
  EventsCap = 1
INVARIANT RetryCounterBound
INVARIANT UpdateSignalled
INVARIANT RetryBudget
INVARIANT ReadyOnlyAfterDelivery
INVARIANT ReadyReflectsLatest
INVARIANT InitExitContract
PROPERTY GivesUpOnlyAtLimit
PROPERTY ProvidedOnlyAfterDelivery
CHECK_DEADLOCK FALSE
