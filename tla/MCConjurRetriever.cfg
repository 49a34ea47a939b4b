SPECIFICATION Spec
CONSTANTS
  Vars = {1, 2, 3, 4, 5}
  Strip <- ColonsInFifth
  PageSize = 2
  MaxSecrets = 4
  Star = Star
  Configs <- RetrieverConfigs
INVARIANT TokenCleared
INVARIANT ListComplete
INVARIANT AnswersAsPromised
