SPECIFICATION FairSpec
CONSTANTS
  N = 2
  v1 = v1
  v2 = v2
  Vars = {v1, v2}
  Star = Star
  Values = {x, y}
  Missing = Missing
  Empty = Empty
  Partial = Partial
  Configs <- FileConfigs
  MaxChanges = 3
INVARIANT CallDelivers
PROPERTY ContentNeverLost
PROPERTY ImplementsContract
PROPERTY Converges
PROPERTY RevokedRemoved
