SPECIFICATION Spec
CONSTANTS
  k1 = k1
  k2 = k2
  v1 = v1
  v2 = v2
  s1 = s1
  s2 = s2
  Secrets = {s1, s2}
  Keys = {k1, k2}
  Vars = {v1, v2}
  Values = {x, y}
  NoVar = NoVar
  BadEntry = BadEntry
  Star = Star
  NoGroup = NoGroup
  BadSpecs = BadSpecs
  Absent = Absent
  Blank = Blank
  Configs <- SafetyConfigs
INVARIANT PanicsOnlyIfInvalid
INVARIANT ChecksumsHonest
INVARIANT CallDelivers
PROPERTY UserEditsSurvive
PROPERTY MappedKeysStay
PROPERTY InvalidUntouched
PROPERTY BlankedOnlyIfRevoked
PROPERTY NothingLostUnsanitized
PROPERTY ImplementsContract
SYMMETRY Symmetry
