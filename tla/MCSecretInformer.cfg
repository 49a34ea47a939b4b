SPECIFICATION FairSpec
CONSTANTS
  Secrets = {s1}
  Maps = {NilData, NoMap, m1}
  NilData = NilData
  NoMap = NoMap
  Annotations = {NoAnnotation, EmptyAnnotation, a1}
  NoAnnotation = NoAnnotation
  EmptyAnnotation = EmptyAnnotation
  m1 = m1
  a1 = a1
  Manifests <- SomeManifests
  Absent = Absent
  Unlisted = Unlisted
  EventsCap = 1
  MaxEdits = 2
  MaxDeltas = 1
INVARIANT NoEditForgotten
INVARIANT StopLeavesNothing
PROPERTY StopEnds
PROPERTY EditsListed
PROPERTY NoFeedback
CHECK_DEADLOCK FALSE
