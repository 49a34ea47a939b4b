SPECIFICATION Spec
CONSTANTS
  Values <- SomeValues
  Absent = Absent
  IntOf <- Ints
  BoolOf <- Bools
  DurationOf <- Durations
  Blanks <- SomeBlanks
  Spaces = {"", " "}
  YamlNames <- Yaml
  CommaNames <- Comma
  GroupNames = {g1, g2}
  g1 = g1
  g2 = g2
  NoGroup = NoGroup
  NoName = NoName
  d1 = d1
  Dirs <- SomeDirs
  Dot = Dot
  Shape <- Shapes
  Inputs <- AllInputs
INVARIANT RunsAsValidated
INVARIANT GroupsUsable
CHECK_DEADLOCK FALSE
