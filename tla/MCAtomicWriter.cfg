SPECIFICATION Spec
CONSTANTS
  Chunks = {a, b}
  Torn = Torn
  NoFile = NoFile
  MaxWrites = 3
INVARIANT NothingLeftBehind
PROPERTY WritesAtomically
