SPECIFICATION Spec
CONSTANTS
  Objects = {a, b, c}
  Null = Null
  Nothing = Nothing
  Kinds <- ValidKind
INVARIANT
  SeenMeansDeadlock
