SPECIFICATION Spec
CONSTANTS
  Objects = {a, b, c, d}
  Null = Null
  Nothing = Nothing
  Kinds <- AnyKind
INVARIANTS
  TypeOK
  TreesComplete
  DeadlockFlagged
  HiddenOnlyBehindCycles
PROPERTY
  Termination
