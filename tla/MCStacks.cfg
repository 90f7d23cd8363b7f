SPECIFICATION Spec
CONSTANTS
  Frames = {1, 2, 3}
  Null = Null
  Stray = Stray
  Nothing = Nothing
  Kinds <- AnyFrame
INVARIANT
  StacksRight
PROPERTY
  EndsUnlessCyclic
