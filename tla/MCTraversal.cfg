SPECIFICATION Spec
CONSTANTS
  Heaps <- SmallHeaps
  Settings <- SmallSettings
  MaxReprs = 2
  MaxStack = 16
INVARIANTS
  TypeOK
  InProgressExact
  StateRestored
  LimitedNesting
  AllShown
  InvalidIfBroken
PROPERTY
  Ends
