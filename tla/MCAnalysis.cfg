SPECIFICATION Spec
CONSTANTS
  Shells = {s1, s2}
  Addrs = {1, 2, 3, 4}
  Names = {"type", "x", "y"}
  TypeName = "type"
  Heaps <- SmallHeaps
INVARIANTS
  TypeOK
  ReadyIsSound
  FileIsSound
PROPERTIES
  RefusedOnlyByClash
