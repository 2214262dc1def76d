SPECIFICATION Spec
CONSTANTS
  Proc = {p, q}
  Name = {"a", "b"}
  Path <- SomePaths
  NSectors = 4
  Capacity = 8
  Program = "b"
  MaxFds = 1
  MaxLost = 2
  Scope <- SomeScopes
SYMMETRY Interchangeable
INVARIANTS
  TreeSound
  SectorsInUse
  CountsExact
CHECK_DEADLOCK FALSE
