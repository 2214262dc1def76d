SPECIFICATION Spec
CONSTANTS
  Writer = {"w1", "w2"}
  Reader = {"r1", "r2"}
  INTQ_BUFSIZE = 3
  Line = 2
  MaxNested = 1
  MaxIntr = 1
  MaxInput = 2
  User = {"t1", "t2"}
  Capacity = 2
  UintRange = 4
  Data = {0, 1}
  Tables <- SomeTables
  Plain = {"A", "two", "bracket", "escape", "delete"}
INVARIANTS
  BytesInOrder
  NobodyForgotten
  LinesNotMixed
  TransfersExact
  InsidePartition
  KeysAsHeld
PROPERTY DriversFinish
CHECK_DEADLOCK FALSE
