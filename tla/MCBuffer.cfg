SPECIFICATION Spec
CONSTANTS
  s1 = s1
  s2 = s2
  s3 = s3
  s4 = s4
  p1 = p1
  p2 = p2
  k1 = k1
  k2 = k2
  c1 = c1
  c2 = c2
  c3 = c3
  NULL = NULL
  Thread = {k1, k2}
  Cleaner = {k1, k2}
  Meter = {k1, k2}
  Sector = {s1, s2, s3}
  Slot = {c1, c2}
  SlotOrder <- TwoSlots
  Part = {p1, p2}
  Val = {0, 1}
  Extent <- AnyPart
  PartialMiss = FALSE
  TestsAlone = TRUE
  IntRange = 1
SYMMETRY Interchangeable
INVARIANTS
  LRUOrder
  FlushMakesDurable
PROPERTIES
  CacheIsStore
