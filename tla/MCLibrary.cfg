SPECIFICATION Spec
CONSTANTS
  Task = {"t1", "t2"}
  PGSIZE = 16
  BLOCK_SIZE = 6
  ARENA = 3
  PoolPages = 4
  Sizes = {6, 14}
  MaxBlocks = 2
  Job = {"j1", "j2"}
  PgBytes = 4
  PtEntries = 3
  PHYS_BASE = 28
  AddrRange = 64
  KernelFrames = {1, 2, 3, 4}
  UserFrames = {11, 12, 13, 14}
  Elf <- SomeElf
  Items = {1, 2, 3, 4}
  Value <- Values
  Entry = {1, 2, 3, 4, 5, 6}
  KeyOf <- Keys
  HashOf <- Hashes
  MIN_BUCKETS = 1
  BEST_ELEMS_PER_BUCKET = 1
  ELEM_BITS = 3
  bit_cnt = 4
  Inputs <- SomeInputs
INVARIANTS
  BlocksDisjoint
  PagesAccounted
  ActiveIsAlive
  FramesAccounted
  ImageAsElf
  ListsAsSequences
  HashAsSet
  BitmapAsSet
  LibraryAgrees
CHECK_DEADLOCK FALSE
