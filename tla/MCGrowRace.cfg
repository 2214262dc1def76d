SPECIFICATION Spec
CONSTANTS
  Parts = {"grow"}
  DIR_LEN = 1
  ENTRIES = 2
  BYTES = 2
  NSectors = 18
  File = {f, g}
  Lengths = {1, 3, 5, 9, 10, 12, 17}
  MaxRemovals = 1
  Writer = {w1, w2}
  Reader = {r1}
  Zero = Zero
  Junk = Junk
  NoSector = NoSector
  MaxLen = 3
  MaxWrites = 1
  NBlocks = 8
  FileHandle = {1, 2, 3, 4}
  DirHandle = {5, 6}
  MaxFd = 7
SYMMETRY Interchangeable
INVARIANTS
  WritesSurvive
CHECK_DEADLOCK FALSE
