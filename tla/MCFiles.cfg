SPECIFICATION Spec
CONSTANTS
  Parts = {"index", "grow", "fds"}
  DIR_LEN = 1
  ENTRIES = 2
  BYTES = 2
  NSectors = 18
  File = {f, g}
  Lengths = {1, 3, 5, 9, 10, 12, 17}
  MaxRemovals = 1
  Writer = {w1}
  Reader = {r1, r2}
  Zero = Zero
  Junk = Junk
  NoSector = NoSector
  MaxLen = 3
  MaxWrites = 2
  NBlocks = 8
  FileHandle = {1, 2, 3, 4}
  DirHandle = {5, 6}
  MaxFd = 7
SYMMETRY Interchangeable
INVARIANTS
  SectorsAccounted
  ReadersSeeWrites
  WritesSurvive
  FilesAccounted
PROPERTY
  BytesStay
CHECK_DEADLOCK FALSE
