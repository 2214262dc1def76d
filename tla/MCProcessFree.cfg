SPECIFICATION Spec
CONSTANTS
  main = main
  a = a
  b = b
  c = c
  NULL = NULL
  Proc = {main, a, b}
  Code = {7}
SYMMETRY Interchangeable
INVARIANTS
  StatusNotUsedAfterFree
CHECK_DEADLOCK FALSE
