SPECIFICATION Spec
CONSTANTS
  main = main
  a = a
  b = b
  c = c
  NULL = NULL
  Proc = {main, a, b, c}
  Code = {7}
CONSTRAINT FewAbrupt
SYMMETRY Interchangeable
INVARIANTS
  WaitGetsStatus
  RefCntExact
  NoLeak
  ExecKnowsLoad
CHECK_DEADLOCK FALSE
