SPECIFICATION Spec
CONSTANTS
  main = main
  a = a
  b = b
  c = c
  NULL = NULL
  Proc = {main, a, b, c}
  Code = {7}
CONSTRAINT FewAbrupt
SYMMETRY Interchangeable
INVARIANT KilledIsMinusOne
CHECK_DEADLOCK FALSE
