SPECIFICATION LiveSpec
CONSTANTS
  main = main
  a = a
  b = b
  c = c
  NULL = NULL
  Proc = {main, a, b}
  Code = {7}
PROPERTIES
  CallsEnd
CHECK_DEADLOCK FALSE
