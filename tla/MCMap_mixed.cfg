SPECIFICATION MapSpec
CONSTANTS
  Buf = {b1, b2, b3, b4, b5}
  NULL = NULL
  Static = Static
  Name = {n1, n2}
  Empty = Empty
  Uses <- BothFunctions
  Value = {v, w}
  NoError = FALSE
  MaxKey = 6
  CO_AVL_STACK_MAX_DEPTH = 4
CHECK_DEADLOCK FALSE
INVARIANTS
  KeysLive
