SPECIFICATION ContainersSpec
CONSTANTS
  Elem = {a, b}
  Junk = Junk
  COV_EXTEND = 2
  MaxCnt = 5
  Oom = TRUE
  Buf = {b1, b2, b3, b4, b5}
  NULL = NULL
  Static = Static
  Name = {n1, n2}
  Empty = Empty
  Uses <- SafeUses
  Value = {v, w}
  NoError = FALSE
  MaxKey = 6
  CO_AVL_STACK_MAX_DEPTH = 4
INVARIANTS
  CapacityOK
  ForEachReadsStored
  AvlTree
  TraversedInOrder
  BuffersOwned
PROPERTIES
  IsSequence
  IsDictionary
