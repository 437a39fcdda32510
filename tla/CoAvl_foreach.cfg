SPECIFICATION TreeSpec
CONSTANTS
  Value = {v, w}
  NoError = TRUE
  MaxKey = 3
  CO_AVL_STACK_MAX_DEPTH = 4
INVARIANTS
  ForEachStops
