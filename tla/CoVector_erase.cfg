SPECIFICATION Spec
CONSTANTS
  Elem = {a, b}
  Junk = Junk
  COV_EXTEND = 2
  MaxCnt = 3
  Oom = FALSE
PROPERTIES
  EraseReturns
