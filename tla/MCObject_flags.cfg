SPECIFICATION ObjectSpec
CONSTANTS
  Obj = {o1, o2, o3, o4, o5}
  NULL = NULL
  Pending = Pending
  Key = {1, 2}
  MaxCnt = 4
  COV_EXTEND = 1
  StoreNull = FALSE
  LeafKinds = {"str", "mem"}
  VectorFlags <- OwningOrFirst
  MapFlags <- OwningOnly
SYMMETRY Addresses
CHECK_DEADLOCK FALSE
INVARIANTS
  CloneFlagsNone
