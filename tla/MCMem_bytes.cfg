SPECIFICATION BytesSpec
CONSTANTS
  Block = {o, n}
  Byte = {a, b}
  Junk = Junk
  None = None
  MIN_EXTEND = 2
  MAX_EXTEND = 3
  Mems <- Short
  MaxLen = 5
  Oom = TRUE
  Nul = Nul
  StrObj = {o, n}
  Strings <- ShortTexts
  MaxText = 3
  NULL = NULL
  Formats = {"S19", "HEX", "ELF"}
  Address = {0, 1, 2}
  Segments = {1}
  Offsets = {0, 1}
  Keys = {0, 1, 2}
  MaxSize = 3
  MaxBytes = 2
  MaxRecords = 3
  MaxLost = 1
  MayFail = TRUE
CHECK_DEADLOCK FALSE
INVARIANTS
  BytesInside
  ReadsInside
  Predecessor
  AreaIsRight
PROPERTIES
  IsByteString
  IsText
  LookupReturns
