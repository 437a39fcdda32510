SPECIFICATION ReadersSpec
CONSTANTS
  CHUNK = 3
  BLOCK = 5
  End = 256
  Corrupt = 257
  Junk = 120
  COV_EXTEND = 1
  Oom = TRUE
  true <- word_t
  false <- word_f
  null <- word_n
  COJ_STR_BUF = 2
  begin <- slash_b
  end <- slash_e
  StaticWords <- Zero
  NoToken = NoToken
  CO_A2L_IDENTIFIER_STRING_MAX = 13
  separator = 44
  CsvExtend = 2
  CO_CSV_FIELD_STRING_MAX = 4
  MaxFields = 5
  MaxRows = 4
  NULL = NULL
  Readable = {"a", "b", "s", "t"}
  CommandLines <- SomeLines
  SW_PAIR_MAX = 3
  CreateFails = TRUE
INVARIANTS
  ReaderDelivers
  WrittenIsRead
  AllocatedIsOwned
  ListInOrder
  ThreadsDone
  S19Joined
PROPERTIES
  ReadEnds
  ListReturned
