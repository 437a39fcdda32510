CONSTANTS
  Documents <- SmallDocuments
  Byte <- Symbol
  Chunk <- Written
  Junk = Junk
  XML_CONTEXT_BYTES = 1
  INIT_BUFFER_SIZE = 2
  INT_MAX = 64
  BUFSIZ = 3
  Oom = TRUE
  InitGroupSize = 2
  MayStop = TRUE
  NoDocument = NoDocument
  TextPieces <- Pieces
  HandlerOom = TRUE
  COV_EXTEND = 1
  MaxElements = 4
  MaxTexts = 3
SPECIFICATION ReaderSpec
INVARIANTS
  DeliversDocument
  BufferSound
  EachOwnedOnce
  DocumentRead
PROPERTIES
  ParserEnds
