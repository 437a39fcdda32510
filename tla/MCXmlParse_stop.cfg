CONSTANTS
  Documents <- StopDocuments
  Byte <- Symbol
  Chunk <- Written
  Junk = Junk
  XML_CONTEXT_BYTES = 1
  INIT_BUFFER_SIZE = 2
  INT_MAX = 64
  BUFSIZ = 3
  Oom = TRUE
  InitGroupSize = 2
  MayStop = TRUE
SPECIFICATION Spec
INVARIANTS
  StopMeansError
