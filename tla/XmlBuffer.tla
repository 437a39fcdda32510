------------------------------ MODULE XmlBuffer ------------------------------
(***************************************************************************)
(* The parse buffer of src/co/expat/xmlparse.c: XML_GetBuffer makes room   *)
(* behind the bytes that are not parsed yet, by moving them to the front   *)
(* or into a larger buffer, XML_ParseBuffer takes over what the caller has *)
(* written there, and callProcessor puts off parsing a token again before  *)
(* much more of it is there.                                               *)
(*                                                                         *)
(* Pointers are offsets into the buffer, which is a function on the bytes  *)
(* allocated; it has none while m_buffer is NULL.                          *)
(***************************************************************************)
EXTENDS Integers, Sequences

CONSTANTS
  Byte,               \* what the input is made of
  Chunk,              \* what the caller may write at once
  Junk,               \* content of memory behind m_bufferEnd
  XML_CONTEXT_BYTES,  \* parsed bytes that are kept
  INIT_BUFFER_SIZE,   \* half of what is allocated first
  INT_MAX,
  BUFSIZ,             \* bytes the caller asks for
  Oom                 \* TRUE: malloc may fail

ASSUME BufferAssumption ==
  /\ Chunk \subseteq Seq(Byte)
  /\ Junk \notin Byte /\ Oom \in BOOLEAN
  /\ XML_CONTEXT_BYTES \in Nat /\ INIT_BUFFER_SIZE \in Nat \ {0}
  /\ INT_MAX \in Nat /\ BUFSIZ \in Nat \ {0}

VARIABLES
  buffer,                   \* the bytes from m_buffer to m_bufferLim
  bufferLim,
  bufferPtr,                \* the first byte to be parsed
  bufferEnd,                \* behind the last one
  lastBufferRequestSize,
  partialTokenBytesBefore,
  room,                     \* the bytes the caller may write
  haveNow,                  \* have_now of callProcessor while it runs, else Idle
  given,                    \* all bytes the caller has given to the parser
  parsed                    \* how many of them were parsed

bufferVars == <<buffer, bufferLim, bufferPtr, bufferEnd, lastBufferRequestSize,
                partialTokenBytesBefore, room, haveNow, given, parsed>>

Idle == -1
NotParsed == bufferEnd - bufferPtr

BufferInit ==
  /\ buffer = [j \in 0 .. -1 |-> Junk]
  /\ bufferLim = 0 /\ bufferPtr = 0 /\ bufferEnd = 0
  /\ lastBufferRequestSize = 0 /\ partialTokenBytesBefore = 0
  /\ room = 0 /\ haveNow = Idle
  /\ given = <<>> /\ parsed = 0

-----------------------------------------------------------------------------
(* XML_GetBuffer *)

Least(a, b) == IF a <= b THEN a ELSE b

\* (mutant) no parsed byte is kept
KeepNothing == 0

keep == Least(bufferPtr, XML_CONTEXT_BYTES)
neededSize(len) == len + NotParsed + keep

\* (mutant) room before bufferPtr is taken for room behind bufferEnd
HasRoomAnywhere(len) == bufferLim # 0 /\ len <= bufferLim - NotParsed

HasRoom(len) == bufferLim # 0 /\ len <= bufferLim - bufferEnd

\* The n bytes from offset on come to the start of a buffer of that size.
\* (mutant) the parsed bytes that are kept are not skipped
MovedFromPtr(offset, n, size) ==
  [j \in 0 .. size - 1 |-> IF j < n /\ bufferPtr + j < bufferLim THEN buffer[bufferPtr + j] ELSE Junk]

Moved(offset, n, size) ==
  [j \in 0 .. size - 1 |-> IF j < n THEN buffer[offset + j] ELSE Junk]

MoveDown(len) ==
  /\ ~HasRoom(len)
  /\ bufferLim # 0 /\ neededSize(len) <= bufferLim
  /\ buffer' = Moved(bufferPtr - keep, NotParsed + keep, bufferLim)
  /\ bufferEnd' = NotParsed + keep
  /\ bufferPtr' = keep
  /\ room' = len
  /\ UNCHANGED bufferLim

\* The size is doubled until it is enough.
OldSize == IF bufferLim = 0 THEN INIT_BUFFER_SIZE ELSE bufferLim
Sizes(needed) ==
  {n \in 1 .. INT_MAX : n >= needed /\ \E k \in 1 .. 30 : 2 ^ k <= n /\ n = OldSize * 2 ^ k}

Enlarge(len) ==
  /\ ~HasRoom(len)
  /\ bufferLim = 0 \/ neededSize(len) > bufferLim
  /\ \E size \in Sizes(neededSize(len)) :
       /\ \A n \in Sizes(neededSize(len)) : size <= n
       /\ buffer' = Moved(bufferPtr - keep, NotParsed + keep, size)
       /\ bufferLim' = size
  /\ bufferEnd' = NotParsed + keep
  /\ bufferPtr' = keep
  /\ room' = len

InPlace(len) ==
  /\ HasRoom(len)
  /\ room' = len
  /\ UNCHANGED <<buffer, bufferLim, bufferPtr, bufferEnd>>

\* No memory, or more than an int can say.
NoBuffer(len) ==
  /\ ~HasRoom(len)
  /\ bufferLim = 0 \/ neededSize(len) > bufferLim
  /\ Oom \/ Sizes(neededSize(len)) = {}
  /\ room' = 0
  /\ UNCHANGED <<buffer, bufferLim, bufferPtr, bufferEnd>>

XML_GetBuffer(len) ==
  /\ haveNow = Idle
  /\ InPlace(len) \/ MoveDown(len) \/ Enlarge(len) \/ NoBuffer(len)
  /\ lastBufferRequestSize' = len
  /\ UNCHANGED <<partialTokenBytesBefore, haveNow, given, parsed>>

-----------------------------------------------------------------------------
(* XML_ParseBuffer *)

\* Is a token that was incomplete tried again?  Yes if it has become twice as
\* long, or if the next call of XML_GetBuffer would need a larger buffer.
enough(have, end) ==
  \/ have >= 2 * partialTokenBytesBefore
  \/ lastBufferRequestSize >
       bufferPtr - Least(bufferPtr, XML_CONTEXT_BYTES) + (bufferLim - end)

\* The caller has written data, and the call begins.
TakeOver(data, isFinal) ==
  /\ haveNow = Idle /\ bufferLim # 0
  /\ Len(data) <= room
  /\ buffer' = [j \in 0 .. bufferLim - 1 |->
                  IF j \in bufferEnd .. bufferEnd + Len(data) - 1
                  THEN data[j - bufferEnd + 1] ELSE buffer[j]]
  /\ bufferEnd' = bufferEnd + Len(data)
  /\ given' = given \o data
  /\ room' = 0
  /\ haveNow' = IF isFinal \/ enough(NotParsed + Len(data), bufferEnd + Len(data))
                THEN NotParsed + Len(data) ELSE Idle
  /\ UNCHANGED <<bufferLim, bufferPtr, lastBufferRequestSize, partialTokenBytesBefore, parsed>>

\* A processor has used n bytes.
Consume(n) ==
  /\ haveNow # Idle
  /\ bufferPtr' = bufferPtr + n
  /\ parsed' = parsed + n
  /\ UNCHANGED <<buffer, bufferLim, bufferEnd, lastBufferRequestSize,
                 partialTokenBytesBefore, room, haveNow, given>>

\* callProcessor returns; bytes that were all left are the start of a token.
Return ==
  /\ haveNow # Idle
  /\ partialTokenBytesBefore' = IF NotParsed = haveNow THEN haveNow ELSE 0
  /\ haveNow' = Idle
  /\ UNCHANGED <<buffer, bufferLim, bufferPtr, bufferEnd, lastBufferRequestSize, room,
                 given, parsed>>

\* It returns an error.  The code does not say then how far it came, as no byte
\* is read any more.
ReturnError ==
  /\ haveNow # Idle
  /\ haveNow' = Idle
  /\ UNCHANGED <<buffer, bufferLim, bufferPtr, bufferEnd, lastBufferRequestSize,
                 partialTokenBytesBefore, room, given, parsed>>

BufferNext ==
  \/ XML_GetBuffer(BUFSIZ)
  \/ \E data \in Chunk, isFinal \in BOOLEAN : TakeOver(data, isFinal)
  \/ \E n \in 0 .. NotParsed : Consume(n)
  \/ Return
  \/ ReturnError

BufferSpec == BufferInit /\ [][BufferNext]_bufferVars

-----------------------------------------------------------------------------
(* Properties *)

\* The pointers keep the order that XML_ParserStruct shows, and the caller is
\* never given more room than there is behind bufferEnd.
PointersInOrder ==
  /\ 0 <= bufferPtr /\ bufferPtr <= bufferEnd /\ bufferEnd <= bufferLim
  /\ room <= bufferLim - bufferEnd

\* However often the bytes are moved, what is to be parsed is what was given and
\* not parsed, byte for byte, and up to XML_CONTEXT_BYTES before it, which error
\* messages show, are those that were parsed last (XML_GetBuffer).
BytesKept ==
  /\ Len(given) = parsed + NotParsed
  /\ \A j \in 0 .. NotParsed - 1 : buffer[bufferPtr + j] = given[parsed + j + 1]
  /\ \A j \in 1 .. Least(parsed, XML_CONTEXT_BYTES) :
       bufferPtr - j >= 0 /\ buffer[bufferPtr - j] = given[parsed - j + 1]

\* The buffer is a window on what was given, inside of its memory.
BufferSound == PointersInOrder /\ BytesKept
=============================================================================
