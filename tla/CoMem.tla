-------------------------------- MODULE CoMem --------------------------------
(***************************************************************************)
(* Memory blocks (co/co.c, lines 527 to 606): the bytes o->s.str, their    *)
(* number o->s.len and the recorded size of the allocation o->s.memlen.    *)
(* The callers of coMemAdd in this library delete the block after an       *)
(* error, and so does the application here.                                *)
(***************************************************************************)
EXTENDS Integers, Sequences

CONSTANTS
  Block,       \* the memory blocks
  Byte,        \* the bytes
  Junk,        \* content of memory that was not written yet
  None,        \* the content of a block that does not exist
  MIN_EXTEND,  \* CO_MEM_MIN_EXTEND
  MAX_EXTEND,  \* CO_MEM_MAX_EXTEND
  Mems,        \* the byte strings the application adds
  MaxLen,      \* bound: the number of bytes of a block
  Oom          \* TRUE: malloc and realloc may fail

ASSUME ByteAssumption == Junk \notin Byte /\ Mems \subseteq Seq(Byte) /\ None \notin Seq(Byte)
ASSUME SizeAssumption ==
  /\ MIN_EXTEND \in Nat \ {0}
  /\ MAX_EXTEND \in Nat
  /\ MIN_EXTEND <= MAX_EXTEND
  /\ MaxLen \in Nat
  /\ Oom \in BOOLEAN

VARIABLES
  live,    \* the blocks that exist
  str,     \* str[o]: the allocated bytes, a function on 0 .. size - 1; no
           \* bytes when o->s.str is NULL
  len,     \* len[o]: o->s.len
  memlen,  \* memlen[o]: o->s.memlen
  failed,  \* the blocks for which coMemAdd has returned 0
  ret      \* what the last coMemAdd returned

vars == <<live, str, len, memlen, failed, ret>>

Larger(a, b)  == IF a < b THEN b ELSE a
Smaller(a, b) == IF a < b THEN a ELSE b

\* malloc or realloc to n bytes: the old bytes are kept
Resized(bytes, n) ==
  [j \in 0 .. n - 1 |-> IF j \in DOMAIN bytes THEN bytes[j] ELSE Junk]

\* memcpy(bytes + at, mem, Len(mem))
Copied(bytes, at, mem) ==
  [j \in DOMAIN bytes |->
     IF at <= j /\ j < at + Len(mem) THEN mem[j - at + 1] ELSE bytes[j]]

\* the extension: doubled, between the bounds, but never less than needed
Extend(memlen_o, n) ==
  Larger(Smaller(Larger(memlen_o, MIN_EXTEND), MAX_EXTEND), n)

\* (mutant: one byte less than needed is seen as enough)
NeedsOneMore(o, n) == len[o] + n > memlen[o] + 1

\* is realloc called for n more bytes?
NeedsMore(o, n) == len[o] + n > memlen[o]

\* the size of the allocation after n bytes were added
NewMemlen(o, n) ==
  IF str[o] = <<>> THEN Extend(memlen[o], n)
  ELSE IF NeedsMore(o, n) THEN len[o] + Extend(memlen[o], n)
  ELSE memlen[o]

coNewMem(o) ==
  /\ o \notin live
  /\ live'   = live \cup {o}
  /\ str'    = [str EXCEPT ![o] = <<>>]
  /\ len'    = [len EXCEPT ![o] = 0]
  /\ memlen' = [memlen EXCEPT ![o] = 0]
  /\ UNCHANGED <<failed, ret>>

\* (mutant: the bytes are copied to the start)
AddAtStart(o, mem) ==
  /\ str'    = [str EXCEPT ![o] = Copied(Resized(@, NewMemlen(o, Len(mem))), 0, mem)]
  /\ len'    = [len EXCEPT ![o] = @ + Len(mem)]
  /\ memlen' = [memlen EXCEPT ![o] = NewMemlen(o, Len(mem))]

\* the bytes are copied behind those the block has
AddBytes(o, mem) ==
  /\ str'    = [str EXCEPT ![o] =
                  Copied(Resized(@, NewMemlen(o, Len(mem))), len[o], mem)]
  /\ len'    = [len EXCEPT ![o] = @ + Len(mem)]
  /\ memlen' = [memlen EXCEPT ![o] = NewMemlen(o, Len(mem))]

coMemAdd(o, mem) ==
  /\ o \in live \ failed
  /\ len[o] + Len(mem) <= MaxLen
  /\ IF mem = <<>> THEN UNCHANGED <<str, len, memlen>> ELSE AddBytes(o, mem)
  /\ ret' = 1
  /\ UNCHANGED <<live, failed>>

\* memlen is assigned before the result of malloc or realloc is looked at
coMemAddFails(o, mem) ==
  /\ Oom
  /\ o \in live \ failed
  /\ mem # <<>>
  /\ str[o] = <<>> \/ NeedsMore(o, Len(mem))
  /\ memlen' = [memlen EXCEPT ![o] = NewMemlen(o, Len(mem))]
  /\ failed' = failed \cup {o}
  /\ ret' = 0
  /\ UNCHANGED <<live, str, len>>

\* coMemAdd of all bytes to a new block; a memory error leaves no block that
\* the application knows of
coMemClone(o, n) ==
  /\ o \in live \ failed
  /\ n \notin live
  /\ live'   = live \cup {n}
  /\ len'    = [len EXCEPT ![n] = len[o]]
  /\ memlen' = [memlen EXCEPT ![n] = IF len[o] = 0 THEN 0 ELSE Extend(0, len[o])]
  /\ str'    = [str EXCEPT ![n] =
                  [j \in 0 .. memlen'[n] - 1 |->
                     IF j < len[o] THEN str[o][j] ELSE Junk]]
  /\ UNCHANGED <<failed, ret>>

\* coDelete, which calls coMemDestroy
coMemDestroy(o) ==
  /\ o \in live
  /\ live'   = live \ {o}
  /\ str'    = [str EXCEPT ![o] = <<>>]
  /\ len'    = [len EXCEPT ![o] = 0]
  /\ memlen' = [memlen EXCEPT ![o] = 0]
  /\ failed' = failed \ {o}
  /\ UNCHANGED ret

Init ==
  /\ live   = {}
  /\ str    = [o \in Block |-> <<>>]
  /\ len    = [o \in Block |-> 0]
  /\ memlen = [o \in Block |-> 0]
  /\ failed = {}
  /\ ret = 1

Next ==
  \E o \in Block :
    \/ coNewMem(o)
    \/ \E mem \in Mems : coMemAdd(o, mem) \/ coMemAddFails(o, mem)
    \/ \E n \in Block : coMemClone(o, n)
    \/ coMemDestroy(o)

Spec == Init /\ [][Next]_vars

-----------------------------------------------------------------------------
(* Properties *)

\* Every variable has its type.
TypeOK ==
  /\ live \subseteq Block
  /\ failed \subseteq live
  /\ len \in [Block -> Nat]
  /\ memlen \in [Block -> Nat]
  /\ ret \in {0, 1}
  /\ DOMAIN str = Block

\* the memory of o has memlen bytes
Sized(o) == DOMAIN str[o] = 0 .. memlen[o] - 1

\* The bytes of a block are inside its memory and were written, and until
\* coMemAdd fails the recorded size is the size allocated: memcpy writes inside.
BytesInside ==
  \A o \in Block :
    /\ \A j \in 0 .. len[o] - 1 : j \in DOMAIN str[o] /\ str[o][j] \in Byte
    /\ o \notin failed => Sized(o)

\* A block is the byte string that was put into it, also after an error.
Content(o) == IF o \in live THEN [n \in 1 .. len[o] |-> str[o][n - 1]] ELSE None
Bytes == INSTANCE CoBytes WITH bytes <- [o \in Block |-> Content(o)]
IsByteString == Bytes!Spec
=============================================================================
