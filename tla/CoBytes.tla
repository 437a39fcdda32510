------------------------------- MODULE CoBytes -------------------------------
(***************************************************************************)
(* What co/co.h promises about memory blocks: a block is a string of       *)
(* bytes.  coMemAdd appends bytes and returns 1, or returns 0 and changes  *)
(* nothing; coClone makes an equal block.                                  *)
(***************************************************************************)
EXTENDS Naturals, Sequences

CONSTANTS
  Block,  \* the blocks
  Mems,   \* the byte strings that are added
  None    \* the content of a block that does not exist

VARIABLES
  bytes,  \* bytes[o]: the content of o, None when o does not exist
  ret     \* what the last coMemAdd returned

Init == bytes = [o \in Block |-> None] /\ ret = 1

New(o) == /\ bytes[o] = None
          /\ bytes' = [bytes EXCEPT ![o] = <<>>]
          /\ UNCHANGED ret

Add(o, mem) == /\ bytes[o] # None
               /\ \/ bytes' = [bytes EXCEPT ![o] = @ \o mem] /\ ret' = 1
                  \/ ret' = 0 /\ UNCHANGED bytes

Clone(o, n) == /\ bytes[o] # None /\ bytes[n] = None
               /\ bytes' = [bytes EXCEPT ![n] = bytes[o]]
               /\ UNCHANGED ret

Delete(o) == bytes' = [bytes EXCEPT ![o] = None] /\ UNCHANGED ret

Next == \/ \E o \in Block : New(o) \/ Delete(o)
        \/ \E o \in Block, mem \in Mems : Add(o, mem)
        \/ \E o, n \in Block : Clone(o, n)

Spec == Init /\ [][Next]_<<bytes, ret>>
=============================================================================
