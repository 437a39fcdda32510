------------------------------ MODULE CoSequence ------------------------------
(***************************************************************************)
(* What co/co.h promises about a vector object: a sequence of elements.    *)
(* Positions start at 0; coVectorAdd returns the position of the new       *)
(* element, or -1 and changes nothing.                                     *)
(***************************************************************************)
EXTENDS Integers, Sequences

CONSTANTS Elem

VARIABLES
  elems,  \* the elements
  pos     \* what the last coVectorAdd returned

Init == elems = <<>> /\ pos = -1

Add(p) == \/ elems' = Append(elems, p) /\ pos' = Len(elems)
          \/ pos' = -1 /\ UNCHANGED elems

Set(i, p) == elems' = [elems EXCEPT ![i + 1] = p] /\ UNCHANGED pos

EraseLast == /\ elems # <<>>
             /\ elems' = SubSeq(elems, 1, Len(elems) - 1)
             /\ UNCHANGED pos

Clear == elems' = <<>> /\ UNCHANGED pos

Next ==
  \/ \E p \in Elem : Add(p)
  \/ \E p \in Elem, i \in 0 .. Len(elems) - 1 : Set(i, p)
  \/ EraseLast
  \/ Clear

Spec == Init /\ [][Next]_<<elems, pos>>
=============================================================================
