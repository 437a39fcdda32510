-------------------------------- MODULE CoText --------------------------------
(***************************************************************************)
(* What co/co.h promises about string objects: an object has a text.       *)
(* coStrAdd and coStrSet change it and return 1, or return 0 and change    *)
(* nothing; coClone makes an equal object; the text can be taken out.      *)
(***************************************************************************)
EXTENDS Naturals, Sequences

CONSTANTS
  StrObj,   \* the string objects
  Strings,  \* the strings that are given to the functions
  None      \* the text of an object that does not exist

VARIABLES
  text,     \* text[o]: the text of o, None when o does not exist
  sret,     \* what the last coStrAdd or coStrSet returned
  taken     \* what coStrDeleteAndGetAllocatedStringContent has returned

Init == text = [o \in StrObj |-> None] /\ sret = 1 /\ taken = None

New(o, s) == /\ text[o] = None
             /\ text' = [text EXCEPT ![o] = s]
             /\ taken' = None /\ UNCHANGED sret

Change(o, s) == /\ text[o] # None
                /\ \/ text' = [text EXCEPT ![o] = s] /\ sret' = 1
                   \/ sret' = 0 /\ UNCHANGED text
                /\ taken' = None

Clone(o, n) == /\ text[o] # None /\ text[n] = None
               /\ text' = [text EXCEPT ![n] = text[o]]
               /\ taken' = None /\ UNCHANGED sret

Delete(o) == /\ text' = [text EXCEPT ![o] = None]
             /\ taken' \in {None, text[o]}
             /\ UNCHANGED sret

Next == \/ \E o \in StrObj, s \in Strings : New(o, s) \/ Change(o, s) \/ Change(o, text[o] \o s)
        \/ \E o, n \in StrObj : Clone(o, n)
        \/ \E o \in StrObj : Delete(o)

Spec == Init /\ [][Next]_<<text, sret, taken>>
=============================================================================
