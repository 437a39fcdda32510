------------------------------- MODULE CoVector -------------------------------
(***************************************************************************)
(* The storage of a vector object (co/co.c, lines 127 to 311): the array   *)
(* o->v.list, which realloc extends, its capacity o->v.max and the number  *)
(* of elements o->v.cnt; the loop of coVectorForEach, whose callback may   *)
(* change the vector, and the loop of coVectorErase.  Elements are values  *)
(* here; who deletes them is in CoObject.                                  *)
(***************************************************************************)
EXTENDS Integers, Sequences

CONSTANTS
  Elem,          \* the elements, NULL included
  Junk,          \* content of memory that was not written yet
  COV_EXTEND,    \* slots added per allocation (64 in the code)
  MaxCnt,        \* bound: number of elements
  Oom            \* TRUE: realloc may fail

ASSUME ExtendAssumption == COV_EXTEND \in Nat \ {0} /\ MaxCnt \in Nat
ASSUME ElemAssumption == Elem # {} /\ Junk \notin Elem /\ Oom \in BOOLEAN

VARIABLES
  list,  \* the array, list[j] for j in 0 .. (slots allocated) - 1
  max,   \* o->v.max
  cnt,   \* o->v.cnt
  pos,   \* what the last coVectorAdd returned
  pc,    \* the loop that is running: "no", "foreach" or "erase"
  i,     \* its index
  end    \* the number of elements when coVectorForEach was called

vars == <<list, max, cnt, pos, pc, i, end>>

-----------------------------------------------------------------------------
(* Operations; during coVectorForEach the callback calls them *)

MayCall == pc \in {"no", "foreach"}

\* (mutant: realloc is asked for one more element only)
GrownByOne == [j \in 0 .. cnt |-> IF j \in DOMAIN list THEN list[j] ELSE Junk]

\* realloc((o->v.cnt + COV_EXTEND) * sizeof(co))
Grown == [j \in 0 .. cnt + COV_EXTEND - 1 |->
            IF j \in DOMAIN list THEN list[j] ELSE Junk]

\* (mutant: the new number of elements is returned)
AddHasRoomLate(p) ==
  /\ cnt < max
  /\ list' = [list EXCEPT ![cnt] = p]
  /\ pos' = cnt + 1
  /\ UNCHANGED max

AddHasRoom(p) ==
  /\ cnt < max
  /\ list' = [list EXCEPT ![cnt] = p]
  /\ pos' = cnt
  /\ UNCHANGED max

AddGrows(p) ==
  /\ max <= cnt
  /\ list' = [Grown EXCEPT ![cnt] = p]
  /\ max' = max + COV_EXTEND
  /\ pos' = cnt

coVectorAdd(p) ==
  /\ MayCall
  /\ cnt < MaxCnt
  /\ AddHasRoom(p) \/ AddGrows(p)
  /\ cnt' = cnt + 1
  /\ UNCHANGED <<pc, i, end>>

coVectorAddFails ==
  /\ MayCall
  /\ Oom
  /\ max <= cnt
  /\ pos' = -1
  /\ UNCHANGED <<list, max, cnt, pc, i, end>>

coVectorSet(j, p) ==
  /\ MayCall
  /\ j < cnt
  /\ list' = [list EXCEPT ![j] = p]
  /\ UNCHANGED <<max, cnt, pos, pc, i, end>>

coVectorClear ==
  /\ MayCall
  /\ cnt' = 0
  /\ UNCHANGED <<list, max, pos, pc, i, end>>

coVectorEraseLast ==
  /\ MayCall
  /\ cnt > 0
  /\ cnt' = cnt - 1
  /\ UNCHANGED <<list, max, pos, pc, i, end>>

\* coVectorErase of element j: i is incremented once, before the loop
coVectorErase(j) ==
  /\ pc = "no"
  /\ j < cnt
  /\ pc' = "erase"
  /\ i' = j + 1
  /\ UNCHANGED <<list, max, cnt, pos, end>>

\* while (i < cnt) list[i - 1] = list[i]
EraseShift ==
  /\ pc = "erase"
  /\ i < cnt
  /\ list' = [list EXCEPT ![i - 1] = list[i]]
  /\ UNCHANGED <<max, cnt, pos, pc, i, end>>

EraseDone ==
  /\ pc = "erase"
  /\ i >= cnt
  /\ cnt' = cnt - 1
  /\ pc' = "no"
  /\ UNCHANGED <<list, max, pos, i, end>>

\* coVectorForEach reads the number of elements once
coVectorForEach ==
  /\ pc = "no"
  /\ pc' = "foreach"
  /\ i' = 0
  /\ end' = cnt
  /\ UNCHANGED <<list, max, cnt, pos>>

\* (mutant: the loop goes one too far)
ForEachGoesOn == i <= end

ForEachMore == i < end

\* the callback gets list[i]; the callback may also end the loop by returning 0
ForEachNext ==
  /\ pc = "foreach"
  /\ ForEachMore
  /\ i' = i + 1
  /\ pc' \in {"foreach", "no"}
  /\ UNCHANGED <<list, max, cnt, pos, end>>

ForEachDone ==
  /\ pc = "foreach"
  /\ ~ForEachMore
  /\ pc' = "no"
  /\ UNCHANGED <<list, max, cnt, pos, i, end>>

LoopStep == EraseShift \/ EraseDone \/ ForEachNext \/ ForEachDone

Init ==
  /\ list = [j \in 0 .. COV_EXTEND - 1 |-> Junk]
  /\ max = COV_EXTEND
  /\ cnt = 0
  /\ pos = -1
  /\ pc = "no"
  /\ i = 0
  /\ end = 0

Next ==
  \/ \E p \in Elem : coVectorAdd(p)
  \/ coVectorAddFails
  \/ \E p \in Elem, j \in 0 .. MaxCnt : coVectorSet(j, p)
  \/ coVectorClear
  \/ coVectorEraseLast
  \/ \E j \in 0 .. MaxCnt : coVectorErase(j)
  \/ coVectorForEach
  \/ LoopStep

\* a loop that was entered is executed
Spec == Init /\ [][Next]_vars /\ WF_vars(LoopStep)

-----------------------------------------------------------------------------
(* Properties *)

\* Every variable has its type.
TypeOK ==
  /\ DOMAIN list \subseteq Nat
  /\ list \in [DOMAIN list -> Elem \cup {Junk}]
  /\ max \in Nat
  /\ cnt \in 0 .. MaxCnt
  /\ pos \in -1 .. MaxCnt
  /\ pc \in {"no", "foreach", "erase"}
  /\ i \in 0 .. MaxCnt + 1
  /\ end \in 0 .. MaxCnt

\* The capacity is the memory that was allocated, and the elements fit into it.
CapacityOK == DOMAIN list = 0 .. max - 1 /\ cnt <= max

\* Every element was stored by somebody.
ElementsStored == \A j \in 0 .. cnt - 1 : list[j] \in Elem

\* coVectorForEach reads inside the array and reads what was stored there,
\* although the callback may have added, erased or cleared elements.
ForEachReadsStored ==
  pc = "foreach" /\ ForEachMore => i \in DOMAIN list /\ list[i] \in Elem

\* The vector is the sequence that co.h describes.  (A coVectorErase that does
\* not return, see EraseReturns, is seen as a coVectorSet by the others.)
Sequence == INSTANCE CoSequence WITH
              elems <- [n \in 1 .. cnt |-> list[n - 1]]
IsSequence == Sequence!Spec

\* "delete an element in the vector. Size is reduced by 1" (co.c:292): a call of
\* coVectorErase returns.
EraseReturns == pc = "erase" ~> pc = "no"
=============================================================================
