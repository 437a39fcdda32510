-------------------------- MODULE CoContainerProof --------------------------
(***************************************************************************)
(* Proofs about the containers: the array of a vector (CoVector) and the   *)
(* strings that the entries of a map refer to (CoMapKeys).                 *)
(***************************************************************************)
EXTENDS CoVector, CoMapKeys, SequenceTheorems, TLAPS

(***************************************************************************)
(* CoVector: the array has the recorded capacity, holds the elements, and  *)
(* coVectorForEach reads nothing else, for every extension COV_EXTEND and  *)
(* every number of elements.                                               *)
(***************************************************************************)

\* What the running loop relies on: the elements that coVectorForEach started
\* with are still stored, and coVectorErase has an element to remove.
LoopOK ==
  /\ pc = "foreach" => /\ i <= end /\ end <= max
                       /\ \A j \in 0 .. end - 1 : list[j] \in Elem
  /\ pc = "erase" => 1 <= i /\ i <= cnt

\* The inductive invariant.
Inv == TypeOK /\ CapacityOK /\ ElementsStored /\ LoopOK

\* The array as a function of known domain.
LEMMA ListType ==
  ASSUME Inv
  PROVE  /\ list \in [0 .. max - 1 -> Elem \cup {Junk}]
         /\ max \in Nat /\ cnt \in Nat /\ cnt <= max /\ cnt <= MaxCnt
         /\ MaxCnt \in Nat /\ COV_EXTEND \in Nat \ {0}
  BY ExtendAssumption DEF Inv, TypeOK, CapacityOK

\* An array of the recorded capacity has the type.
LEMMA NewList ==
  ASSUME NEW m \in Nat, list' \in [0 .. m - 1 -> Elem \cup {Junk}], max' = m,
         cnt' \in Nat, cnt' <= m
  PROVE  /\ DOMAIN list' \subseteq Nat /\ list' \in [DOMAIN list' -> Elem \cup {Junk}]
         /\ CapacityOK'
  BY DEF CapacityOK

LEMMA InitInv == ASSUME Init PROVE Inv
  BY ExtendAssumption DEF Init, Inv, TypeOK, CapacityOK, ElementsStored, LoopOK

LEMMA AddInv == ASSUME Inv, NEW p \in Elem, coVectorAdd(p) PROVE Inv'
<1> USE DEF coVectorAdd, MayCall
<1>1. /\ list \in [0 .. max - 1 -> Elem \cup {Junk}]
      /\ max \in Nat /\ cnt \in Nat /\ cnt <= max /\ cnt < MaxCnt
      /\ MaxCnt \in Nat /\ COV_EXTEND \in Nat \ {0}
      /\ cnt' = cnt + 1 /\ pc' = pc /\ i' = i /\ end' = end
  BY ListType
<1>2. PICK m \in Nat : /\ m >= max /\ m >= cnt + 1 /\ max' = m
                       /\ list' \in [0 .. m - 1 -> Elem \cup {Junk}]
                       /\ list'[cnt] = p
                       /\ \A j \in 0 .. max - 1 : j # cnt => list'[j] = list[j]
  <2>1. CASE AddHasRoom(p)
    BY <1>1, <2>1 DEF AddHasRoom
  <2>2. CASE AddGrows(p)
    <3>1. Grown \in [0 .. cnt + COV_EXTEND - 1 -> Elem \cup {Junk}]
      BY <1>1 DEF Grown
    <3>2. max = cnt /\ cnt \in 0 .. cnt + COV_EXTEND - 1
      BY <1>1, <2>2 DEF AddGrows
    <3>3. list' \in [0 .. cnt + COV_EXTEND - 1 -> Elem \cup {Junk}] /\ list'[cnt] = p
      BY <2>2, <3>1, <3>2 DEF AddGrows
    <3>4. \A j \in 0 .. max - 1 : list'[j] = list[j]
      BY <1>1, <2>2, <3>2 DEF AddGrows, Grown
    <3> QED BY <1>1, <2>2, <3>2, <3>3, <3>4 DEF AddGrows
  <2> QED BY <2>1, <2>2
<1>3. pos' \in -1 .. MaxCnt
  BY <1>1 DEF AddHasRoom, AddGrows
<1>4. TypeOK' /\ CapacityOK'
  BY <1>1, <1>2, <1>3, NewList DEF Inv, TypeOK
<1>5. \A j \in 0 .. max - 1 : list[j] \in Elem => list'[j] \in Elem
  BY <1>2
<1>6. ElementsStored'
  BY <1>1, <1>2, <1>5 DEF Inv, ElementsStored
<1>7. LoopOK'
  BY <1>1, <1>2, <1>5 DEF Inv, LoopOK, TypeOK
<1> QED BY <1>4, <1>6, <1>7 DEF Inv

\* Writing an element into a slot that exists, with the same capacity.
LEMMA WriteInv ==
  ASSUME Inv, NEW j \in 0 .. cnt - 1, NEW p \in Elem, list' = [list EXCEPT ![j] = p],
         UNCHANGED <<max, cnt, pos, pc, i, end>>
  PROVE  Inv'
<1>1. /\ list \in [0 .. max - 1 -> Elem \cup {Junk}]
      /\ max \in Nat /\ cnt \in Nat /\ cnt <= max
  BY ListType
<1>2. list' \in [0 .. max - 1 -> Elem \cup {Junk}]
  BY <1>1
<1>3. TypeOK' /\ CapacityOK'
  BY <1>1, <1>2, NewList DEF Inv, TypeOK
<1>4. \A n \in 0 .. max - 1 : list[n] \in Elem => list'[n] \in Elem
  BY <1>1
<1> QED BY <1>1, <1>3, <1>4 DEF Inv, ElementsStored, LoopOK, TypeOK

\* Fewer elements while no coVectorErase is running.
LEMMA FewerInv ==
  ASSUME Inv, cnt' \in 0 .. cnt, pc' # "erase",
         UNCHANGED <<list, max, pos, pc, i, end>>
  PROVE  Inv'
  BY ListType DEF Inv, TypeOK, CapacityOK, ElementsStored, LoopOK

\* The loop variables change, the vector does not.
LEMMA LoopInv ==
  ASSUME Inv, UNCHANGED <<list, max, cnt, pos>>, pc' \in {"no", "foreach", "erase"},
         i' \in 0 .. MaxCnt + 1, end' \in 0 .. MaxCnt, LoopOK'
  PROVE  Inv'
  BY DEF Inv, TypeOK, CapacityOK, ElementsStored

\* One case per action.
LEMMA NextInv == ASSUME Inv, Next PROVE Inv'
<1>1. CASE \E p \in Elem : coVectorAdd(p)
  BY <1>1, AddInv
<1>2. CASE coVectorAddFails
  BY <1>2, ListType DEF coVectorAddFails, Inv, TypeOK, CapacityOK, ElementsStored, LoopOK
<1>3. CASE \E p \in Elem, j \in 0 .. MaxCnt : coVectorSet(j, p)
  <2>1. PICK p \in Elem, j \in 0 .. MaxCnt : coVectorSet(j, p)
    BY <1>3
  <2>2. j \in 0 .. cnt - 1
    BY <2>1, ListType DEF coVectorSet
  <2> QED BY <2>1, <2>2, WriteInv DEF coVectorSet
<1>4. CASE coVectorClear
  BY <1>4, FewerInv, ListType DEF coVectorClear, MayCall
<1>5. CASE coVectorEraseLast
  <2>1. cnt' \in 0 .. cnt /\ pc' # "erase"
    BY <1>5, ListType DEF coVectorEraseLast, MayCall
  <2> QED BY <1>5, <2>1, FewerInv DEF coVectorEraseLast
<1>6. CASE \E j \in 0 .. MaxCnt : coVectorErase(j)
  <2>1. PICK j \in 0 .. MaxCnt : coVectorErase(j)
    BY <1>6
  <2>2. i' \in 0 .. MaxCnt + 1 /\ LoopOK'
    BY <2>1, ListType DEF coVectorErase, LoopOK
  <2> QED BY <2>1, <2>2, LoopInv DEF coVectorErase, Inv, TypeOK
<1>7. CASE coVectorForEach
  <2>1. i' \in 0 .. MaxCnt + 1 /\ end' \in 0 .. MaxCnt /\ LoopOK'
    BY <1>7, ListType DEF coVectorForEach, LoopOK, Inv, ElementsStored
  <2> QED BY <1>7, <2>1, LoopInv DEF coVectorForEach
<1>8. CASE EraseShift
  <2>1. i - 1 \in 0 .. cnt - 1 /\ list[i] \in Elem
    BY <1>8, ListType DEF EraseShift, Inv, LoopOK, ElementsStored, TypeOK
  <2> QED BY <1>8, <2>1, WriteInv DEF EraseShift
<1>9. CASE EraseDone
  <2>1. cnt' \in 0 .. cnt /\ cnt' <= max /\ pc' = "no"
    BY <1>9, ListType DEF EraseDone, Inv, LoopOK, TypeOK
  <2> QED BY <1>9, <2>1, ListType DEF EraseDone, Inv, TypeOK, CapacityOK,
                                      ElementsStored, LoopOK
<1>10. CASE ForEachNext
  <2>1. i' \in 0 .. MaxCnt + 1 /\ end' \in 0 .. MaxCnt /\ LoopOK'
    BY <1>10, ListType DEF ForEachNext, ForEachMore, LoopOK, Inv, TypeOK
  <2> QED BY <1>10, <2>1, LoopInv DEF ForEachNext
<1>11. CASE ForEachDone
  BY <1>11, LoopInv DEF ForEachDone, LoopOK, Inv, TypeOK
<1> QED BY <1>1, <1>2, <1>3, <1>4, <1>5, <1>6, <1>7, <1>8, <1>9, <1>10, <1>11
        DEF Next, LoopStep

THEOREM Invariant == Spec => []Inv
<1>1. Init => Inv
  BY InitInv
<1>2. Inv /\ [Next]_vars => Inv'
  <2>1. ASSUME Inv, UNCHANGED vars PROVE Inv'
    BY <2>1 DEF Inv, TypeOK, CapacityOK, ElementsStored, LoopOK, vars
  <2> QED BY <2>1, NextInv
<1> QED BY <1>1, <1>2, PTL DEF Spec

\* The bookkeeping of coVectorAdd (co.c:144-157) is right for every COV_EXTEND:
\* v.max slots are allocated, and v.cnt never exceeds them.
THEOREM CapacityCorrect == Spec => []CapacityOK
<1>1. Inv => CapacityOK
  BY DEF Inv
<1> QED BY <1>1, Invariant, PTL

\* coVectorForEach (co.c:178-188) reads inside the array and reads stored
\* elements, whatever its callback does to the vector.
THEOREM ForEachSafe == Spec => []ForEachReadsStored
<1>1. Inv => ForEachReadsStored
  BY ListType DEF Inv, LoopOK, ForEachReadsStored, ForEachMore, TypeOK
<1> QED BY <1>1, Invariant, PTL

-----------------------------------------------------------------------------
(* The vector implements the sequence of CoSequence.                        *)

\* the elements of a vector with the array l and c elements
Elements(l, c) == [n \in 1 .. c |-> l[n - 1]]

\* Elements is a sequence, and equal arrays give equal sequences.
LEMMA ElementsSeq ==
  ASSUME NEW l, NEW c \in Nat, \A j \in 0 .. c - 1 : l[j] \in Elem
  PROVE  /\ Elements(l, c) \in Seq(Elem)
         /\ Len(Elements(l, c)) = c
         /\ \A n \in 1 .. c : Elements(l, c)[n] = l[n - 1]
<1>1. \A n \in 1 .. c : n - 1 \in 0 .. c - 1
  OBVIOUS
<1>2. Elements(l, c) \in [1 .. c -> Elem]
  BY <1>1 DEF Elements
<1> HIDE DEF Elements
<1>3. Elements(l, c) \in Seq(Elem)
  BY <1>2
<1>4. Len(Elements(l, c)) = c
  BY <1>2, <1>3
<1> QED BY <1>3, <1>4 DEF Elements

LEMMA ElementsSame ==
  ASSUME NEW k, NEW l, NEW c \in Nat, \A j \in 0 .. c - 1 : k[j] = l[j]
  PROVE  Elements(k, c) = Elements(l, c)
<1>1. \A n \in 1 .. c : n - 1 \in 0 .. c - 1
  OBVIOUS
<1> QED BY <1>1 DEF Elements

\* Adding an element appends it.
LEMMA ElementsAdd ==
  ASSUME NEW k, NEW l, NEW c \in Nat, NEW p \in Elem,
         \A j \in 0 .. c - 1 : l[j] \in Elem /\ k[j] = l[j], k[c] = p
  PROVE  Elements(k, c + 1) = Append(Elements(l, c), p)
<1>1. /\ Elements(l, c) \in Seq(Elem) /\ Len(Elements(l, c)) = c
      /\ \A n \in 1 .. c : Elements(l, c)[n] = l[n - 1]
  BY ElementsSeq
<1>2. \A j \in 0 .. (c + 1) - 1 : k[j] \in Elem
  <2>1. \A j \in 0 .. (c + 1) - 1 : j \in 0 .. c - 1 \/ j = c
    OBVIOUS
  <2> QED BY <2>1
<1>3. /\ Elements(k, c + 1) \in Seq(Elem) /\ Len(Elements(k, c + 1)) = c + 1
      /\ \A n \in 1 .. c + 1 : Elements(k, c + 1)[n] = k[n - 1]
  BY <1>2, ElementsSeq
<1> DEFINE A == Append(Elements(l, c), p)
           B == Elements(k, c + 1)
<1>4. /\ A \in Seq(Elem) /\ Len(A) = c + 1
      /\ \A n \in 1 .. c : A[n] = Elements(l, c)[n]
      /\ A[c + 1] = p
  BY <1>1, AppendProperties
<1>5. \A n \in 1 .. c + 1 : A[n] = B[n]
  <2>1. ASSUME NEW n \in 1 .. c PROVE A[n] = B[n]
    <3>1. n - 1 \in 0 .. c - 1 /\ n \in 1 .. c + 1
      OBVIOUS
    <3> QED BY <1>1, <1>3, <1>4, <3>1
  <2>2. A[c + 1] = B[c + 1]
    <3>1. c + 1 \in 1 .. c + 1 /\ (c + 1) - 1 = c
      OBVIOUS
    <3> QED BY <1>3, <1>4, <3>1
  <2>3. \A n \in 1 .. c + 1 : n \in 1 .. c \/ n = c + 1
    OBVIOUS
  <2> HIDE DEF A, B
  <2> QED BY <2>1, <2>2, <2>3
<1> HIDE DEF A, B
<1>6. B \in Seq(Elem) /\ Len(B) = c + 1
  BY <1>3 DEF B
<1>7. A = B
  BY <1>4, <1>5, <1>6, SeqEqual
<1> QED BY <1>7 DEF A, B

\* Taking the last element away.
LEMMA ElementsLess ==
  ASSUME NEW l, NEW c \in Nat, c > 0, \A j \in 0 .. c - 1 : l[j] \in Elem
  PROVE  Elements(l, c - 1) = SubSeq(Elements(l, c), 1, Len(Elements(l, c)) - 1)
<1> DEFINE d == c - 1
           s == Elements(l, c)
           B == Elements(l, d)
           A == SubSeq(s, 1, d)
<1>1. d \in Nat /\ d \in Int /\ 1 \in Int /\ d <= c
  OBVIOUS
<1>2. /\ s \in Seq(Elem) /\ Len(s) = c
      /\ \A n \in 1 .. c : s[n] = l[n - 1]
  BY ElementsSeq
<1>3. /\ B \in Seq(Elem) /\ Len(B) = d
      /\ \A n \in 1 .. d : B[n] = l[n - 1]
  BY <1>1, ElementsSeq
<1> HIDE DEF d, s, B
<1>4. \A n \in 1 .. d : s[n] \in Elem
  BY <1>1, <1>2
<1>5. /\ A \in Seq(Elem) /\ Len(A) = IF 1 <= d THEN d - 1 + 1 ELSE 0
      /\ \A n \in 1 .. d - 1 + 1 : A[n] = s[1 + n - 1]
  BY <1>1, <1>4, SubSeqProperties
<1>6. Len(A) = d /\ \A n \in 1 .. d : A[n] = s[n]
  BY <1>1, <1>5
<1>7. \A n \in 1 .. d : A[n] = B[n]
  BY <1>1, <1>2, <1>3, <1>6
<1>8. A = B
  BY <1>3, <1>5, <1>6, <1>7, SeqEqual
<1> QED BY <1>2, <1>8 DEF A, B, d, s

\* The abstract variable.
LEMMA ElemsDef ==
  /\ Sequence!Init <=> Elements(list, cnt) = <<>> /\ pos = -1
  /\ \A p \in Elem : Sequence!Add(p) <=>
       \/ /\ Elements(list, cnt)' = Append(Elements(list, cnt), p)
          /\ pos' = Len(Elements(list, cnt))
       \/ pos' = -1 /\ UNCHANGED Elements(list, cnt)
  /\ \A p \in Elem : \A j : Sequence!Set(j, p) <=>
       /\ Elements(list, cnt)' = [Elements(list, cnt) EXCEPT ![j + 1] = p]
       /\ UNCHANGED pos
  /\ Sequence!EraseLast <=>
       /\ Elements(list, cnt) # <<>>
       /\ Elements(list, cnt)' = SubSeq(Elements(list, cnt), 1, Len(Elements(list, cnt)) - 1)
       /\ UNCHANGED pos
  /\ Sequence!Clear <=> Elements(list, cnt)' = <<>> /\ UNCHANGED pos
  /\ Sequence!Next <=>
       \/ \E p \in Elem : Sequence!Add(p)
       \/ \E p \in Elem, j \in 0 .. Len(Elements(list, cnt)) - 1 : Sequence!Set(j, p)
       \/ Sequence!EraseLast
       \/ Sequence!Clear
  BY DEF Elements, Sequence!Init, Sequence!Add, Sequence!Set, Sequence!EraseLast,
         Sequence!Clear, Sequence!Next

\* Without elements the sequence is empty.
LEMMA ElementsNone == ASSUME NEW l PROVE Elements(l, 0) = <<>>
<1>1. Elements(l, 0) \in Seq(Elem) /\ Len(Elements(l, 0)) = 0
  BY ElementsSeq
<1> QED BY <1>1, EmptySeq

LEMMA InitRefines == ASSUME Init PROVE Sequence!Init
  BY ElementsNone, ElemsDef DEF Init

LEMMA AddRefines ==
  ASSUME Inv, NEW p \in Elem, coVectorAdd(p) PROVE Sequence!Next
<1>1. /\ cnt \in Nat /\ cnt' = cnt + 1 /\ pos' = cnt
      /\ \A j \in 0 .. cnt - 1 : list[j] \in Elem
  BY ListType DEF coVectorAdd, AddHasRoom, AddGrows, Inv, ElementsStored
<1>2. list'[cnt] = p /\ \A j \in 0 .. cnt - 1 : list'[j] = list[j]
  <2>1. list \in [0 .. max - 1 -> Elem \cup {Junk}] /\ max \in Nat /\ cnt <= max
        /\ COV_EXTEND \in Nat \ {0}
    BY ListType
  <2>2. CASE AddHasRoom(p)
    BY <1>1, <2>1, <2>2 DEF AddHasRoom
  <2>3. CASE AddGrows(p)
    <3>1. Grown \in [0 .. cnt + COV_EXTEND - 1 -> Elem \cup {Junk}]
      BY <1>1, <2>1 DEF Grown
    <3>2. cnt \in 0 .. cnt + COV_EXTEND - 1 /\ max = cnt
      BY <1>1, <2>1, <2>3 DEF AddGrows
    <3>3. list'[cnt] = p
      BY <2>3, <3>1, <3>2 DEF AddGrows
    <3>4. \A j \in 0 .. cnt - 1 : list'[j] = list[j]
      BY <1>1, <2>1, <2>3, <3>2 DEF AddGrows, Grown
    <3> QED BY <3>3, <3>4
  <2> QED BY <2>2, <2>3 DEF coVectorAdd
<1>3. Elements(list', cnt + 1) = Append(Elements(list, cnt), p)
  BY <1>1, <1>2, ElementsAdd
<1>4. Len(Elements(list, cnt)) = cnt
  BY <1>1, ElementsSeq
<1>5. Elements(list, cnt)' = Elements(list', cnt')
  BY DEF Elements
<1>6. Sequence!Add(p)
  BY <1>1, <1>3, <1>4, <1>5, ElemsDef
<1> QED BY <1>6, ElemsDef

LEMMA SetRefines ==
  ASSUME Inv, NEW p \in Elem, NEW j \in 0 .. cnt - 1,
         list' = [list EXCEPT ![j] = p], UNCHANGED <<cnt, pos>>
  PROVE  Sequence!Next
<1>1. /\ cnt \in Nat /\ cnt' = cnt /\ pos' = pos /\ j \in 0 .. cnt - 1
      /\ list' = [list EXCEPT ![j] = p]
      /\ list \in [0 .. max - 1 -> Elem \cup {Junk}] /\ max \in Nat /\ cnt <= max
      /\ \A m \in 0 .. cnt - 1 : list[m] \in Elem
  BY ListType DEF Inv, ElementsStored
<1>2. \A m \in 0 .. cnt - 1 : list'[m] = IF m = j THEN p ELSE list[m]
  BY <1>1
<1>3. Elements(list', cnt) = [Elements(list, cnt) EXCEPT ![j + 1] = p]
  <2>1. cnt \in Nat /\ j \in 0 .. cnt - 1
    BY <1>1
  <2>2. \A n \in 1 .. cnt : n - 1 \in 0 .. cnt - 1 /\ (n - 1 = j <=> n = j + 1)
    BY <2>1
  <2> QED BY <1>2, <2>2 DEF Elements
<1>4. Len(Elements(list, cnt)) = cnt
  BY <1>1, ElementsSeq
<1>5. Elements(list, cnt)' = Elements(list', cnt')
  BY DEF Elements
<1>6. Sequence!Set(j, p)
  BY <1>1, <1>3, <1>5, ElemsDef
<1> QED BY <1>1, <1>4, <1>6, ElemsDef

LEMMA EraseLastRefines ==
  ASSUME Inv, cnt > 0, cnt' = cnt - 1, UNCHANGED <<list, pos>> PROVE Sequence!Next
<1>1. /\ cnt \in Nat /\ cnt > 0 /\ cnt' = cnt - 1 /\ pos' = pos /\ list' = list
      /\ \A m \in 0 .. cnt - 1 : list[m] \in Elem
  BY ListType DEF Inv, ElementsStored
<1>2. Elements(list, cnt - 1)
        = SubSeq(Elements(list, cnt), 1, Len(Elements(list, cnt)) - 1)
  BY <1>1, ElementsLess
<1>3. Len(Elements(list, cnt)) = cnt
  BY <1>1, ElementsSeq
<1>4. Elements(list, cnt) # <<>>
  <2>1. Len(<<>>) = 0
    OBVIOUS
  <2> QED BY <1>1, <1>3, <2>1
<1>5. Elements(list, cnt)' = Elements(list', cnt')
  BY DEF Elements
<1>6. Sequence!EraseLast
  BY <1>1, <1>2, <1>4, <1>5, ElemsDef
<1> QED BY <1>6, ElemsDef

\* One case per action; the loop of coVectorForEach stutters.
LEMMA NextRefines ==
  ASSUME Inv, Next PROVE Sequence!Next \/ UNCHANGED <<list, cnt, pos>>
<1>1. CASE \E p \in Elem : coVectorAdd(p)
  BY <1>1, AddRefines DEF coVectorAdd
<1>2. CASE coVectorAddFails
  <2>1. PICK p \in Elem : TRUE
    BY ElemAssumption
  <2>2. Elements(list, cnt)' = Elements(list', cnt')
    BY DEF Elements
  <2>3. Sequence!Add(p)
    BY <1>2, <2>2, ElemsDef DEF coVectorAddFails
  <2> QED BY <1>2, <2>3, ElemsDef DEF coVectorAddFails
<1>3. CASE \E p \in Elem, j \in 0 .. MaxCnt : coVectorSet(j, p)
  <2>1. PICK p \in Elem, j \in 0 .. MaxCnt : coVectorSet(j, p)
    BY <1>3
  <2>2. j \in 0 .. cnt - 1
    BY <2>1, ListType DEF coVectorSet
  <2> QED BY <2>1, <2>2, SetRefines DEF coVectorSet
<1>4. CASE coVectorClear
  <2>1. Elements(list, cnt)' = Elements(list', cnt')
    BY DEF Elements
  <2>2. Sequence!Clear
    BY <1>4, <2>1, ElementsNone, ElemsDef DEF coVectorClear
  <2> QED BY <1>4, <2>2, ElemsDef DEF coVectorClear
<1>5. CASE coVectorEraseLast
  BY <1>5, EraseLastRefines DEF coVectorEraseLast
<1>6. CASE \E j \in 0 .. MaxCnt : coVectorErase(j)
  BY <1>6 DEF coVectorErase
<1>7. CASE coVectorForEach
  BY <1>7 DEF coVectorForEach
<1>8. CASE EraseShift
  <2>1. i - 1 \in 0 .. cnt - 1 /\ list[i] \in Elem
    BY <1>8, ListType DEF EraseShift, Inv, LoopOK, ElementsStored, TypeOK
  <2> QED BY <1>8, <2>1, SetRefines DEF EraseShift
<1>9. CASE EraseDone
  <2>1. cnt > 0
    BY <1>9, ListType DEF EraseDone, Inv, LoopOK, TypeOK
  <2> QED BY <1>9, <2>1, EraseLastRefines DEF EraseDone
<1>10. CASE ForEachNext
  BY <1>10 DEF ForEachNext
<1>11. CASE ForEachDone
  BY <1>11 DEF ForEachDone
<1> QED BY <1>1, <1>2, <1>3, <1>4, <1>5, <1>6, <1>7, <1>8, <1>9, <1>10, <1>11
        DEF Next, LoopStep

\* The vector (co.c:127-319) is a sequence of elements to its users, for every
\* COV_EXTEND and also when realloc fails.
THEOREM SequenceImplemented == Spec => IsSequence
<1>1. Init => Sequence!Init
  BY InitRefines
<1>2. Inv /\ [Next]_vars => [Sequence!Next]_<<[n \in 1 .. cnt |-> list[n - 1]], pos>>
  <2>1. ASSUME UNCHANGED vars PROVE UNCHANGED <<list, cnt, pos>>
    BY <2>1 DEF vars
  <2>2. ASSUME UNCHANGED <<list, cnt, pos>>
        PROVE  UNCHANGED <<[n \in 1 .. cnt |-> list[n - 1]], pos>>
    BY <2>2
  <2> QED BY <2>1, <2>2, NextRefines
<1> QED BY <1>1, <1>2, Invariant, PTL DEF Spec, IsSequence, Sequence!Spec

------------------------------------------------------------------------------
(***************************************************************************)
(* CoMapKeys: for any number of buffers and names, in a map that is used   *)
(* in one of the ways SafeUse allows, no entry refers to a freed buffer    *)
(* and each buffer of the map is freed once.                               *)
(***************************************************************************)

\* A map that both functions add to copies its keys, and coMapAddValueKey finds a value
\* in every entry it does not make: otherwise co.c:842 frees the key of the node.
SafeUse(u) ==
  "coMapAddValueKey" \in u.ops =>
    IF "CO_STRDUP" \in u.flags THEN ~u.null /\ ~u.oom ELSE "coMapAdd" \notin u.ops

\* The types, and what the use of the map says of its flags.
KeysTyped ==
  /\ text \in [Buf -> Name \cup {NULL}]
  /\ app \subseteq Buf /\ lost \subseteq Buf
  /\ Entries \subseteq Name \cup {Empty}
  /\ \A n \in Entries : node[n] \in [key : Buf \cup {Static}, value : Values]
  /\ SafeUse(use)
  /\ StrDup = ("CO_STRDUP" \in use.flags) /\ (StrDup => StrFree)

\* What the application frees, and what is lost, is allocated.
OthersLive ==
  /\ app \cap lost = {}
  /\ \A b \in app \cup lost : text[b] # NULL

\* The key of an entry is its name.  A key that the map does not free is the
\* application's or the string in the value, or it is the static empty string.
KeysFit ==
  \A n \in Entries :
    /\ node[n].key # Static => text[node[n].key] = n
    /\ node[n].key = Static => n = Empty /\ node[n].value = NoValue /\ ~StrFree
    /\ StrFree => node[n].key \notin app \cup lost
    /\ \/ StrFree
       \/ node[n].key = Static
       \/ node[n].key \in app
       \/ /\ node[n].value.free /\ node[n].value.str = node[n].key
          /\ "coMapAdd" \notin use.ops

\* A string object of the map has a buffer of its own, or refers to the key.
ValuesFit ==
  \A n \in Entries :
    /\ node[n].value.free =>
         /\ node[n].value.str \notin app \cup lost
         /\ text[node[n].value.str] # NULL
         /\ StrFree => node[n].value.str # node[n].key
    /\ \/ node[n].value.free
       \/ node[n].value = NoValue
       \/ StrFree /\ node[n].value.str = node[n].key
    /\ "coMapAddValueKey" \in use.ops => node[n].value # NoValue \/ node[n].key = Static

\* Two entries have no buffer in common.
EntriesApart ==
  \A n, m \in Entries :
    n # m /\ node[n].value.free =>
      /\ node[m].value.free => node[n].value.str # node[m].value.str
      /\ StrFree => node[n].value.str # node[m].key

\* Every allocated buffer will be freed by somebody, or is lost.
EachHasOwner ==
  \A b \in Buf : text[b] # NULL =>
    \/ b \in app \cup lost
    \/ \E n \in Entries : StrFree /\ node[n].key = b
    \/ \E n \in Entries : node[n].value.free /\ node[n].value.str = b

KeysInv ==
  KeysTyped /\ OthersLive /\ KeysFit /\ ValuesFit /\ EntriesApart /\ EachHasOwner

LEMMA KeysInitInv ==
  ASSUME KeysInit, \A u \in Uses : SafeUse(u) PROVE KeysInv
<1>1. Entries = {} /\ app = {} /\ lost = {} /\ \A b \in Buf : text[b] = NULL
  BY DEF KeysInit, Entries
<1>2. text \in [Buf -> Name \cup {NULL}]
  BY DEF KeysInit
<1>3. StrDup = ("CO_STRDUP" \in use.flags) /\ (StrDup => StrFree)
  BY DEF KeysInit, StrDup, StrFree
<1>4. KeysTyped
  BY <1>1, <1>2, <1>3 DEF KeysTyped, KeysInit
<1> QED
  BY <1>1, <1>4
  DEF KeysInv, OthersLive, KeysFit, ValuesFit, EntriesApart, EachHasOwner

\* What the invariant says of the properties.
LEMMA KeysInvImplies == ASSUME KeysInv PROVE BuffersOwned
<1> USE MapKeysAssumption DEF KeysInv, KeysTyped
<1>1. KeysLive
  BY DEF KeysLive, KeysFit
<1>2. EntriesLive
  <2> SUFFICES ASSUME NEW n \in Entries, node[n].value # NoValue
               PROVE  text[node[n].value.str] # NULL
    BY <1>1 DEF EntriesLive
  <2>1. CASE node[n].value.free
    BY <2>1 DEF ValuesFit
  <2>2. CASE ~node[n].value.free
    <3>1. StrFree /\ node[n].value.str = node[n].key
      BY <2>2 DEF ValuesFit
    <3>2. text[node[n].key] = n
      BY <3>1 DEF KeysFit
    <3> QED BY <3>1, <3>2
  <2> QED BY <2>1, <2>2
<1>3. ASSUME NEW n \in Entries
      PROVE  /\ FreedWith(n) \cap (app \cup lost) = {}
             /\ StrFree => node[n].key \notin FreedByValue(node[n].value)
  BY DEF FreedWith, FreedByKey, FreedByValue, KeysFit, ValuesFit
<1>4. ASSUME NEW n \in Entries, NEW m \in Entries \ {n}
      PROVE  FreedWith(n) \cap FreedWith(m) = {}
  <2>1. StrFree => node[n].key # node[m].key
    BY DEF KeysFit
  <2> QED BY <2>1 DEF FreedWith, FreedByKey, FreedByValue, EntriesApart
<1>5. ASSUME NEW b \in Buf \ Unused
      PROVE  b \in app \cup lost \/ \E n \in Entries : b \in FreedWith(n)
  BY DEF Unused, EachHasOwner, FreedWith, FreedByKey, FreedByValue
<1> QED BY <1>2, <1>3, <1>4, <1>5 DEF BuffersOwned, FreedExactlyOnce

-----------------------------------------------------------------------------
(* Adding *)

\* What the functions pass to avl_insert.  A new buffer is the key or that of the value.
\* If there is an entry already, its key is not the one of the value that goes.
Passed(n, k, v, made) ==
  /\ made \subseteq Unused /\ v \in Values /\ (v = NoValue \/ v.str \in made)
  /\ \A b \in made : b # k => v.free /\ b = v.str
  /\ \/ k \in made /\ n \in Name
     \/ k \in app /\ text[k] = n
     \/ k = Static /\ n = Empty /\ v = NoValue /\ ~StrFree
  /\ k \in made /\ ~StrFree => v.free /\ v.str = k
  /\ v.free => v.str \in made
  /\ \/ v.free
     \/ v = NoValue
     \/ StrFree /\ v.str = k /\ n \notin Entries
  /\ v.free /\ v.str = k => n \notin Entries /\ ~StrFree /\ "coMapAdd" \notin use.ops
  /\ n \in Entries /\ ~StrFree => node[n].key \in app \cup {Static}
  /\ "coMapAddValueKey" \in use.ops /\ v = NoValue => k = Static

LEMMA InsertInv ==
  ASSUME KeysInv, NEW n, NEW k, NEW v, NEW made, Passed(n, k, v, made),
         Insert(n, k, v, made), UNCHANGED <<use, flags, lost>>
  PROVE  KeysInv'
<1> DEFINE old == n \in Entries
           Gone(b) == old /\ ((StrFree /\ b = k) \/ (node[n].value.free /\ b = node[n].value.str))
<1>1. \A b \in Buf : text'[b] = IF Gone(b) THEN NULL ELSE IF b \in made THEN n ELSE text[b]
  BY DEF Insert, Buffers, FreedByKey, FreedByValue
<1>2. text' \in [Buf -> Name \cup {NULL}]
  <2>1. ASSUME NEW b \in made PROVE n \in Name
    <3>1. b \in Buf /\ b # Static
      BY MapKeysAssumption DEF Passed, Unused
    <3>2. k \in app => text[k] \in Name
      BY DEF KeysInv, KeysTyped, OthersLive
    <3> QED BY <3>1, <3>2 DEF Passed, NoValue
  <2> QED BY <2>1 DEF Insert, Buffers, KeysInv, KeysTyped
<1>3. /\ DOMAIN node' = Entries \cup {n}
      /\ \A m \in Entries \ {n} : node'[m] = node[m]
      /\ node'[n] = [key |-> IF old THEN node[n].key ELSE k, value |-> v]
  BY DEF Insert, Put, Entries
<1>4. /\ app' = IF StrFree THEN app \ {k} ELSE app
      /\ StrFree' = StrFree /\ StrDup' = StrDup /\ use' = use /\ lost' = lost
  BY DEF Insert, FreedByKey, StrFree, StrDup
<1>5. /\ app \subseteq Buf /\ lost \subseteq Buf /\ NULL \notin Buf /\ Static \notin Buf
      /\ Empty \notin Name /\ NULL \notin Name /\ NULL # Empty
      /\ \A m \in Entries : /\ node[m].key \in Buf \cup {Static}
                            /\ node[m].value.free => node[m].value.str \in Buf
      /\ \A b \in made : b \in Buf /\ text[b] = NULL
      /\ n \in Name \cup {Empty} /\ k \in Buf \cup {Static}
      /\ v.free => v.str \in Buf
  <2>1. /\ app \subseteq Buf /\ lost \subseteq Buf /\ NULL \notin Buf /\ Static \notin Buf
        /\ Empty \notin Name /\ NULL \notin Name /\ NULL # Empty
        /\ \A b \in made : b \in Buf /\ text[b] = NULL
    BY MapKeysAssumption DEF KeysInv, KeysTyped, Passed, Unused
  <2>2. \A w \in Values : w.free => w.str \in Buf
    BY DEF Values, NoValue
  <2>3. ASSUME NEW m \in Entries
        PROVE  /\ node[m].key \in Buf \cup {Static}
               /\ node[m].value.free => node[m].value.str \in Buf
    BY <2>2 DEF KeysInv, KeysTyped
  <2>4. \A b \in app : text[b] \in Name
    BY DEF KeysInv, KeysTyped, OthersLive
  <2>5. n \in Name \cup {Empty} /\ k \in Buf \cup {Static}
    BY <2>1, <2>4 DEF Passed
  <2>6. v.free => v.str \in Buf
    BY <2>2 DEF Passed
  <2> QED BY <2>1, <2>3, <2>5, <2>6
<1> HIDE DEF old, Gone
<1>6. \* the key and the value of another entry stay
      ASSUME NEW m \in Entries, m # n
      PROVE  /\ node[m].key # Static =>
                  /\ ~Gone(node[m].key) /\ node[m].key \notin made
                  /\ text'[node[m].key] = m
             /\ node[m].value.free =>
                  /\ ~Gone(node[m].value.str) /\ node[m].value.str \notin made
                  /\ text'[node[m].value.str] = text[node[m].value.str]
  <2>1. ASSUME node[m].key # Static
        PROVE  /\ ~Gone(node[m].key) /\ node[m].key \notin made
               /\ text'[node[m].key] = m
    <3>1. text[node[m].key] = m /\ m # NULL /\ node[m].key \in Buf
      BY <1>5, <2>1, MapKeysAssumption DEF KeysInv, KeysFit, KeysTyped
    <3>2. node[m].key \notin made
      BY <1>5, <3>1
    <3>3. StrFree => node[m].key # k
      BY <3>1, <3>2, <2>1 DEF Passed, KeysInv, KeysFit
    <3>4. old /\ node[n].value.free => node[m].key # node[n].value.str
      BY <2>1, <1>6 DEF KeysInv, KeysFit, ValuesFit, EntriesApart, old
    <3>5. ~Gone(node[m].key)
      BY <3>3, <3>4 DEF Gone
    <3>6. text'[node[m].key] = m
      BY <1>1, <3>1, <3>2, <3>5
    <3> QED BY <3>2, <3>5, <3>6
  <2>2. ASSUME node[m].value.free
        PROVE  /\ ~Gone(node[m].value.str) /\ node[m].value.str \notin made
               /\ text'[node[m].value.str] = text[node[m].value.str]
    <3>1. text[node[m].value.str] # NULL /\ node[m].value.str \in Buf
          /\ node[m].value.str \notin app
      BY <1>5, <2>2 DEF KeysInv, ValuesFit
    <3>2. node[m].value.str \notin made /\ node[m].value.str # k
      BY <1>5, <3>1 DEF Passed
    <3>3. old /\ node[n].value.free => node[m].value.str # node[n].value.str
      BY <2>2, <1>6 DEF KeysInv, EntriesApart, old
    <3>4. ~Gone(node[m].value.str)
      BY <3>2, <3>3 DEF Gone
    <3> QED BY <1>1, <3>1, <3>2, <3>4
  <2> QED BY <2>1, <2>2
<1>7. \* the key of an entry that was there stays
      ASSUME old, node[n].key # Static
      PROVE  /\ ~Gone(node[n].key) /\ node[n].key \notin made /\ text'[node[n].key] = n
             /\ node[n].key # k \/ ~StrFree
  <2>1. text[node[n].key] = n /\ node[n].key \in Buf
    BY <1>5, <1>7 DEF KeysInv, KeysFit, old
  <2>2. node[n].key \notin made
    BY <1>5, <2>1
  <2>3. StrFree => node[n].key # k
    BY <2>1, <2>2, <1>7 DEF Passed, KeysInv, KeysFit, old
  <2>4. node[n].value.free => node[n].key # node[n].value.str
    BY <1>7 DEF Passed, KeysInv, ValuesFit, old
  <2> QED BY <1>1, <2>1, <2>2, <2>3, <2>4 DEF Gone
<1>8. \* the buffer of the new value
      ASSUME v.free
      PROVE  /\ v.str \in made /\ v.str \in Buf /\ v.str \notin app \cup lost
             /\ ~Gone(v.str) /\ text'[v.str] = n
  <2>1. v.str \in made /\ v.str \in Buf /\ text[v.str] = NULL
    BY <1>5, <1>8 DEF Passed
  <2>2. v.str \notin app \cup lost
    BY <2>1 DEF KeysInv, OthersLive
  <2>3. ~Gone(v.str)
    BY <1>8, <2>1 DEF Gone, old, Passed, KeysInv, ValuesFit
  <2> QED BY <1>1, <2>1, <2>2, <2>3
<1>9. \* the key of a new entry
      ASSUME ~old, k # Static
      PROVE  text'[k] = n /\ k \in Buf /\ k \notin lost
  <2>1. ~Gone(k) /\ k \in Buf
    <3>1. k \in Buf
      BY <1>5, <1>9
    <3> QED BY <1>9, <3>1 DEF Gone
  <2>2. k \in made \/ text[k] = n
    BY <1>9 DEF Passed
  <2>3. k \notin lost
    BY <1>5, <1>9 DEF Passed, KeysInv, OthersLive
  <2> QED BY <1>1, <2>1, <2>2, <2>3
<1>10. OthersLive'
  <2>1. ASSUME NEW b \in app' \cup lost' PROVE text'[b] # NULL
    <3>1. b \in Buf /\ text[b] # NULL /\ b \in app \cup lost
      BY <1>4, <1>5, <2>1 DEF KeysInv, OthersLive
    <3>2. StrFree => b # k
      BY <1>4, <1>5, <2>1, <3>1 DEF Passed, KeysInv, OthersLive
    <3>3. ~Gone(b)
      BY <3>1, <3>2 DEF Gone, old, KeysInv, ValuesFit
    <3> QED BY <1>1, <1>5, <3>1, <3>3
  <2> QED BY <1>4, <2>1 DEF OthersLive, KeysInv
<1>11. KeysTyped'
  <2>1. v \in Values
    BY DEF Passed
  <2>2. ASSUME NEW m \in DOMAIN node'
        PROVE  node'[m] \in [key : Buf \cup {Static}, value : Values]
    BY <1>3, <1>5, <2>1, <2>2 DEF KeysInv, KeysTyped, old
  <2>3. app' \subseteq Buf
    BY <1>4, <1>5
  <2> QED BY <1>2, <1>3, <1>4, <1>5, <2>2, <2>3 DEF KeysInv, KeysTyped, Entries
<1>12. KeysFit'
  <2> SUFFICES ASSUME NEW m \in DOMAIN node'
               PROVE  /\ node'[m].key # Static => text'[node'[m].key] = m
                      /\ node'[m].key = Static =>
                           m = Empty /\ node'[m].value = NoValue /\ ~StrFree'
                      /\ StrFree' => node'[m].key \notin app' \cup lost'
                      /\ \/ StrFree'
                         \/ node'[m].key = Static
                         \/ node'[m].key \in app'
                         \/ /\ node'[m].value.free /\ node'[m].value.str = node'[m].key
                            /\ "coMapAdd" \notin use'.ops
    BY DEF KeysFit, Entries
  <2>1. CASE m # n
    <3>1. m \in Entries /\ node'[m] = node[m]
      BY <1>3, <2>1
    <3> QED BY <1>4, <1>6, <2>1, <3>1 DEF KeysInv, KeysFit
  <2>2. CASE m = n /\ old
    <3>1. m \in Entries /\ node'[m].key = node[m].key /\ node'[m].value = v
      BY <1>3, <2>2 DEF old
    <3>2. node[m].key = Static => v = NoValue
      BY <1>5, <2>2, <3>1, MapKeysAssumption DEF Passed, KeysInv, KeysTyped, KeysFit
    <3> QED BY <1>4, <1>7, <2>2, <3>1, <3>2 DEF KeysInv, KeysFit, Passed
  <2>3. CASE m = n /\ ~old
    <3>1. node'[m].key = k /\ node'[m].value = v
      BY <1>3, <2>3
    <3> QED BY <1>4, <1>5, <1>9, <2>3, <3>1 DEF Passed
  <2> QED BY <2>1, <2>2, <2>3
<1>13. ValuesFit'
  <2> SUFFICES ASSUME NEW m \in DOMAIN node'
               PROVE  /\ node'[m].value.free =>
                           /\ node'[m].value.str \notin app' \cup lost'
                           /\ text'[node'[m].value.str] # NULL
                           /\ StrFree' => node'[m].value.str # node'[m].key
                      /\ \/ node'[m].value.free
                         \/ node'[m].value = NoValue
                         \/ StrFree' /\ node'[m].value.str = node'[m].key
                      /\ "coMapAddValueKey" \in use'.ops =>
                           node'[m].value # NoValue \/ node'[m].key = Static
    BY DEF ValuesFit, Entries
  <2>1. CASE m # n
    <3>1. m \in Entries /\ node'[m] = node[m]
      BY <1>3, <2>1
    <3> QED BY <1>4, <1>6, <2>1, <3>1 DEF KeysInv, ValuesFit
  <2>2. CASE m = n /\ old
    <3>1. m \in Entries /\ node'[m].key = node[m].key /\ node'[m].value = v
      BY <1>3, <2>2 DEF old
    <3>2. v.free /\ StrFree => v.str # node[m].key
      BY <1>5, <1>7, <1>8, <2>2
    <3>3. "coMapAddValueKey" \in use.ops => v # NoValue \/ node[m].key = Static
      BY <1>5, <2>2, <3>1, MapKeysAssumption DEF Passed, KeysInv, KeysTyped, KeysFit
    <3> QED BY <1>4, <1>5, <1>8, <2>2, <3>1, <3>2, <3>3 DEF Passed, old
  <2>3. CASE m = n /\ ~old
    <3>1. node'[m].key = k /\ node'[m].value = v
      BY <1>3, <2>3
    <3> QED BY <1>4, <1>5, <1>8, <2>3, <3>1 DEF Passed
  <2> QED BY <2>1, <2>2, <2>3
<1>14. EntriesApart'
  <2> SUFFICES ASSUME NEW l \in DOMAIN node', NEW m \in DOMAIN node',
                      l # m, node'[l].value.free
               PROVE  /\ node'[m].value.free => node'[l].value.str # node'[m].value.str
                      /\ StrFree' => node'[l].value.str # node'[m].key
    BY DEF EntriesApart, Entries
  <2>1. CASE l # n /\ m # n
    BY <1>3, <1>4, <2>1 DEF KeysInv, EntriesApart
  <2>2. CASE l = n /\ m # n
    <3>1. m \in Entries /\ node'[m] = node[m] /\ node'[l].value = v
      BY <1>3, <2>2
    <3>2. v.str \in made /\ v.str \in Buf
      BY <1>8, <3>1
    <3> QED BY <1>5, <1>6, <2>2, <3>1, <3>2
  <2>3. CASE l # n /\ m = n
    <3>1. l \in Entries /\ node'[l] = node[l] /\ node'[m].value = v
          /\ node'[m].key = IF old THEN node[n].key ELSE k
      BY <1>3, <2>3
    <3>2. node[l].value.str \notin made /\ node[l].value.str # k
      BY <1>5, <1>6, <2>3, <3>1 DEF Passed, KeysInv, ValuesFit
    <3>3. old /\ StrFree => node[l].value.str # node[n].key
      BY <2>3, <3>1 DEF old, KeysInv, EntriesApart
    <3> QED BY <1>4, <1>8, <3>1, <3>2, <3>3
  <2> QED BY <2>1, <2>2, <2>3
<1>15. EachHasOwner'
  <2> SUFFICES ASSUME NEW b \in Buf, text'[b] # NULL
               PROVE  \/ b \in app' \cup lost'
                      \/ \E m \in DOMAIN node' : StrFree' /\ node'[m].key = b
                      \/ \E m \in DOMAIN node' : node'[m].value.free /\ node'[m].value.str = b
    BY DEF EachHasOwner, Entries
  <2>1. ~Gone(b) /\ n \in DOMAIN node' /\ node'[n].value = v
    BY <1>1, <1>3
  <2>2. CASE b \in made
    <3>1. CASE v.free /\ b = v.str
      BY <2>1, <3>1
    <3>2. CASE ~(v.free /\ b = v.str)
      <4>1. b = k /\ StrFree
        BY <2>2, <3>2 DEF Passed
      <4>2. node'[n].key = b
        BY <1>3, <2>1, <4>1 DEF Gone
      <4> QED BY <1>4, <2>1, <4>1, <4>2
    <3> QED BY <3>1, <3>2
  <2>3. CASE b \notin made
    <3>1. text[b] # NULL
      BY <1>1, <2>1, <2>3
    <3>2. CASE b \in app \cup lost
      <4>1. CASE b = k /\ StrFree
        <5>1. node'[n].key = b
          BY <1>3, <2>1, <4>1 DEF Gone
        <5> QED BY <1>4, <2>1, <4>1, <5>1
      <4>2. CASE ~(b = k /\ StrFree)
        BY <1>4, <3>2, <4>2
      <4> QED BY <4>1, <4>2
    <3>3. ASSUME NEW m \in Entries, StrFree, node[m].key = b
          PROVE  m \in DOMAIN node' /\ node'[m].key = b
      BY <1>3, <3>3 DEF old
    <3>4. ASSUME NEW m \in Entries, node[m].value.free, node[m].value.str = b
          PROVE  m \in DOMAIN node' /\ node'[m] = node[m]
      BY <1>3, <2>1, <3>4 DEF Gone, old
    <3> QED BY <1>4, <3>1, <3>2, <3>3, <3>4 DEF KeysInv, EachHasOwner
  <2> QED BY <2>2, <2>3
<1> QED BY <1>10, <1>11, <1>12, <1>13, <1>14, <1>15 DEF KeysInv

LEMMA KeysAddInv == ASSUME KeysInv, NEW b \in Buf, coMapAdd(b) PROVE KeysInv'
<1>1. PICK v \in Values, made \in SUBSET Unused :
        /\ NewValue(v, made)
        /\ IF StrDup
             THEN \E k \in Unused \ made : Insert(text[b], k, v, made \cup {k})
             ELSE Insert(text[b], b, v, made)
  BY DEF coMapAdd
<1>2. /\ "coMapAdd" \in use.ops /\ b \in app /\ text[b] \in Name
      /\ UNCHANGED <<use, flags, lost>>
  BY DEF coMapAdd, KeysInv, KeysTyped, OthersLive
<1>3. /\ v = NoValue => use.null
      /\ v # NoValue => v.free /\ v.str \in made /\ made = {v.str}
      /\ v = NoValue => made = {} /\ ~v.free
      /\ \A k \in made : text[k] = NULL
  <2>1. NoValue.free = FALSE
    BY DEF NoValue
  <2>2. \A k \in made : text[k] = NULL
    BY DEF Unused
  <2>3. CASE v = NoValue /\ use.null /\ made = {}
    BY <2>1, <2>3
  <2>4. ASSUME NEW a \in Unused, v = [str |-> a, free |-> TRUE], made = {a}
        PROVE  v # NoValue /\ v.free /\ v.str \in made /\ made = {v.str}
    BY <2>1, <2>4
  <2> QED BY <1>1, <2>2, <2>3, <2>4 DEF NewValue
<1>4. CASE StrDup
  <2>1. PICK k \in Unused \ made : Insert(text[b], k, v, made \cup {k})
    BY <1>1, <1>4
  <2>2. StrFree /\ ("coMapAddValueKey" \in use.ops => ~use.null)
    BY <1>4 DEF KeysInv, KeysTyped, SafeUse
  <2>3. Passed(text[b], k, v, made \cup {k})
    BY <1>2, <1>3, <2>2 DEF Passed
  <2> QED BY <1>2, <2>1, <2>3, InsertInv
<1>5. CASE ~StrDup
  <2>1. "coMapAddValueKey" \notin use.ops
    BY <1>2, <1>5 DEF KeysInv, KeysTyped, SafeUse
  <2>2. text[b] \in Entries /\ ~StrFree => node[text[b]].key \in app \cup {Static}
    BY <1>2 DEF KeysInv, KeysFit
  <2>3. b \notin made
    BY <1>2, <1>3, MapKeysAssumption
  <2>4. Passed(text[b], b, v, made)
    BY <1>2, <1>3, <2>1, <2>2, <2>3 DEF Passed
  <2> QED BY <1>1, <1>2, <1>5, <2>4, InsertInv
<1> QED BY <1>4, <1>5

\* The copy of the key that is lost is no entry's.
LEMMA AddFailsInv == ASSUME KeysInv, NEW b \in Buf, coMapAddFails(b) PROVE KeysInv'
<1>1. PICK k \in Unused : Buffers({}, {k}, text[b]) /\ lost' = lost \cup {k}
  BY DEF coMapAddFails
<1>2. /\ UNCHANGED <<use, flags, app, node>> /\ b \in app /\ text[b] \in Name
      /\ text[k] = NULL /\ k \in Buf
  BY DEF coMapAddFails, KeysInv, KeysTyped, OthersLive, Unused
<1>3. \A a \in Buf : text'[a] = IF a = k THEN text[b] ELSE text[a]
  BY <1>1 DEF Buffers
<1>4. text' \in [Buf -> Name \cup {NULL}]
  BY <1>1, <1>2 DEF Buffers, KeysInv, KeysTyped
<1> USE MapKeysAssumption DEF KeysInv
<1>5. KeysTyped'
  BY <1>1, <1>2, <1>4 DEF KeysTyped, Entries, StrDup, StrFree
<1>6. k \notin app \cup lost
  BY <1>2 DEF OthersLive
<1>7. OthersLive'
  BY <1>1, <1>2, <1>3, <1>6 DEF OthersLive, KeysTyped
<1>8. ASSUME NEW n \in Entries
      PROVE  /\ node[n].key # Static => node[n].key # k /\ text'[node[n].key] = n
             /\ node[n].value.free =>
                  /\ node[n].value.str # k
                  /\ text'[node[n].value.str] = text[node[n].value.str]
  <2>1. /\ node[n].key \in Buf \cup {Static} /\ n # NULL
        /\ node[n].value.free => node[n].value.str \in Buf
    BY DEF KeysTyped, Values, NoValue
  <2> QED BY <1>2, <1>3, <2>1 DEF KeysFit, ValuesFit
<1>9. KeysFit' /\ ValuesFit' /\ EntriesApart'
  <2>1. /\ Entries' = Entries /\ node' = node /\ StrFree' = StrFree /\ use' = use
        /\ app' = app
    BY <1>2 DEF Entries, StrFree
  <2>2. ASSUME NEW n \in Entries, StrFree PROVE node[n].key \notin app' \cup lost'
    BY <1>1, <1>2, <1>8, <2>2 DEF KeysFit
  <2>3. KeysFit'
    BY <1>8, <2>1, <2>2 DEF KeysFit
  <2>4. ASSUME NEW n \in Entries, node[n].value.free
        PROVE  node[n].value.str \notin app' \cup lost'
    BY <1>1, <1>2, <1>8, <2>4 DEF ValuesFit
  <2>5. ValuesFit'
    BY <1>8, <2>1, <2>4 DEF ValuesFit
  <2> QED BY <2>1, <2>3, <2>5 DEF EntriesApart
<1>10. EachHasOwner'
  BY <1>1, <1>2, <1>3 DEF EachHasOwner, Entries, StrFree
<1> QED BY <1>5, <1>7, <1>9, <1>10

LEMMA AddValueKeyInv == ASSUME KeysInv, NEW b \in Buf, coMapAddValueKey(b) PROVE KeysInv'
<1> DEFINE n == text[b]
<1>1. /\ "coMapAddValueKey" \in use.ops /\ b \in app /\ n \in Name /\ ~HasValue(n)
      /\ StrFree <=> StrDup
      /\ UNCHANGED <<use, flags, lost>>
  <2>1. MayAddValueKey(b) /\ UNCHANGED <<use, flags, lost>>
    BY DEF coMapAddValueKey
  <2>2. StrDup => StrFree
    BY DEF KeysInv, KeysTyped
  <2>3. b \in app => n \in Name
    BY DEF KeysInv, KeysTyped, OthersLive
  <2> QED BY <2>1, <2>2, <2>3 DEF MayAddValueKey
<1>2. n \notin Entries
  <2> SUFFICES ASSUME n \in Entries PROVE FALSE
    OBVIOUS
  <2>1. node[n].value = NoValue
    BY <1>1 DEF HasValue
  <2>2. node[n].key = Static
    BY <1>1, <2>1 DEF KeysInv, ValuesFit
  <2>3. n = Empty
    BY <2>2 DEF KeysInv, KeysFit
  <2> QED BY <1>1, <2>3, MapKeysAssumption
<1> HIDE DEF n
<1>3. ASSUME NEW k \in Unused
      PROVE  /\ [str |-> k, free |-> TRUE] \in Values /\ [str |-> k, free |-> FALSE] \in Values
             /\ [str |-> k, free |-> TRUE] # NoValue /\ [str |-> k, free |-> FALSE] # NoValue
  BY MapKeysAssumption DEF Unused, Values, NoValue
<1>4. CASE StrDup
  <2>1. PICK k \in Unused : Insert(n, k, [str |-> k, free |-> FALSE], {k})
    BY <1>4 DEF coMapAddValueKey, AddDupKey, n
  <2> DEFINE v == [str |-> k, free |-> FALSE]
  <2>2. v.str = k /\ ~v.free /\ v # NoValue /\ v \in Values
    BY <1>3
  <2> HIDE DEF v
  <2>3. Passed(n, k, v, {k})
    BY <1>1, <1>2, <1>4, <2>2 DEF Passed
  <2>4. Insert(n, k, v, {k})
    BY <2>1 DEF v
  <2> QED BY <1>1, <2>3, <2>4, InsertInv
<1>5. CASE ~StrDup
  <2>1. PICK k \in Unused : Insert(n, k, [str |-> k, free |-> TRUE], {k})
    BY <1>5 DEF coMapAddValueKey, AddValueAsKey, n
  <2> DEFINE v == [str |-> k, free |-> TRUE]
  <2>2. v.str = k /\ v.free /\ v # NoValue /\ v \in Values
    BY <1>3
  <2> HIDE DEF v
  <2>3. "coMapAdd" \notin use.ops
    BY <1>1, <1>5 DEF KeysInv, KeysTyped, SafeUse
  <2>4. Passed(n, k, v, {k})
    BY <1>1, <1>2, <1>5, <2>2, <2>3 DEF Passed
  <2>5. Insert(n, k, v, {k})
    BY <2>1 DEF v
  <2> QED BY <1>1, <2>4, <2>5, InsertInv
<1> QED BY <1>4, <1>5

\* Only a map that does not copy its keys may have no memory for a value.
LEMMA AddValueKeyFailsInv ==
  ASSUME KeysInv, NEW b \in Buf, coMapAddValueKeyFails(b) PROVE KeysInv'
<1>1. /\ "coMapAddValueKey" \in use.ops /\ use.oom
      /\ UNCHANGED <<use, flags, lost>>
  BY DEF coMapAddValueKeyFails, MayAddValueKey
<1>2. ~StrDup /\ ~StrFree
  BY <1>1 DEF coMapAddValueKeyFails, MayAddValueKey, KeysInv, KeysTyped, SafeUse
<1>3. Insert(Empty, Static, NoValue, {})
  BY <1>2 DEF coMapAddValueKeyFails
<1>4. Empty \in Entries => node[Empty].key = Static
  <2> SUFFICES ASSUME Empty \in Entries, node[Empty].key # Static PROVE FALSE
    OBVIOUS
  <2>1. text[node[Empty].key] = Empty /\ node[Empty].key \in Buf
    BY DEF KeysInv, KeysFit, KeysTyped
  <2> QED BY <2>1, MapKeysAssumption DEF KeysInv, KeysTyped
<1>5. NoValue \in Values /\ ~NoValue.free
  BY DEF Values, NoValue
<1>6. Passed(Empty, Static, NoValue, {})
  BY <1>2, <1>4, <1>5 DEF Passed
<1> QED BY <1>1, <1>3, <1>6, InsertInv

-----------------------------------------------------------------------------
(* The other steps *)

LEMMA NewStringInv ==
  ASSUME KeysInv, NEW b \in Buf, NEW n \in Name, NewString(b, n) PROVE KeysInv'
<1> USE MapKeysAssumption DEF KeysInv
<1>1. /\ text[b] = NULL /\ app' = app \cup {b} /\ UNCHANGED <<use, flags, node, lost>>
      /\ \A a \in Buf : text'[a] = IF a = b THEN n ELSE text[a]
      /\ Entries' = Entries /\ StrFree' = StrFree /\ StrDup' = StrDup
  BY DEF NewString, Buffers, Unused, Entries, StrFree, StrDup
<1>2. text' \in [Buf -> Name \cup {NULL}]
  BY DEF NewString, Buffers, KeysTyped
<1>3. b \notin app \cup lost
  BY <1>1 DEF OthersLive
<1>4. ASSUME NEW m \in Entries
      PROVE  /\ node[m].key # Static => node[m].key # b /\ text'[node[m].key] = m
             /\ node[m].value.free =>
                  /\ node[m].value.str # b
                  /\ text'[node[m].value.str] = text[node[m].value.str]
  <2>1. /\ node[m].key \in Buf \cup {Static} /\ m # NULL
        /\ node[m].value.free => node[m].value.str \in Buf
    BY DEF KeysTyped, Values, NoValue
  <2> QED BY <1>1, <2>1 DEF KeysFit, ValuesFit
<1>5. KeysTyped' /\ OthersLive'
  BY <1>1, <1>2, <1>3 DEF KeysTyped, OthersLive
<1>6. KeysFit'
  <2>1. ASSUME NEW m \in Entries, StrFree PROVE node[m].key \notin app' \cup lost'
    BY <1>1, <1>4, <2>1 DEF KeysFit
  <2> QED BY <1>1, <1>4, <2>1 DEF KeysFit
<1>7. ValuesFit'
  <2>1. ASSUME NEW m \in Entries, node[m].value.free
        PROVE  node[m].value.str \notin app' \cup lost'
    BY <1>1, <1>4, <2>1 DEF ValuesFit
  <2> QED BY <1>1, <1>4, <2>1 DEF ValuesFit
<1>8. EntriesApart' /\ EachHasOwner'
  BY <1>1 DEF EntriesApart, EachHasOwner
<1> QED BY <1>5, <1>6, <1>7, <1>8

\* The application keeps what is a key of the map.
LEMMA FreeStringInv == ASSUME KeysInv, NEW b \in Buf, FreeString(b) PROVE KeysInv'
<1> USE MapKeysAssumption DEF KeysInv
<1>1. /\ b \in app /\ app' = app \ {b} /\ UNCHANGED <<use, flags, node, lost>>
      /\ \A a \in Buf : text'[a] = IF a = b THEN NULL ELSE text[a]
      /\ Entries' = Entries /\ StrFree' = StrFree /\ StrDup' = StrDup
  BY DEF FreeString, Buffers, Entries, StrFree, StrDup
<1>2. text' \in [Buf -> Name \cup {NULL}]
  BY DEF FreeString, Buffers, KeysTyped
<1>3. ASSUME NEW m \in Entries
      PROVE  /\ node[m].key # Static => node[m].key # b /\ text'[node[m].key] = m
             /\ node[m].value.free =>
                  /\ node[m].value.str # b
                  /\ text'[node[m].value.str] = text[node[m].value.str]
  <2>1. /\ node[m].key \in Buf \cup {Static} /\ m # NULL
        /\ node[m].value.free => node[m].value.str \in Buf
    BY DEF KeysTyped, Values, NoValue
  <2>2. node[m].key # b
    <3>1. StrDup \/ node[m].key # b
      BY DEF FreeString
    <3> QED BY <1>1, <3>1 DEF KeysFit, KeysTyped
  <2>3. node[m].value.free => node[m].value.str # b
    BY <1>1 DEF ValuesFit
  <2> QED BY <1>1, <2>1, <2>2, <2>3 DEF KeysFit
<1>4. KeysTyped' /\ OthersLive'
  BY <1>1, <1>2 DEF KeysTyped, OthersLive
<1>5. KeysFit'
  BY <1>1, <1>3 DEF KeysFit
<1>6. ValuesFit'
  BY <1>1, <1>3 DEF ValuesFit
<1>7. EntriesApart' /\ EachHasOwner'
  BY <1>1 DEF EntriesApart, EachHasOwner
<1> QED BY <1>4, <1>5, <1>6, <1>7

\* Entries go with all they own, and with nothing that another owns.
LEMMA RemovedInv ==
  ASSUME KeysInv, NEW gone \in SUBSET Entries,
         Buffers(UNION {FreedWith(n) : n \in gone}, {}, NULL),
         node' = [m \in Entries \ gone |-> node[m]],
         UNCHANGED <<use, flags, app, lost>>
  PROVE  KeysInv'
<1> DEFINE F == UNION {FreedWith(n) : n \in gone}
<1> USE MapKeysAssumption DEF KeysInv
<1>1. /\ \A b \in Buf : text'[b] = IF b \in F THEN NULL ELSE text[b]
      /\ Entries' = Entries \ gone /\ \A m \in Entries \ gone : node'[m] = node[m]
      /\ StrFree' = StrFree /\ StrDup' = StrDup /\ use' = use /\ app' = app /\ lost' = lost
  BY DEF Buffers, Entries, StrFree, StrDup
<1>2. text' \in [Buf -> Name \cup {NULL}]
  BY DEF Buffers, KeysTyped
<1>3. \A b : b \in F <=>
        \E n \in gone :
          \/ StrFree /\ b = node[n].key
          \/ node[n].value.free /\ b = node[n].value.str
  BY DEF FreedWith, FreedByKey, FreedByValue
<1> HIDE DEF F
<1>4. \A b \in app \cup lost : b \notin F
  BY <1>3 DEF KeysFit, ValuesFit
<1>5. ASSUME NEW m \in Entries \ gone
      PROVE  /\ node[m].key # Static => text'[node[m].key] = m
             /\ node[m].value.free => text'[node[m].value.str] = text[node[m].value.str]
  <2>1. /\ node[m].key \in Buf \cup {Static} /\ m # NULL
        /\ node[m].value.free => node[m].value.str \in Buf
    BY DEF KeysTyped, Values, NoValue
  <2>2. ASSUME node[m].key # Static, node[m].key \in F PROVE FALSE
    <3>1. PICK n \in gone :
            \/ StrFree /\ node[m].key = node[n].key
            \/ node[n].value.free /\ node[m].key = node[n].value.str
      BY <1>3, <2>2
    <3>2. n \in Entries /\ n # m
      OBVIOUS
    <3>3. text[node[m].key] = m /\ (StrFree => text[node[n].key] = n)
      BY <2>2, <3>2 DEF KeysFit
    <3>4. node[n].value.free /\ node[m].key = node[n].value.str
      BY <3>1, <3>2, <3>3
    <3>5. ~StrFree
      BY <3>2, <3>4 DEF EntriesApart
    <3>6. node[m].key \notin app
      BY <3>2, <3>4 DEF ValuesFit
    <3>7. node[m].value.free /\ node[m].value.str = node[m].key
      BY <2>2, <3>5, <3>6 DEF KeysFit
    <3> QED BY <3>2, <3>4, <3>7 DEF EntriesApart
  <2>3. ASSUME node[m].value.free, node[m].value.str \in F PROVE FALSE
    <3>1. PICK n \in gone :
            \/ StrFree /\ node[m].value.str = node[n].key
            \/ node[n].value.free /\ node[m].value.str = node[n].value.str
      BY <1>3, <2>3
    <3>2. n \in Entries /\ n # m
      OBVIOUS
    <3> QED BY <2>3, <3>1, <3>2 DEF EntriesApart
  <2>4. node[m].key # Static => text[node[m].key] = m
    BY DEF KeysFit
  <2> QED BY <1>1, <2>1, <2>2, <2>3, <2>4
<1>6. KeysTyped' /\ OthersLive'
  <2>1. OthersLive'
    BY <1>1, <1>4 DEF OthersLive, KeysTyped
  <2> QED BY <1>1, <1>2, <2>1 DEF KeysTyped
<1>7. KeysFit'
  BY <1>1, <1>5 DEF KeysFit
<1>8. ValuesFit'
  BY <1>1, <1>5 DEF ValuesFit
<1>9. EntriesApart'
  BY <1>1 DEF EntriesApart
<1>10. EachHasOwner'
  <2> SUFFICES ASSUME NEW b \in Buf, text'[b] # NULL
               PROVE  \/ b \in app' \cup lost'
                      \/ \E n \in Entries' : StrFree' /\ node'[n].key = b
                      \/ \E n \in Entries' : node'[n].value.free /\ node'[n].value.str = b
    BY DEF EachHasOwner
  <2>1. b \notin F /\ text[b] # NULL
    BY <1>1
  <2>2. ASSUME NEW n \in Entries, StrFree /\ node[n].key = b
        PROVE  n \in Entries' /\ node'[n] = node[n]
    BY <1>1, <1>3, <2>1, <2>2
  <2>3. ASSUME NEW n \in Entries, node[n].value.free /\ node[n].value.str = b
        PROVE  n \in Entries' /\ node'[n] = node[n]
    BY <1>1, <1>3, <2>1, <2>3
  <2> QED BY <1>1, <2>1, <2>2, <2>3 DEF EachHasOwner
<1> QED BY <1>6, <1>7, <1>8, <1>9, <1>10

LEMMA EraseInv == ASSUME KeysInv, NEW n, coMapErase(n) PROVE KeysInv'
<1>1. {n} \in SUBSET Entries /\ UNION {FreedWith(m) : m \in {n}} = FreedWith(n)
  BY DEF coMapErase
<1> QED BY <1>1, RemovedInv DEF coMapErase

LEMMA ClearInv == ASSUME KeysInv, coMapClear PROVE KeysInv'
<1>1. node' = [m \in Entries \ Entries |-> node[m]]
  BY DEF coMapClear
<1> QED BY <1>1, RemovedInv DEF coMapClear

LEMMA KeysStutterInv == ASSUME KeysInv, UNCHANGED keyVars PROVE KeysInv'
BY DEF keyVars, KeysInv, KeysTyped, OthersLive, KeysFit, ValuesFit, EntriesApart, EachHasOwner,
       Entries, StrFree, StrDup

\* In a map that is used in one of the ways SafeUse allows, whatever is added, replaced,
\* erased and cleared and whatever allocation fails: no entry refers to a freed buffer,
\* and each buffer is freed once, by the map or by the application.
THEOREM MapOwnsBuffers ==
  ASSUME \A u \in Uses : SafeUse(u) PROVE KeysSpec => []BuffersOwned
<1>1. KeysInv /\ [KeysNext]_keyVars => KeysInv'
  BY NewStringInv, FreeStringInv, KeysAddInv, AddFailsInv, AddValueKeyInv, AddValueKeyFailsInv,
     EraseInv, ClearInv, KeysStutterInv
  DEF KeysNext
<1>2. KeysInit => KeysInv
  BY KeysInitInv
<1>3. KeysInv => BuffersOwned
  BY KeysInvImplies
<1> QED BY <1>1, <1>2, <1>3, PTL DEF KeysSpec
=============================================================================
