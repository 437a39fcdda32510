--------------------------- MODULE CoAccountProof ---------------------------
(***************************************************************************)
(* Proofs about CoObject, continued: whatever exists is accounted for, the *)
(* objects implement the ownership rules of CoOwnership, the append of a   *)
(* vector adds all clones or none, what is read exists, and without a      *)
(* memory error nothing is lost and every clone is a deep copy.            *)
(*                                                                         *)
(* Every step is described by what it frees, what it makes and the one     *)
(* container whose slots it changes (Changes); what follows for the owners *)
(* (OwnStep), for the frames (BuildsNext, CallNext) and for what is read   *)
(* (Reads) is then shown once, not for every action.                       *)
(***************************************************************************)
EXTENDS CoObjectProof

-----------------------------------------------------------------------------
(* The invariant *)

\* A vector uses the slots from 0 on; a free address has no count.
Packed ==
  /\ \A o \in Obj : kind[o] = "free" => cnt[o] = 0
  /\ \A v \in Obj : kind[v] = "vector" => DOMAIN elem[v] = 0 .. cnt[v] - 1

\* What the frame f builds owns its elements, and has no slot yet for what is
\* still to do.
Builds(f) ==
  f.dst # NULL =>
    /\ kind[f.dst] = IF f.op = "coMapClone" THEN "map" ELSE "vector"
    /\ "CO_FREE_VALS" \in flags[f.dst]
    /\ f.op = "coMapClone" => DOMAIN elem[f.dst] \cap f.todo = {}
    /\ f.op = "coVectorAppendVector" => f.old <= cnt[f.dst]

\* every call in progress
FramesBuild == \A n \in 1 .. Len(call) : Builds(call[n])

Shape == Packed /\ FramesBuild

-----------------------------------------------------------------------------
(* What a step does to the heap *)

Same(o) ==
  kind'[o] = kind[o] /\ flags'[o] = flags[o] /\ elem'[o] = elem[o] /\ cnt'[o] = cnt[o]

\* The objects Fr are freed, the objects Nw are new, and only the object v of
\* the others may get other slots.
Changes(Fr, Nw, v) ==
  /\ Live' = (Live \ Fr) \cup Nw
  /\ Fr \subseteq Obj /\ Nw \subseteq Obj \ Live
  /\ \A o \in Obj \ Nw : o # v /\ o \notin Fr => Same(o)
  /\ \A o \in Fr : kind'[o] = "free" /\ elem'[o] = NoSlots /\ cnt'[o] = 0
  /\ \A q \in Fr, j \in Idx : OwnedSlot(q, j) => elem[q][j] \in Fr

\* what is freed with the slots D of v
Gone(v, D) == Tree(Owned(v, D))

\* v gets the slots, the count and the flags that ReplaceF gives it
Becomes(v, D, new, n, f) ==
  /\ kind'[v] = kind[v] /\ flags'[v] = f[v] /\ cnt'[v] = n
  /\ elem'[v] = NewSlots(v, D, new)

\* Deleting what v owned in its slots D, and filling other slots.
LEMMA ReplaceChanges ==
  ASSUME Inv, NEW v \in held, NEW D \in SUBSET Idx, NEW new \in Slots, NEW n,
         NEW f \in [Obj -> SUBSET Flags], \A o \in Obj \ {v} : f[o] = flags[o],
         ReplaceF(v, D, new, n, f)
  PROVE  /\ Gone(v, D) \in SUBSET Obj /\ Changes(Gone(v, D), {}, v)
         /\ Owned(v, D) \subseteq Gone(v, D) /\ Gone(v, D) \cap (held \cup lost) = {}
         /\ Becomes(v, D, new, n, f)
<1> DEFINE T == Tree(Owned(v, D))
<1> USE DEF Inv
<1>1. v \in Obj /\ v \in Live /\ held \cup lost \subseteq Live
  BY DEF OneOwner, Live
<1>2. \A x \in Owned(v, D) : \E i \in D : OwnedSlot(v, i) /\ x = elem[v][i]
  BY <1>1 DEF Owned, OwnedSlot
<1>3. Owned(v, D) \in SUBSET Obj /\ T \in SUBSET Obj
  BY <1>1, <1>2 DEF OneOwner, Live, Tree
<1>4. T \cap (held \cup lost) = {}
  BY <1>1, <1>2, <1>3, TreeSparesHeld DEF OneOwner
<1>5. /\ kind'  = [o \in Obj |-> IF o \in T THEN "free" ELSE kind[o]]
      /\ flags' = [o \in Obj |-> IF o \in T THEN {} ELSE f[o]]
      /\ elem'  = [o \in Obj |-> IF o \in T THEN NoSlots ELSE
                     [elem EXCEPT ![v] = NewSlots(v, D, new)][o]]
      /\ cnt'   = [o \in Obj |-> IF o \in T THEN 0 ELSE [cnt EXCEPT ![v] = n][o]]
  BY DEF ReplaceF, Free, NewSlots
<1>6. \A q \in T, j \in Idx : OwnedSlot(q, j) => elem[q][j] \in T
  BY <1>3, TreeClosed DEF OneOwner, Live
<1>8. v \notin T
  BY <1>4
<1> HIDE DEF T
<1>9. Live' = (Live \ T) \cup {}
  BY <1>5 DEF Live
<1>10. \A o \in Obj : o # v /\ o \notin T => Same(o)
  <2> SUFFICES ASSUME NEW o \in Obj, o # v, o \notin T PROVE Same(o)
    OBVIOUS
  <2>1. elem'[o] = elem[o] /\ cnt'[o] = cnt[o]
    BY <1>5 DEF StateOK
  <2> QED BY <1>5, <2>1 DEF Same
<1>11. \A o \in T : kind'[o] = "free" /\ elem'[o] = NoSlots /\ cnt'[o] = 0
  BY <1>3, <1>5
<1>12. Changes(T, {}, v)
  BY <1>3, <1>6, <1>9, <1>10, <1>11 DEF Changes
<1>13. /\ kind'[v] = kind[v] /\ flags'[v] = f[v] /\ cnt'[v] = n
       /\ elem'[v] = NewSlots(v, D, new)
  BY <1>1, <1>5, <1>8 DEF StateOK
<1>14. Owned(v, D) \subseteq T
  BY <1>3, TreeContains DEF T
<1> QED BY <1>3, <1>4, <1>12, <1>13, <1>14 DEF Gone, T, Becomes

\* Deleting a held object.
LEMMA DeleteChanges ==
  ASSUME Inv, NEW d \in held, Free(Tree({d}), elem, cnt, flags)
  PROVE  /\ Tree({d}) \in SUBSET Obj /\ Changes(Tree({d}), {}, NULL)
         /\ d \in Tree({d}) /\ Tree({d}) \cap (held \cup lost) = {d}
<1> DEFINE T == Tree({d})
<1> USE DEF Inv
<1>1. d \in Obj /\ {d} \in SUBSET Obj /\ held \cup lost \subseteq Live /\ NULL \notin Obj
  BY ObjAssumption DEF OneOwner, Live
<1>2. T \in SUBSET Obj /\ d \in T
  BY <1>1, TreeContains DEF Tree
<1>3. T \cap (held \cup lost) = {d}
  BY <1>1, <1>2, TreeSparesHeld
<1>4. \A q \in T, j \in Idx : OwnedSlot(q, j) => elem[q][j] \in T
  <2> SUFFICES ASSUME NEW q \in T, NEW j \in Idx, OwnedSlot(q, j)
               PROVE  elem[q][j] \in T
    OBVIOUS
  <2>1. q \in Obj /\ elem[q][j] \in Obj
    BY <1>2 DEF OneOwner, Live
  <2> DEFINE S == {d}
  <2>2. S \in SUBSET Obj /\ q \in Tree(S)
    BY <1>1
  <2> HIDE DEF S
  <2>3. elem[q][j] \in Tree(S)
    BY <2>1, <2>2, TreeClosed
  <2> QED BY <2>3 DEF S
<1>6. /\ kind'  = [o \in Obj |-> IF o \in T THEN "free" ELSE kind[o]]
      /\ flags' = [o \in Obj |-> IF o \in T THEN {} ELSE flags[o]]
      /\ elem'  = [o \in Obj |-> IF o \in T THEN NoSlots ELSE elem[o]]
      /\ cnt'   = [o \in Obj |-> IF o \in T THEN 0 ELSE cnt[o]]
  BY DEF Free
<1> HIDE DEF T
<1>7. Live' = (Live \ T) \cup {}
  BY <1>6 DEF Live
<1>8. \A o \in Obj : o \notin T => Same(o)
  BY <1>6 DEF Same
<1>9. \A o \in T : kind'[o] = "free" /\ elem'[o] = NoSlots /\ cnt'[o] = 0
  BY <1>2, <1>6
<1>10. Changes(T, {}, NULL)
  BY <1>2, <1>4, <1>7, <1>8, <1>9 DEF Changes
<1> QED BY <1>2, <1>3, <1>10 DEF T

\* A new object.
LEMMA AllocChanges ==
  ASSUME Inv, Packed, NEW o \in Obj, NEW k \in Kinds \ {"free"}, NEW f, Alloc(o, k, f)
  PROVE  /\ Changes({}, {o}, NULL) /\ o \notin Live
         /\ kind'[o] = k /\ flags'[o] = f /\ elem'[o] = NoSlots /\ cnt'[o] = 0
<1> USE DEF Inv
<1>1. /\ kind'  = [kind EXCEPT ![o] = k]
      /\ flags' = [flags EXCEPT ![o] = f]
      /\ elem'  = elem /\ cnt' = cnt /\ kind[o] = "free"
  BY DEF Alloc
<1>2. Live' = (Live \ {}) \cup {o} /\ o \notin Live
  BY <1>1 DEF Live, StateOK
<1>3. \A q \in Obj \ {o} : Same(q)
  BY <1>1 DEF Same, StateOK
<1>4. kind'[o] = k /\ flags'[o] = f /\ elem'[o] = NoSlots /\ cnt'[o] = 0
  BY <1>1 DEF StateOK, FreeIsBlank, Packed
<1> QED BY <1>2, <1>3, <1>4 DEF Changes

\* The heap stays as it is.
LEMMA StillChanges ==
  ASSUME UNCHANGED heap
  PROVE  Changes({}, {}, NULL)
  BY DEF Changes, heap, Same, Live

-----------------------------------------------------------------------------
(* What a step does to the owners *)

\* after the step a local variable owns x, or x is lost, or a container that a
\* local variable owns has it
Placed(x) ==
  \/ x \in held' \cup lost'
  \/ \E q \in held', j \in Idx : OwnedSlot(q, j)' /\ elem'[q][j] = x

\* what q owns in slot j is freed, or stays there
Keeps(Fr, q, j) ==
  elem[q][j] \in Fr \/ (OwnedSlot(q, j)' /\ elem'[q][j] = elem[q][j])

\* Fr is freed, Nw is new.  What is not freed keeps the container that owns it;
\* what the local variables give up, and what is new, has an owner; what is
\* lost stays lost.
OwnStep(Fr, Nw) ==
  /\ Live' = (Live \ Fr) \cup Nw /\ Nw \cap Live = {}
  /\ \A q \in Obj, j \in Idx : OwnedSlot(q, j) => Keeps(Fr, q, j)
  /\ \A x \in held \cup lost : x \in Fr \/ Placed(x)
  /\ \A x \in Nw : \/ Placed(x)
                    \/ \E q \in Nw, j \in Idx :
                         Placed(q) /\ OwnedSlot(q, j)' /\ elem'[q][j] = x
  /\ lost \subseteq lost'

\* The effect on the heap of a step that changes the slots of v at most.
HeapStep(v) ==
  /\ Packed'
  /\ \A o \in held \ {v} : Same(o)
  /\ \E Fr, Nw \in SUBSET Obj : OwnStep(Fr, Nw)

\* After such a step every object is accounted for again.
LEMMA OwnStepAccounted ==
  ASSUME StateOK, FreeIsBlank, Accounted, NEW Fr \in SUBSET Obj, NEW Nw \in SUBSET Obj,
         OwnStep(Fr, Nw), held \cup lost \subseteq Obj
  PROVE  Accounted'
<1> SUFFICES ASSUME NEW x \in Obj, x \in Live', NEW T \in SUBSET Obj,
                    held' \cup lost' \subseteq T, Closed(T)'
             PROVE  x \in T
  BY DEF Accounted, Tree, Live
<1>1. ASSUME NEW q \in T, NEW j \in Idx, OwnedSlot(q, j)' PROVE elem'[q][j] \in T
  BY <1>1 DEF Closed, Owned, OwnedSlot
<1>2. \A y \in Obj : Placed(y) => y \in T
  BY <1>1 DEF Placed
<1>3. CASE x \in Nw
  BY <1>1, <1>2, <1>3 DEF OwnStep
<1>4. CASE x \notin Nw
  <2> DEFINE S == T \cup Fr
  <2>1. S \in SUBSET Obj /\ held \cup lost \subseteq S
    BY <1>2 DEF OwnStep
  <2>2. Closed(S)
    <3>1. ASSUME NEW q \in S, NEW j \in Idx, OwnedSlot(q, j) PROVE elem[q][j] \in S
      <4>1. CASE OwnedSlot(q, j)' /\ elem'[q][j] = elem[q][j]
        <5>1. q \in Live'
          BY <4>1 DEF OwnedSlot
        <5>2. q \in Live
          BY <3>1 DEF OwnedSlot
        <5>3. q \in T
          BY <5>1, <5>2 DEF OwnStep
        <5> QED BY <1>1, <4>1, <5>3
      <4> QED BY <2>1, <3>1, <4>1 DEF OwnStep, Keeps
    <3> QED BY <2>1, <3>1, ClosedBySlots
  <2>3. x \in Live /\ x \notin Fr
    BY <1>4 DEF OwnStep
  <2> QED BY <2>1, <2>2, <2>3 DEF Accounted, Tree
<1> QED BY <1>3, <1>4

\* What keeps its container.
LEMMA ChangesKeep ==
  ASSUME Inv, NEW Fr \in SUBSET Obj, NEW Nw \in SUBSET Obj, NEW v, Changes(Fr, Nw, v),
         \A j \in Idx : OwnedSlot(v, j) => Keeps(Fr, v, j)
  PROVE  \A q \in Obj, j \in Idx : OwnedSlot(q, j) => Keeps(Fr, q, j)
<1> SUFFICES ASSUME NEW q \in Obj, NEW j \in Idx, OwnedSlot(q, j), q # v, q \notin Fr
             PROVE  OwnedSlot(q, j)' /\ elem'[q][j] = elem[q][j]
  BY DEF Changes, Keeps
<1>1. q \in Live /\ q \notin Nw /\ q \in Live'
  BY DEF OwnedSlot, Changes
<1> QED BY <1>1 DEF Changes, Same, OwnedSlot, Owns

\* The other vectors stay packed.
LEMMA PackedKept ==
  ASSUME Packed, NEW Fr \in SUBSET Obj, NEW Nw \in SUBSET Obj, NEW v, Changes(Fr, Nw, v),
         \A o \in Nw \cup ({v} \ {NULL}) :
           /\ kind'[o] # "free"
           /\ kind'[o] = "vector" => DOMAIN elem'[o] = 0 .. cnt'[o] - 1
  PROVE  Packed'
<1>1. ASSUME NEW o \in Obj
      PROVE  /\ kind'[o] = "free" => cnt'[o] = 0
             /\ kind'[o] = "vector" => DOMAIN elem'[o] = 0 .. cnt'[o] - 1
  <2>1. CASE o \in Nw \cup {v}
    BY <2>1, ObjAssumption
  <2>2. CASE o \in Fr
    BY <2>2 DEF Changes
  <2>3. CASE o \notin Nw \cup {v} \cup Fr
    BY <2>3 DEF Changes, Same, Packed
  <2> QED BY <2>1, <2>2, <2>3
<1> QED BY <1>1 DEF Packed

\* Slots of v are emptied and filled; M leaves the local variables.
LEMMA ReplaceStep ==
  ASSUME Inv, Packed, NEW v \in held, NEW D \in SUBSET Idx, NEW new \in Slots, NEW n,
         NEW f \in [Obj -> SUBSET Flags], \A o \in Obj \ {v} : f[o] = flags[o],
         NEW M, NEW L, Leave(M, L),
         \A i \in DOMAIN new : i \in DOMAIN elem[v] => i \in D,
         f[v] = flags[v] \/ DOMAIN elem[v] \subseteq D,
         \A x \in M \ L : /\ v \notin M /\ f[v] = flags[v]
                           /\ \E i \in DOMAIN new : new[i] = x /\ Owns(v, i),
         kind[v] = "vector" => (DOMAIN elem[v] \ D) \cup DOMAIN new = 0 .. n - 1,
         ReplaceF(v, D, new, n, f)
  PROVE  /\ HeapStep(v)
         /\ Becomes(v, D, new, n, f)
<1>1. v \in Obj /\ v \in Live /\ kind[v] # "free" /\ held \cup lost \subseteq Obj
  BY DEF Inv, OneOwner, Live
<1> DEFINE Fr == Gone(v, D)
<1>2. /\ Fr \in SUBSET Obj /\ Changes(Fr, {}, v)
      /\ Owned(v, D) \subseteq Fr /\ Fr \cap (held \cup lost) = {}
      /\ Becomes(v, D, new, n, f)
      /\ kind'[v] = kind[v] /\ flags'[v] = f[v] /\ cnt'[v] = n
      /\ elem'[v] = NewSlots(v, D, new)
  BY ReplaceChanges DEF Becomes
<1> HIDE DEF Fr
<1>3. DOMAIN elem'[v] = (DOMAIN elem[v] \ D) \cup DOMAIN new
  BY <1>2 DEF NewSlots
<1>4. Packed'
  <2>1. {v} \ {NULL} \subseteq {v} /\ {} \in SUBSET Obj
    OBVIOUS
  <2> QED BY <1>1, <1>2, <1>3, <2>1, PackedKept
<1>5. \A o \in held \ {v} : Same(o)
  BY <1>1, <1>2 DEF Changes
<1>6. v \in Live'
  BY <1>1, <1>2 DEF Live
<1>7. \A j \in Idx : OwnedSlot(v, j) => Keeps(Fr, v, j)
  <2> SUFFICES ASSUME NEW j \in Idx, OwnedSlot(v, j), elem[v][j] \notin Fr
               PROVE  OwnedSlot(v, j)' /\ elem'[v][j] = elem[v][j]
    BY DEF Keeps
  <2>1. j \in DOMAIN elem[v] /\ j \notin D
    BY <1>2 DEF OwnedSlot, Owned
  <2>2. j \notin DOMAIN new /\ f[v] = flags[v]
    BY <2>1
  <2>3. elem'[v][j] = elem[v][j] /\ j \in DOMAIN elem'[v]
    BY <1>2, <1>3, <2>1, <2>2 DEF NewSlots
  <2> QED BY <1>2, <1>6, <2>2, <2>3 DEF OwnedSlot, Owns
<1>8. \A x \in held \cup lost : Placed(x)
  <2> SUFFICES ASSUME NEW x \in M \ L PROVE Placed(x)
    BY DEF Leave, Placed
  <2>1. PICK i \in DOMAIN new : new[i] = x /\ Owns(v, i)
    OBVIOUS
  <2>2. i \in DOMAIN elem'[v] /\ elem'[v][i] = x /\ i \in Idx
    BY <1>2, <1>3, <2>1, SlotsOut DEF NewSlots
  <2>3. x # NULL
    BY <1>1, ObjAssumption DEF Leave
  <2>4. OwnedSlot(v, i)'
    BY <1>2, <1>6, <2>1, <2>2, <2>3 DEF OwnedSlot, Owns
  <2>5. v \in held'
    BY DEF Leave
  <2> QED BY <2>2, <2>4, <2>5 DEF Placed
<1>9. OwnStep(Fr, {})
  <2>1. lost \subseteq lost'
    BY DEF Leave
  <2>2. Live' = (Live \ Fr) \cup {}
    BY <1>2 DEF Changes
  <2>3. \A q \in Obj, j \in Idx : OwnedSlot(q, j) => Keeps(Fr, q, j)
    <3> DEFINE Nw == {}
    <3>1. Nw \in SUBSET Obj /\ Changes(Fr, Nw, v)
      BY <1>2
    <3> HIDE DEF Nw
    <3> QED BY <1>2, <1>7, <3>1, ChangesKeep
  <2> QED BY <1>8, <2>1, <2>2, <2>3 DEF OwnStep
<1>10. {} \in SUBSET Obj
  OBVIOUS
<1> QED BY <1>2, <1>4, <1>5, <1>9, <1>10 DEF HeapStep

\* A new object, owned by a local variable or lost.
LEMMA AllocStep ==
  ASSUME Inv, Packed, NEW o \in Obj, NEW k \in Kinds \ {"free"}, NEW f, Alloc(o, k, f),
         \/ held' = held \cup {o} /\ lost' = lost
         \/ held' = held /\ lost' = lost \cup {o}
  PROVE  /\ HeapStep(NULL)
         /\ kind'[o] = k /\ flags'[o] = f /\ elem'[o] = NoSlots /\ cnt'[o] = 0
<1> DEFINE Fr == {}
           Nw == {o}
<1>1. /\ Changes(Fr, Nw, NULL) /\ o \notin Live
      /\ kind'[o] = k /\ flags'[o] = f /\ elem'[o] = NoSlots /\ cnt'[o] = 0
  BY AllocChanges
<1>2. Fr \in SUBSET Obj /\ Nw \in SUBSET Obj /\ \A x \in Nw : x = o
  OBVIOUS
<1>3. \A x \in held \cup lost : Placed(x)
  BY DEF Placed
<1>4. Placed(o)
  BY DEF Placed
<1>5. held \cup lost \subseteq Live /\ lost \subseteq lost' /\ held \subseteq Obj
  BY DEF Inv, OneOwner, StateOK
<1> HIDE DEF Fr, Nw
<1>6. \A j \in Idx : OwnedSlot(NULL, j) => Keeps(Fr, NULL, j)
  BY ObjAssumption DEF OwnedSlot, Live
<1>7. \A q \in Obj, j \in Idx : OwnedSlot(q, j) => Keeps(Fr, q, j)
  BY <1>1, <1>2, <1>6, ChangesKeep
<1>8. Packed'
  <2>1. DOMAIN elem'[o] = 0 .. cnt'[o] - 1
    BY <1>1, NoSlotsType
  <2> QED BY <1>1, <1>2, <2>1, PackedKept
<1>9. \A x \in held \ {NULL} : Same(x)
  BY <1>1, <1>2, <1>5 DEF Changes, Fr
<1>10. OwnStep(Fr, Nw)
  BY <1>1, <1>2, <1>3, <1>4, <1>5, <1>7 DEF OwnStep, Changes
<1> QED BY <1>1, <1>2, <1>8, <1>9, <1>10 DEF HeapStep

\* A held object is deleted; L is lost.
LEMMA DeleteStep ==
  ASSUME Inv, Packed, NEW d \in held, Free(Tree({d}), elem, cnt, flags),
         NEW L \in SUBSET (held \ {d}), held' = held \ ({d} \cup L),
         lost' = lost \cup L
  PROVE  HeapStep(d)
<1> DEFINE Fr == Tree({d})
           Nw == {}
<1>1. /\ Fr \in SUBSET Obj /\ Changes(Fr, Nw, NULL)
      /\ d \in Fr /\ Fr \cap (held \cup lost) = {d}
  BY DeleteChanges
<1>2. Nw \in SUBSET Obj /\ \A x \in Nw : FALSE
  OBVIOUS
<1> HIDE DEF Fr, Nw
<1>3. \A x \in held \cup lost : x = d \/ Placed(x)
  BY DEF Placed
<1>4. held \subseteq Obj /\ lost \subseteq lost'
  BY DEF Inv, StateOK
<1>6. \A j \in Idx : OwnedSlot(NULL, j) => Keeps(Fr, NULL, j)
  BY ObjAssumption DEF OwnedSlot, Live
<1>7. \A q \in Obj, j \in Idx : OwnedSlot(q, j) => Keeps(Fr, q, j)
  BY <1>1, <1>2, <1>6, ChangesKeep
<1>8. Packed'
  BY <1>1, <1>2, PackedKept
<1>9. \A x \in held \ {d} : Same(x)
  BY <1>1, <1>2, <1>4, ObjAssumption DEF Changes
<1>10. OwnStep(Fr, Nw)
  BY <1>1, <1>2, <1>3, <1>4, <1>7 DEF OwnStep, Changes
<1> QED BY <1>1, <1>2, <1>8, <1>9, <1>10 DEF HeapStep

\* The heap does not change; L is lost.
LEMMA StillStep ==
  ASSUME Inv, Packed, UNCHANGED heap, NEW L, Leave(L, L)
  PROVE  HeapStep(NULL)
<1> DEFINE Fr == {}
           Nw == {}
<1>1. Fr \in SUBSET Obj /\ Nw \in SUBSET Obj /\ \A x \in Nw : FALSE
  OBVIOUS
<1>2. Changes(Fr, Nw, NULL)
  BY StillChanges
<1> HIDE DEF Fr, Nw
<1>3. \A x \in held \cup lost : Placed(x)
  BY DEF Placed, Leave
<1>4. \A j \in Idx : OwnedSlot(NULL, j) => Keeps(Fr, NULL, j)
  BY ObjAssumption DEF OwnedSlot, Live
<1>5. \A q \in Obj, j \in Idx : OwnedSlot(q, j) => Keeps(Fr, q, j)
  BY <1>1, <1>2, <1>4, ChangesKeep
<1>6. Packed'
  BY <1>1, <1>2, PackedKept
<1>7. \A x \in held \ {NULL} : Same(x)
  BY DEF Same, heap
<1>8. OwnStep(Fr, Nw)
  BY <1>1, <1>2, <1>3, <1>5 DEF OwnStep, Changes, Leave
<1> QED BY <1>1, <1>6, <1>7, <1>8 DEF HeapStep

\* The pair [s, value] is made and goes into the next slot of the vector d.
Pieces(p, s) == {p} \cup ({s} \ {NULL})
\* the slots of the vector d and of the pair after that
PairMade(d, c, p, s, value) ==
  /\ Changes({}, Pieces(p, s), d)
  /\ elem'[d] = With(elem[d], c, p) /\ flags'[d] = flags[d]
  /\ elem'[p] = Pair(s, value) /\ flags'[p] = {"CO_FREE_FIRST"}
  /\ s # NULL => elem'[s] = NoSlots

LEMMA PairStep ==
  ASSUME Inv, Packed, NEW d \in held, NEW c, c = cnt[d], NEW p \in Obj,
         NEW s \in Obj \cup {NULL},
         NEW value \in Obj \cup {NULL}, kind[d] = "vector", "CO_FREE_VALS" \in flags[d],
         c < MaxCnt, p # s, kind[p] = "free", s # NULL => kind[s] = "free",
         \A o \in Obj : kind'[o] = IF o = p THEN "vector"
                                   ELSE IF o = s THEN "str" ELSE kind[o],
         flags' = [flags EXCEPT ![p] = {"CO_FREE_FIRST"}],
         elem'  = [elem EXCEPT ![p] = Pair(s, value), ![d] = With(elem[d], c, p)],
         cnt'   = [cnt EXCEPT ![p] = 2, ![d] = c + 1],
         UNCHANGED <<held, lost>>
  PROVE  /\ HeapStep(d)
         /\ kind'[d] = kind[d] /\ flags'[d] = flags[d]
         /\ PairMade(d, c, p, s, value)
<1> DEFINE Fr == {}
           Nw == Pieces(p, s)
<1> USE DEF Pieces
<1> USE DEF Inv
<1>0. d \in Obj
  BY DEF StateOK
<1>1. /\ d \in Live /\ d \in Obj /\ d # p /\ d # s /\ p # NULL /\ d # NULL
      /\ c \in Nat /\ c \in Idx /\ held \cup lost \subseteq Live /\ Live \subseteq Obj
      /\ 0 \in Idx /\ 1 \in Idx
  <2>1. c \in 0 .. MaxCnt /\ MaxCnt \in Nat
    BY <1>0, CntType
  <2>2. c \in Idx /\ c \in Nat /\ 0 \in Idx /\ 1 \in Idx
    BY <2>1, IdxNat, BoundAssumption
  <2> QED BY <1>0, <2>2, ObjAssumption DEF OneOwner, Live
<1>2. Nw \in SUBSET Obj /\ Nw \cap Live = {} /\ Fr \in SUBSET Obj
  BY DEF Live
<1>3. Live' = (Live \ Fr) \cup Nw
  <2>1. \A o \in Obj : kind'[o] # "free" <=> kind[o] # "free" \/ o = p \/ o = s
    OBVIOUS
  <2> QED BY <2>1, ObjAssumption DEF Live
<1>4. /\ elem'[p] = Pair(s, value)
      /\ elem'[d] = With(elem[d], c, p)
      /\ \A o \in Obj \ {p, d} : elem'[o] = elem[o]
  BY <1>1 DEF StateOK
<1>5. /\ flags'[p] = {"CO_FREE_FIRST"}
      /\ \A o \in Obj \ {p} : flags'[o] = flags[o]
      /\ cnt'[p] = 2 /\ cnt'[d] = c + 1
      /\ \A o \in Obj \ {p, d} : cnt'[o] = cnt[o]
  BY <1>1 DEF StateOK
<1>6. Changes(Fr, Nw, d)
  <2>1. \A o \in Obj \ Nw : o # d => Same(o)
    BY <1>4, <1>5, ObjAssumption DEF Same
  <2> QED BY <1>2, <1>3, <2>1 DEF Changes
<1>7. /\ p \in Live' /\ d \in Live' /\ (s # NULL => s \in Live')
      /\ kind'[d] = kind[d] /\ kind'[p] = "vector" /\ flags'[d] = flags[d]
      /\ s # NULL => kind'[s] = "str"
  BY <1>1, <1>3, <1>5
<1>8. OwnedSlot(d, c)' /\ elem'[d][c] = p
  <2>1. c \in DOMAIN elem'[d] /\ elem'[d][c] = p
    BY <1>4 DEF With
  <2>2. "CO_FREE_VALS" \in flags'[d]
    BY <1>7
  <2> QED BY <1>1, <1>7, <2>1, <2>2 DEF OwnedSlot, Owns
<1>9. s # NULL => OwnedSlot(p, 0)' /\ elem'[p][0] = s
  BY <1>4, <1>5, <1>7 DEF OwnedSlot, Owns, Pair
<1>10. Placed(p)
  BY <1>1, <1>8 DEF Placed, OwnedSlot
<1>11. \A x \in Nw : \/ Placed(x)
                     \/ \E q \in Nw, j \in Idx :
                          Placed(q) /\ OwnedSlot(q, j)' /\ elem'[q][j] = x
  <2>1. s # NULL => \E q \in Nw, j \in Idx :
                      Placed(q) /\ OwnedSlot(q, j)' /\ elem'[q][j] = s
    BY <1>1, <1>9, <1>10
  <2> QED BY <1>10, <2>1
<1>12. DOMAIN elem[d] = 0 .. c - 1 /\ c \notin DOMAIN elem[d]
       /\ DOMAIN elem'[d] = 0 .. c
  <2>1. DOMAIN elem[d] = 0 .. c - 1
    BY <1>1 DEF Packed
  <2>2. DOMAIN elem'[d] = DOMAIN elem[d] \cup {c}
    BY <1>4 DEF With
  <2>3. c \in Nat /\ 0 .. c - 1 \cup {c} = 0 .. c /\ c \notin 0 .. c - 1
    BY <1>1
  <2> QED BY <2>1, <2>2, <2>3
<1>13. Packed'
  <2>1. DOMAIN elem'[p] = 0 .. cnt'[p] - 1
    <3>1. DOMAIN elem'[p] = {0, 1}
      BY <1>4 DEF Pair
    <3>2. {0, 1} = 0 .. 2 - 1
      OBVIOUS
    <3> QED BY <1>5, <3>1, <3>2
  <2>2. DOMAIN elem'[d] = 0 .. cnt'[d] - 1
    <3>1. c + 1 - 1 = c
      BY <1>1
    <3>2. DOMAIN elem'[d] = 0 .. c /\ cnt'[d] = c + 1
      BY <1>5, <1>12
    <3>3. cnt'[d] - 1 = c
      BY <1>1, <3>2
    <3> QED BY <3>2, <3>3, Zenon
  <2>3. \A o \in Nw \cup ({d} \ {NULL}) :
           /\ kind'[o] # "free"
           /\ kind'[o] = "vector" => DOMAIN elem'[o] = 0 .. cnt'[o] - 1
    BY <1>7, <2>1, <2>2
  <2> HIDE DEF Nw, Fr
  <2> QED BY <1>2, <1>6, <2>3, PackedKept
<1>14. \A q \in Obj, j \in Idx : OwnedSlot(q, j) => Keeps(Fr, q, j)
  <2>1. \A j \in Idx : OwnedSlot(d, j) => Keeps(Fr, d, j)
    <3> SUFFICES ASSUME NEW j \in Idx, OwnedSlot(d, j)
                 PROVE  OwnedSlot(d, j)' /\ elem'[d][j] = elem[d][j]
      BY DEF Keeps
    <3>1. j \in DOMAIN elem[d] /\ j # c
      BY <1>12 DEF OwnedSlot
    <3>2. elem'[d][j] = elem[d][j] /\ j \in DOMAIN elem'[d]
      BY <1>4, <3>1 DEF With
    <3> QED BY <1>5, <1>7, <3>2 DEF OwnedSlot, Owns
  <2> HIDE DEF Nw, Fr
  <2> QED BY <1>2, <1>6, <2>1, ChangesKeep
<1>15. OwnStep(Fr, Nw)
  <2>1. \A x \in held \cup lost : Placed(x)
    BY DEF Placed
  <2> HIDE DEF Nw, Fr
  <2> QED BY <1>2, <1>3, <1>11, <1>14, <2>1 DEF OwnStep
<1>16. \A o \in held \ {d} : Same(o)
  BY <1>1, <1>2, <1>6 DEF Changes
<1>17. s # NULL => elem'[s] = NoSlots
  BY <1>1, <1>4 DEF FreeIsBlank
<1>18. HeapStep(d)
  BY <1>2, <1>13, <1>15, <1>16 DEF HeapStep
<1>19. PairMade(d, c, p, s, value)
  BY <1>4, <1>5, <1>6, <1>7, <1>17 DEF PairMade
<1> QED BY <1>7, <1>18, <1>19

\* The same, for a pair that is described by a formula.
PairGoesTo(d, c, p, s, value) ==
  /\ kind[d] = "vector" /\ "CO_FREE_VALS" \in flags[d] /\ c = cnt[d] /\ c < MaxCnt
  /\ p # s /\ kind[p] = "free" /\ (s # NULL => kind[s] = "free")
  /\ kind'  = [o \in Obj |-> IF o = p THEN "vector"
                             ELSE IF o = s THEN "str" ELSE kind[o]]
  /\ flags' = [flags EXCEPT ![p] = {"CO_FREE_FIRST"}]
  /\ elem'  = [elem EXCEPT ![p] = Pair(s, value), ![d] = With(elem[d], c, p)]
  /\ cnt'   = [cnt EXCEPT ![p] = 2, ![d] = c + 1]
  /\ UNCHANGED <<held, lost>>

LEMMA PairGoes ==
  ASSUME Inv, Packed, NEW d \in held, NEW c, NEW p \in Obj, NEW s \in Obj \cup {NULL},
         NEW value \in Obj \cup {NULL}, PairGoesTo(d, c, p, s, value)
  PROVE  /\ HeapStep(d)
         /\ kind'[d] = kind[d] /\ flags'[d] = flags[d]
         /\ PairMade(d, c, p, s, value)
<1>1. /\ kind[d] = "vector" /\ "CO_FREE_VALS" \in flags[d] /\ c = cnt[d] /\ c < MaxCnt
      /\ p # s /\ kind[p] = "free" /\ (s # NULL => kind[s] = "free")
      /\ flags' = [flags EXCEPT ![p] = {"CO_FREE_FIRST"}]
      /\ elem'  = [elem EXCEPT ![p] = Pair(s, value), ![d] = With(elem[d], c, p)]
      /\ cnt'   = [cnt EXCEPT ![p] = 2, ![d] = c + 1]
      /\ UNCHANGED <<held, lost>>
      /\ \A o \in Obj : kind'[o] = IF o = p THEN "vector"
                                   ELSE IF o = s THEN "str" ELSE kind[o]
  BY DEF PairGoesTo
<1> HIDE DEF PairGoesTo
<1> QED BY <1>1, PairStep

-----------------------------------------------------------------------------
(* What a step does to the frames *)

\* The frame g builds its object after the step.
BuildsNext(g) ==
  g.dst # NULL =>
    /\ kind'[g.dst] = IF g.op = "coMapClone" THEN "map" ELSE "vector"
    /\ "CO_FREE_VALS" \in flags'[g.dst]
    /\ g.op = "coMapClone" => DOMAIN elem'[g.dst] \cap g.todo = {}
    /\ g.op = "coVectorAppendVector" => g.old <= cnt'[g.dst]

\* a vector that is appended to keeps the elements it had, and gets all or none
BottomKept ==
  \A v \in Obj :
    /\ call # <<>> /\ call[1].op = "coVectorAppendVector" /\ call[1].dst = v =>
         /\ \A i \in 0 .. call[1].old - 1 : elem'[v][i] = elem[v][i]
         /\ call' = <<>> => \/ cnt'[v] = call[1].old
                            \/ call[1].todo = {}

\* What is proved of every step.
StepOK ==
  /\ Shape'
  /\ \E Fr, Nw \in SUBSET Obj : OwnStep(Fr, Nw)
  /\ BottomKept

\* A frame that stays, with what it builds.
LEMMA FrameKept ==
  ASSUME NEW f, NEW g, Builds(f), g.dst = f.dst, g.op = f.op, g.old = f.old,
         g.todo \subseteq f.todo, f.dst # NULL => Same(f.dst)
  PROVE  BuildsNext(g)
  BY DEF Builds, BuildsNext, Same

\* Frames below the one on top stay, and so does what they build.
LEMMA FramesBelow ==
  ASSUME Inv, FramesBuild, call # <<>>, NEW v \in {NULL, Top.dst}, HeapStep(v),
         NEW n \in 1 .. Len(call) - 1, NEW g, g = call[n]
  PROVE  /\ g.dst # NULL => g.dst \in Obj /\ Same(g.dst)
         /\ BuildsNext(g)
<1>1. n \in 1 .. Len(call) /\ n # Len(call) /\ Len(call) \in 1 .. Len(call)
  BY TopType DEF Inv, StateOK
<1>2. call[n].dst # NULL => /\ call[n].dst \in held /\ call[n].dst # Top.dst
                            /\ call[n].dst \in Obj
  BY <1>1 DEF Inv, FramesOK, Top, StateOK
<1>3. g.dst # NULL => g.dst \in Obj /\ Same(g.dst)
  BY <1>2 DEF HeapStep
<1>4. Builds(g)
  BY <1>1 DEF FramesBuild
<1> QED BY <1>3, <1>4, FrameKept

\* Handled, in full.
LEMMA HandledFrames ==
  ASSUME StateOK, call # <<>>, NEW D
  PROVE  /\ Len(Handled(D)) = Len(call)
         /\ \A n \in 1 .. Len(call) - 1 : Handled(D)[n] = call[n]
         /\ Handled(D)[Len(call)] = [Top EXCEPT !.todo = @ \ D]
<1> DEFINE top == [Top EXCEPT !.todo = @ \ D]
<1>1. call \in Seq(Frame) /\ Len(call) \in 1 .. Len(call) /\ Top \in Frame
  BY TopType DEF StateOK
<1>2. top \in Frame
  BY <1>1 DEF Frame
<1>3. Handled(D) = [call EXCEPT ![Len(call)] = top]
  BY DEF Handled, Top
<1> HIDE DEF top
<1>4. /\ Len(Handled(D)) = Len(call)
      /\ \A n \in 1 .. Len(call) - 1 : Handled(D)[n] = call[n]
      /\ Handled(D)[Len(call)] = top
  BY <1>1, <1>2, <1>3
<1> QED BY <1>4 DEF top

\* The step of a function on the frame on top.
LEMMA TopStep ==
  ASSUME Inv, Shape, call # <<>>, NEW v \in {NULL, Top.dst}, HeapStep(v),
         NEW D, call' = Handled(D),
         NEW g, g = [Top EXCEPT !.todo = @ \ D], BuildsNext(g),
         Len(call) = 1 /\ Top.op = "coVectorAppendVector" =>
           \A i \in 0 .. Top.old - 1 : elem'[Top.dst][i] = elem[Top.dst][i]
  PROVE  StepOK
<1>1. /\ Len(call') = Len(call) /\ Len(call) \in Nat \ {0}
      /\ \A n \in 1 .. Len(call) - 1 : call'[n] = call[n]
      /\ call'[Len(call)] = g
  BY HandledFrames DEF Inv, StateOK
<1>2. \A n \in 1 .. Len(call) - 1 : BuildsNext(call'[n])
  BY <1>1, FramesBelow DEF Shape
<1>3. \A n \in 1 .. Len(call') : BuildsNext(call'[n])
  BY <1>1, <1>2
<1>4. FramesBuild'
  BY <1>3 DEF FramesBuild, Builds, BuildsNext
<1>5. BottomKept
  <2>1. call' # <<>>
    BY <1>1
  <2>2. CASE Len(call) = 1
    BY <2>1, <2>2 DEF BottomKept, Top
  <2>3. CASE Len(call) # 1
    <3>1. 1 \in 1 .. Len(call) - 1
      BY <1>1, <2>3
    <3>2. call[1].dst # NULL => Same(call[1].dst)
      BY <3>1, FramesBelow DEF Shape
    <3> QED BY <2>1, <3>2, ObjAssumption DEF BottomKept, Same
  <2> QED BY <2>2, <2>3
<1> QED BY <1>4, <1>5 DEF StepOK, Shape, HeapStep

\* The function on top returns.
LEMMA ReturnStep ==
  ASSUME Inv, Shape, call # <<>>, NEW v \in {NULL, Top.dst}, HeapStep(v),
         call' = Below,
         Len(call) = 1 /\ Top.op = "coVectorAppendVector" =>
           /\ \A i \in 0 .. Top.old - 1 : elem'[Top.dst][i] = elem[Top.dst][i]
           /\ cnt'[Top.dst] = Top.old \/ Top.todo = {}
  PROVE  StepOK
<1>1. /\ Len(call') = Len(call) - 1 /\ Len(call) \in Nat \ {0}
      /\ \A n \in 1 .. Len(call) - 1 : call'[n] = call[n]
  BY BelowType DEF Inv, StateOK
<1>2. \A n \in 1 .. Len(call) - 1 : BuildsNext(call'[n])
  BY <1>1, FramesBelow DEF Shape
<1>3. FramesBuild'
  BY <1>1, <1>2 DEF FramesBuild, Builds, BuildsNext
<1>4. BottomKept
  <2>1. CASE Len(call) = 1
    BY <2>1 DEF BottomKept, Top
  <2>2. CASE Len(call) # 1
    <3>1. 1 \in 1 .. Len(call) - 1 /\ call' # <<>>
      BY <1>1, <2>2
    <3>2. call[1].dst # NULL => Same(call[1].dst)
      BY <3>1, FramesBelow DEF Shape
    <3> QED BY <3>1, <3>2, ObjAssumption DEF BottomKept, Same
  <2> QED BY <2>1, <2>2
<1> QED BY <1>3, <1>4 DEF StepOK, Shape, HeapStep

-----------------------------------------------------------------------------
(* The steps of the application *)

\* A call that the application made and that returned at once.
LEMMA IdleStep ==
  ASSUME Idle, UNCHANGED call, NEW v, HeapStep(v)
  PROVE  StepOK
<1>1. call = <<>> /\ call' = <<>>
  BY DEF Idle
<1> QED BY <1>1 DEF StepOK, Shape, FramesBuild, BottomKept, HeapStep

\* One element is stored in a container the application holds.
LEMMA StoreStep ==
  ASSUME Inv, Packed, Idle, NEW v \in held, NEW D \in SUBSET Idx, NEW i \in Idx, NEW p,
         NEW n \in 0 .. MaxCnt, MayStore(v, i, p), Replace(v, D, Slot(i, p), n),
         i \in DOMAIN elem[v] => i \in D,
         kind[v] = "vector" => (DOMAIN elem[v] \ D) \cup {i} = 0 .. n - 1,
         held' = held \ Moved(v, i, p), UNCHANGED <<call, lost>>
  PROVE  StepOK
<1> DEFINE new == Slot(i, p)
           M == {x \in Moved(v, i, p) : x \in held}
           L == {x \in M : FALSE}
           f == flags
<1>1. /\ p \in Obj \cup {NULL} /\ new \in Slots /\ f \in [Obj -> SUBSET Flags]
      /\ \A o \in Obj \ {v} : f[o] = flags[o]
  BY StoreType DEF Inv, StateOK
<1>2. DOMAIN new = {i} /\ new[i] = p
  BY <1>1, SlotType
<1>3. Leave(M, L)
  BY DEF Leave
<1>4. \A x \in M \ L : /\ v \notin M /\ f[v] = flags[v]
                       /\ \E j \in DOMAIN new : new[j] = x /\ Owns(v, j)
  <2> SUFFICES ASSUME NEW x \in M PROVE v \notin M /\ x = p /\ Owns(v, i)
    BY <1>2
  <2>1. Owns(v, i) /\ x = p /\ p \in held
    BY DEF Moved
  <2>2. v # p
    BY <2>1, ObjAssumption DEF MayStore, Inv, StateOK
  <2> QED BY <2>1, <2>2 DEF Moved
<1>5. ReplaceF(v, D, new, n, f)
  BY DEF Replace
<1>6. f[v] = flags[v] /\ \A j \in DOMAIN new : j \in DOMAIN elem[v] => j \in D
  BY <1>2
<1>7. kind[v] = "vector" => (DOMAIN elem[v] \ D) \cup DOMAIN new = 0 .. n - 1
  BY <1>2
<1> HIDE DEF new, M, L, f
<1>8. HeapStep(v)
  BY <1>1, <1>3, <1>4, <1>5, <1>6, <1>7, ReplaceStep
<1> QED BY <1>8, IdleStep

\* Slots of v are emptied; M is dropped and lost.
LEMMA EmptyStep ==
  ASSUME Inv, Packed, NEW v \in held, NEW D \in SUBSET Idx, NEW n \in 0 .. MaxCnt,
         NEW f \in [Obj -> SUBSET Flags], \A o \in Obj \ {v} : f[o] = flags[o],
         f[v] = flags[v] \/ DOMAIN elem[v] \subseteq D,
         kind[v] = "vector" => DOMAIN elem[v] \ D = 0 .. n - 1,
         NEW M, Leave(M, M), ReplaceF(v, D, NoSlots, n, f)
  PROVE  HeapStep(v) /\ Becomes(v, D, NoSlots, n, f)
<1>1. \A x \in M \ M : FALSE
  OBVIOUS
<1>2. NoSlots \in Slots /\ DOMAIN NoSlots = {}
  BY NoSlotsType
<1>3. /\ \A i \in DOMAIN NoSlots : i \in DOMAIN elem[v] => i \in D
      /\ kind[v] = "vector" => (DOMAIN elem[v] \ D) \cup DOMAIN NoSlots = 0 .. n - 1
  BY <1>2
<1> QED BY <1>1, <1>2, <1>3, ReplaceStep

\* Slots of a container that the application holds are emptied.
LEMMA RemoveStep ==
  ASSUME Inv, Packed, Idle, NEW v \in held, NEW D \in SUBSET Idx,
         NEW n \in 0 .. MaxCnt, NEW f \in [Obj -> SUBSET Flags],
         \A o \in Obj \ {v} : f[o] = flags[o],
         f[v] = flags[v] \/ DOMAIN elem[v] \subseteq D,
         kind[v] = "vector" => DOMAIN elem[v] \ D = 0 .. n - 1,
         ReplaceF(v, D, NoSlots, n, f), UNCHANGED <<held, call, lost>>
  PROVE  StepOK
<1> DEFINE M == {}
<1>1. Leave(M, M)
  BY DEF Leave
<1> HIDE DEF M
<1>2. HeapStep(v)
  BY <1>1, EmptyStep
<1> QED BY <1>2, IdleStep

LEMMA VectorAddStep ==
  ASSUME Inv, Packed, NEW v \in Obj, NEW p, coVectorAdd(v, p) PROVE StepOK
<1> DEFINE c == cnt[v]
<1>1. c \in Idx /\ c + 1 \in 0 .. MaxCnt /\ c \in Nat
  BY CntType, IdxNat DEF coVectorAdd
<1>2. DOMAIN elem[v] = 0 .. c - 1
  BY DEF coVectorAdd, Mutable, Packed
<1>3. c \notin DOMAIN elem[v] /\ (DOMAIN elem[v] \ {}) \cup {c} = 0 .. c + 1 - 1
  BY <1>1, <1>2
<1>4. /\ Idle /\ v \in held /\ MayStore(v, c, p) /\ Replace(v, {}, Slot(c, p), c + 1)
      /\ held' = held \ Moved(v, c, p) /\ UNCHANGED <<call, lost>>
  BY DEF coVectorAdd, Mutable
<1>5. {} \in SUBSET Idx
  OBVIOUS
<1> HIDE DEF c
<1> QED BY <1>1, <1>3, <1>4, <1>5, StoreStep

LEMMA VectorSetStep ==
  ASSUME Inv, Packed, NEW v \in Obj, NEW p, NEW i \in Idx, coVectorSet(v, i, p)
  PROVE  StepOK
<1> DEFINE c == cnt[v]
<1>1. c \in 0 .. MaxCnt /\ c \in Nat /\ i \in Nat /\ i < c
  BY CntType, IdxNat DEF coVectorSet
<1>2. DOMAIN elem[v] = 0 .. c - 1
  BY DEF coVectorSet, Mutable, Packed
<1>3. (DOMAIN elem[v] \ {i}) \cup {i} = 0 .. c - 1 /\ i \in {i}
  BY <1>1, <1>2
<1>4. /\ Idle /\ v \in held /\ MayStore(v, i, p) /\ Replace(v, {i}, Slot(i, p), c)
      /\ held' = held \ Moved(v, i, p) /\ UNCHANGED <<call, lost>>
  BY DEF coVectorSet, Mutable
<1> HIDE DEF c
<1> QED BY <1>1, <1>3, <1>4, StoreStep

LEMMA MapAddStep ==
  ASSUME Inv, Packed, NEW m \in Obj, NEW p, NEW k \in Key, coMapAdd(m, k, p)
  PROVE  StepOK
<1>1. 0 \in 0 .. MaxCnt /\ k \in Idx /\ kind[m] # "vector"
  BY BoundAssumption, IdxNat DEF coMapAdd, Mutable
<1> QED BY <1>1, StoreStep DEF coMapAdd, Mutable

LEMMA VectorEraseLastStep ==
  ASSUME Inv, Packed, NEW v \in Obj, coVectorEraseLast(v) PROVE StepOK
<1> DEFINE i == cnt[v] - 1
           f == IF "CO_FREE_VALS" \notin flags[v] /\ i = 0
                  THEN [flags EXCEPT ![v] = @ \ {"CO_FREE_FIRST"}] ELSE flags
<1>1. i \in 0 .. MaxCnt /\ {i} \in SUBSET Idx /\ i \in Nat
  BY CntType, IdxNat DEF coVectorEraseLast
<1>2. f \in [Obj -> SUBSET Flags] /\ \A o \in Obj \ {v} : f[o] = flags[o]
  BY DEF Inv, StateOK
<1>3. /\ ReplaceF(v, {i}, NoSlots, i, f) /\ Idle /\ v \in held
      /\ UNCHANGED <<held, call, lost>>
  BY DEF coVectorEraseLast, Mutable
<1>4. DOMAIN elem[v] = 0 .. i
  BY DEF coVectorEraseLast, Mutable, Packed
<1>5. DOMAIN elem[v] \ {i} = 0 .. i - 1
  BY <1>1, <1>4
<1>6. f[v] = flags[v] \/ DOMAIN elem[v] \subseteq {i}
  BY <1>4
<1> HIDE DEF i, f
<1> QED BY <1>1, <1>2, <1>3, <1>5, <1>6, RemoveStep

\* coVectorClear, coMapErase and coMapClear.
LEMMA ClearStep ==
  ASSUME Inv, Packed, Idle, NEW v \in held, NEW D \in SUBSET Idx,
         kind[v] = "vector" => D = Idx,
         Replace(v, D, NoSlots, 0), UNCHANGED <<held, call, ret, lost, halted>>
  PROVE  StepOK
<1> DEFINE f == flags
<1>1. /\ 0 \in 0 .. MaxCnt /\ f \in [Obj -> SUBSET Flags]
      /\ f[v] = flags[v] /\ \A o \in Obj \ {v} : f[o] = flags[o]
  BY BoundAssumption DEF Inv, StateOK
<1>2. ReplaceF(v, D, NoSlots, 0, f)
  BY DEF Replace
<1>3. kind[v] = "vector" => DOMAIN elem[v] \ D = 0 .. 0 - 1
  BY SlotsOut DEF Inv, StateOK
<1> HIDE DEF f
<1> QED BY <1>1, <1>2, <1>3, RemoveStep

\* coNewStr, coNewVector, coNewMap and the others: one object, held by the
\* application.
LEMMA NewStep ==
  ASSUME Inv, Packed, Idle, NEW o \in Obj, NEW k \in Kinds \ {"free"},
         NEW f \in SUBSET Flags, Alloc(o, k, f), held' = held \cup {o},
         UNCHANGED <<call, ret, lost, halted>>
  PROVE  StepOK
<1>1. HeapStep(NULL)
  BY AllocStep
<1> QED BY <1>1, IdleStep

LEMMA AppDeleteStep == ASSUME Inv, Packed, NEW o \in Obj, coDelete(o) PROVE StepOK
<1>1. /\ Idle /\ o \in held /\ Free(Tree({o}), elem, cnt, flags)
      /\ {} \in SUBSET (held \ {o}) /\ held' = held \ ({o} \cup {})
      /\ lost' = lost \cup {} /\ UNCHANGED call
  BY DEF coDelete
<1>2. HeapStep(o)
  BY <1>1, DeleteStep
<1> QED BY <1>1, <1>2, IdleStep

-----------------------------------------------------------------------------
(* The steps of the library *)

\* All frames stay.
LEMMA AllFramesKept ==
  ASSUME Inv, FramesBuild, HeapStep(NULL), NEW n \in 1 .. Len(call), NEW g, g = call[n]
  PROVE  BuildsNext(g) /\ (g.dst # NULL => Same(g.dst))
<1>1. call[n].dst # NULL => Same(call[n].dst)
  BY ObjAssumption DEF Inv, FramesOK, StateOK, HeapStep
<1>2. Builds(g)
  BY DEF FramesBuild
<1> QED BY <1>1, <1>2, FrameKept

\* A step of a running function that changes no slot of what is held.
LEMMA SameCallStep ==
  ASSUME Inv, Shape, HeapStep(NULL), UNCHANGED call
  PROVE  StepOK
<1>1. \A n \in 1 .. Len(call) : BuildsNext(call[n])
  BY AllFramesKept DEF Shape
<1>2. FramesBuild'
  BY <1>1 DEF FramesBuild, Builds, BuildsNext
<1>3. BottomKept
  <2>1. ASSUME call # <<>> PROVE call[1].dst # NULL => Same(call[1].dst)
    <3>1. 1 \in 1 .. Len(call)
      BY <2>1 DEF Inv, StateOK
    <3> QED BY <3>1, AllFramesKept DEF Shape
  <2> QED BY <2>1, ObjAssumption DEF BottomKept, Same
<1> QED BY <1>2, <1>3 DEF StepOK, Shape, HeapStep

\* A frame is pushed.
LEMMA PushStep ==
  ASSUME Inv, Shape, HeapStep(NULL), NEW op \in Ops, NEW src \in Obj, NEW dst \in Dst,
         NEW old \in 0 .. MaxCnt, NEW root \in Idx, call' = Push(op, src, dst, old, root),
         NEW g, g = [op |-> op, src |-> src, dst |-> dst, todo |-> DOMAIN elem[src],
                     old |-> old, root |-> root],
         BuildsNext(g)
  PROVE  StepOK
<1>1. call \in Seq(Frame) /\ Len(call) \in Nat
  BY DEF Inv, StateOK
<1>2. g \in Frame
  <2>1. DOMAIN elem[src] \subseteq Idx
    BY SlotsOut DEF Inv, StateOK
  <2> QED BY <2>1 DEF Frame, Ops, Dst
<1>3. call' = Append(call, g)
  BY DEF Push
<1>4. /\ Len(call') = Len(call) + 1 /\ call' # <<>>
      /\ \A n \in 1 .. Len(call) : call'[n] = call[n]
      /\ call'[Len(call) + 1] = g
  BY <1>1, <1>2, <1>3
<1>5. \A n \in 1 .. Len(call) : BuildsNext(call'[n])
  BY <1>4, AllFramesKept DEF Shape
<1>6. \A n \in 1 .. Len(call') : BuildsNext(call'[n])
  BY <1>1, <1>4, <1>5
<1>7. FramesBuild'
  BY <1>6 DEF FramesBuild, Builds, BuildsNext
<1>8. BottomKept
  <2>1. ASSUME call # <<>> PROVE call[1].dst # NULL => Same(call[1].dst)
    <3>1. 1 \in 1 .. Len(call)
      BY <1>1, <2>1
    <3> QED BY <3>1, AllFramesKept DEF Shape
  <2> QED BY <1>4, <2>1, ObjAssumption DEF BottomKept, Same
<1> QED BY <1>7, <1>8 DEF StepOK, Shape, HeapStep

\* A container, or a NULL, for a new frame.
LEMMA EnterStep ==
  ASSUME Inv, Shape, NEW op \in Ops \ {"coVectorAppendVector"}, NEW src \in Obj,
         NEW k, k = (IF op = "coMapClone" THEN "map" ELSE "vector"),
         NEW f \in SUBSET Flags, "CO_FREE_VALS" \in f, Enter(op, src, k, f)
  PROVE  StepOK
<1>1. k \in Kinds \ {"free"}
  BY DEF Kinds
<1>2. PICK root \in Roots(src) :
        \/ \E o \in Obj : /\ Alloc(o, k, f)
                          /\ held' = held \cup {o}
                          /\ call' = Push(op, src, o, 0, root)
        \/ /\ UNCHANGED <<heap, held>>
           /\ call' = Push(op, src, NULL, 0, root)
  BY DEF Enter
<1>3. /\ root \in Idx /\ 0 \in 0 .. MaxCnt /\ lost' = lost
      /\ op \in Ops /\ op # "coVectorAppendVector"
  <2>1. elem[src] \in Slots
    BY DEF Inv, StateOK
  <2> QED BY <1>2, <2>1, SlotsOut, IdxNat, BoundAssumption DEF Roots, Enter
<1> DEFINE G(dst) == [op |-> op, src |-> src, dst |-> dst, todo |-> DOMAIN elem[src],
                      old |-> 0, root |-> root]
<1>4. CASE \E o \in Obj : /\ Alloc(o, k, f)
                          /\ held' = held \cup {o}
                          /\ call' = Push(op, src, o, 0, root)
  <2>1. PICK o \in Obj : /\ Alloc(o, k, f)
                         /\ held' = held \cup {o}
                         /\ call' = Push(op, src, o, 0, root)
    BY <1>4
  <2>2. HeapStep(NULL) /\ kind'[o] = k /\ flags'[o] = f /\ elem'[o] = NoSlots
    BY <1>1, <1>3, <2>1, AllocStep DEF Shape
  <2>3. /\ G(o).dst = o /\ G(o).op = op
        /\ G(o) = [op |-> op, src |-> src, dst |-> o, todo |-> DOMAIN elem[src],
                   old |-> 0, root |-> root]
    OBVIOUS
  <2> HIDE DEF G
  <2>4. BuildsNext(G(o))
    BY <1>3, <2>2, <2>3, NoSlotsType DEF BuildsNext
  <2>5. o \in Dst
    BY DEF Dst
  <2> QED BY <1>3, <2>1, <2>2, <2>3, <2>4, <2>5, PushStep
<1>5. CASE UNCHANGED <<heap, held>> /\ call' = Push(op, src, NULL, 0, root)
  <2>1. HeapStep(NULL)
    <3>1. Leave({}, {})
      BY <1>3, <1>5 DEF Leave
    <3> QED BY <1>5, <3>1, StillStep DEF Shape
  <2>2. /\ G(NULL).dst = NULL
        /\ G(NULL) = [op |-> op, src |-> src, dst |-> NULL, todo |-> DOMAIN elem[src],
                      old |-> 0, root |-> root]
    OBVIOUS
  <2> HIDE DEF G
  <2>3. BuildsNext(G(NULL)) /\ NULL \in Dst
    BY <2>2 DEF BuildsNext, Dst
  <2> QED BY <1>3, <1>5, <2>1, <2>2, <2>3, PushStep
<1> QED BY <1>2, <1>4, <1>5

LEMMA CloneLeafStep ==
  ASSUME Inv, Shape, NEW e \in Obj, kind[e] \in Leaves, CloneLeaf(e)
  PROVE  StepOK
<1>1. kind[e] \in Kinds \ {"free"} /\ call' = call
  BY DEF Leaves, Kinds, CloneLeaf
<1>2. HeapStep(NULL)
  <2>1. CASE \E o \in Obj : /\ Alloc(o, kind[e], {})
                            /\ \/ held' = held \cup {o} /\ lost' = lost
                               \/ held' = held /\ lost' = lost \cup {o}
    BY <1>1, <2>1, AllocStep DEF Shape
  <2>2. CASE UNCHANGED <<heap, held, lost>>
    <3>1. Leave({}, {})
      BY <2>2 DEF Leave
    <3> QED BY <2>2, <3>1, StillStep DEF Shape
  <2> QED BY <2>1, <2>2 DEF CloneLeaf
<1> QED BY <1>1, <1>2, SameCallStep

LEMMA CloneStep == ASSUME Inv, Shape, NEW e \in Obj, coClone(e) PROVE StepOK
<1>1. CASE kind[e] \in Leaves /\ CloneLeaf(e)
  BY <1>1, CloneLeafStep
<1>2. CASE Enter("coVectorMap", e, "vector", {"CO_FREE_VALS"})
  <2>1. {"CO_FREE_VALS"} \in SUBSET Flags
        /\ "coVectorMap" \in Ops \ {"coVectorAppendVector"}
    BY DEF Flags, Ops
  <2> QED BY <1>2, <2>1, EnterStep
<1>3. CASE Enter("coMapClone", e, "map", flags[e] \cup {"CO_FREE_VALS"})
  <2>1. flags[e] \cup {"CO_FREE_VALS"} \in SUBSET Flags
        /\ "coMapClone" \in Ops \ {"coVectorAppendVector"}
    BY DEF Flags, Ops, Inv, StateOK
  <2> QED BY <1>3, <2>1, EnterStep
<1> QED BY <1>1, <1>2, <1>3 DEF coClone

LEMMA AppendStartStep ==
  ASSUME Inv, Shape, NEW v \in Obj, NEW src \in Obj, coVectorAppendVector(v, src)
  PROVE  StepOK
<1> USE DEF coVectorAppendVector
<1>1. /\ "coVectorAppendVector" \in Ops /\ 0 \in Idx /\ cnt[v] \in 0 .. MaxCnt
      /\ v \in Dst /\ UNCHANGED <<heap, held, lost>> /\ kind[v] = "vector"
      /\ "CO_FREE_VALS" \in flags[v] /\ cnt[v] <= cnt[v]
      /\ call' = Push("coVectorAppendVector", src, v, cnt[v], 0)
  BY IdxNat, BoundAssumption, CntType DEF Ops, Mutable, Dst
<1>2. HeapStep(NULL)
  <2>1. Leave({}, {})
    BY <1>1 DEF Leave
  <2> QED BY <1>1, <2>1, StillStep DEF Shape
<1> DEFINE g == [op |-> "coVectorAppendVector", src |-> src, dst |-> v,
                 todo |-> DOMAIN elem[src], old |-> cnt[v], root |-> 0]
<1>3. g.op = "coVectorAppendVector" /\ g.dst = v /\ g.old = cnt[v]
  OBVIOUS
<1>4. g = [op |-> "coVectorAppendVector", src |-> src, dst |-> v,
           todo |-> DOMAIN elem[src], old |-> cnt[v], root |-> 0]
  OBVIOUS
<1> HIDE DEF g
<1>5. BuildsNext(g)
  BY <1>1, <1>3 DEF BuildsNext, heap
<1> QED BY <1>1, <1>2, <1>4, <1>5, PushStep

LEMMA CloneElemStep == ASSUME Inv, Shape, CloneElem PROVE StepOK
<1>1. PICK e \in Obj \cup {NULL} :
          \/ e # NULL /\ coClone(e)
          \/ e = NULL /\ UNCHANGED <<heap, held, call, lost>>
  BY DEF CloneElem
<1>2. CASE e # NULL /\ coClone(e)
  BY <1>1, <1>2, CloneStep
<1>3. CASE UNCHANGED <<heap, held, call, lost>>
  <2>1. Leave({}, {})
    BY <1>3 DEF Leave
  <2>2. HeapStep(NULL)
    BY <1>3, <2>1, StillStep DEF Shape
  <2> QED BY <1>3, <2>2, SameCallStep
<1> QED BY <1>1, <1>2, <1>3

\* What the frame on top builds.
LEMMA TopBuilds ==
  ASSUME Inv, FramesBuild, call # <<>>, Top.dst # NULL
  PROVE  /\ Top.dst \in held /\ Top.dst \in Obj
         /\ kind[Top.dst] = IF Top.op = "coMapClone" THEN "map" ELSE "vector"
         /\ "CO_FREE_VALS" \in flags[Top.dst]
         /\ Top.op = "coMapClone" => DOMAIN elem[Top.dst] \cap Top.todo = {}
         /\ Top.op = "coVectorAppendVector" => Top.old <= cnt[Top.dst]
  BY TopHeld, TopType DEF Inv, FramesBuild, Builds, Top

\* The frame on top after slots were handled.
LEMMA HandledTop ==
  ASSUME StateOK, call # <<>>, NEW D, NEW g, g = [Top EXCEPT !.todo = @ \ D]
  PROVE  g.dst = Top.dst /\ g.op = Top.op /\ g.old = Top.old /\ g.todo = Top.todo \ D
<1>1. Top \in Frame
  BY TopType
<1> QED BY <1>1 DEF Frame

\* The clone leaves the local variable and goes into slot i of the new container.
LEMMA StoreTopStep ==
  ASSUME Inv, Shape, call # <<>>, Top.dst # NULL, ret # Pending, NEW i \in Idx,
         NEW n \in 0 .. MaxCnt, Store(i, ret, n), NEW D, call' = Handled(D),
         NEW v, v = Top.dst, i \notin DOMAIN elem[v],
         kind[v] = "vector" => DOMAIN elem[v] \cup {i} = 0 .. n - 1 /\ cnt[v] <= n,
         Top.op = "coMapClone" => i \in D
  PROVE  StepOK
<1> DEFINE new == Slot(i, ret)
           M == Dropped
           L == {x \in M : FALSE}
           E == {x \in Idx : FALSE}
           f == flags
<1>1. /\ v \in held /\ v \in Obj /\ M \in SUBSET (held \ {v})
      /\ kind[v] = IF Top.op = "coMapClone" THEN "map" ELSE "vector"
      /\ "CO_FREE_VALS" \in flags[v]
      /\ Top.op = "coMapClone" => DOMAIN elem[v] \cap Top.todo = {}
      /\ Top.op = "coVectorAppendVector" => Top.old <= cnt[v]
  BY TopHeld, TopBuilds DEF Shape
<1>2. ret \in Obj \cup {NULL} /\ Top.old \in Nat /\ cnt[v] \in Nat
  BY <1>1, TopType, CntType DEF Inv, StateOK
<1>3. new \in Slots /\ DOMAIN new = {i} /\ new[i] = ret
  BY <1>2, SlotType
<1>4. \A x \in M \ L : /\ v \notin M /\ f[v] = flags[v]
                       /\ \E j \in DOMAIN new : new[j] = x /\ Owns(v, j)
  BY <1>1, <1>3 DEF Dropped, Owns
<1>5. ReplaceF(v, E, new, n, f) /\ Leave(M, L)
  <2>1. NULL \notin held /\ E = {}
    BY ObjAssumption DEF Inv, StateOK
  <2> QED BY <1>1, <2>1 DEF Store, Replace, Dropped, Leave
<1>6. /\ f \in [Obj -> SUBSET Flags] /\ \A o \in Obj \ {v} : f[o] = flags[o]
      /\ f[v] = flags[v] /\ E \in SUBSET Idx
  BY DEF Inv, StateOK
<1>7. /\ \A j \in DOMAIN new : j \in DOMAIN elem[v] => j \in E
      /\ DOMAIN elem[v] \ E = DOMAIN elem[v]
      /\ kind[v] = "vector" => (DOMAIN elem[v] \ E) \cup DOMAIN new = 0 .. n - 1
  BY <1>3
<1> HIDE DEF new, M, L, E, f
<1>8. /\ HeapStep(v) /\ kind'[v] = kind[v] /\ flags'[v] = f[v] /\ cnt'[v] = n
      /\ elem'[v] = NewSlots(v, E, new)
  <2>1. HeapStep(v) /\ Becomes(v, E, new, n, f)
    BY <1>1, <1>3, <1>4, <1>5, <1>6, <1>7, ReplaceStep DEF Shape
  <2> QED BY <2>1 DEF Becomes
<1>9. /\ DOMAIN elem'[v] = DOMAIN elem[v] \cup {i}
      /\ \A j \in DOMAIN elem[v] : elem'[v][j] = elem[v][j]
  BY <1>3, <1>7, <1>8 DEF NewSlots
<1> DEFINE g == [Top EXCEPT !.todo = @ \ D]
<1>10. /\ g.dst = Top.dst /\ g.op = Top.op /\ g.old = Top.old
       /\ g.todo = Top.todo \ D /\ g = [Top EXCEPT !.todo = @ \ D]
  BY HandledTop DEF Inv
<1> HIDE DEF g
<1>11. BuildsNext(g)
  <2>1. Top.op = "coMapClone" => DOMAIN elem'[v] \cap g.todo = {}
    BY <1>1, <1>9, <1>10
  <2>2. Top.op = "coVectorAppendVector" => Top.old <= n
    BY <1>1, <1>2
  <2> QED BY <1>1, <1>6, <1>8, <1>10, <2>1, <2>2 DEF BuildsNext
<1>12. Top.op = "coVectorAppendVector" =>
         \A j \in 0 .. Top.old - 1 : elem'[v][j] = elem[v][j]
  <2> SUFFICES ASSUME Top.op = "coVectorAppendVector", NEW j \in 0 .. Top.old - 1
               PROVE  elem'[v][j] = elem[v][j]
    OBVIOUS
  <2>1. DOMAIN elem[v] = 0 .. cnt[v] - 1
    BY <1>1 DEF Shape, Packed
  <2>2. j \in DOMAIN elem[v]
    BY <1>1, <1>2, <2>1
  <2> QED BY <1>9, <2>2
<1> QED BY <1>8, <1>10, <1>11, <1>12, TopStep

\* Slots of the new container are emptied; M is dropped and lost.
LEMMA UndoStep ==
  ASSUME Inv, Shape, call # <<>>, Top.dst # NULL, NEW D \in SUBSET Idx,
         NEW n \in 0 .. MaxCnt, Replace(Top.dst, D, NoSlots, n), NEW M \in SUBSET held,
         held' = held \ M, lost' = lost \cup M, call' = Below, NEW v, v = Top.dst,
         kind[v] = "vector" => DOMAIN elem[v] \ D = 0 .. n - 1,
         Top.op = "coVectorAppendVector" =>
           n = Top.old /\ \A j \in 0 .. Top.old - 1 : j \in DOMAIN elem[v] \ D
  PROVE  StepOK
<1> DEFINE f == flags
<1>1. v \in held /\ v \in Obj
  BY TopHeld
<1>2. /\ ReplaceF(v, D, NoSlots, n, f) /\ f \in [Obj -> SUBSET Flags]
      /\ f[v] = flags[v] /\ \A o \in Obj \ {v} : f[o] = flags[o]
      /\ Leave(M, M) /\ Packed
  BY DEF Replace, Inv, StateOK, Leave, Shape
<1> HIDE DEF f
<1>5. HeapStep(v) /\ Becomes(v, D, NoSlots, n, f)
  BY <1>1, <1>2, EmptyStep
<1>6. Top.op = "coVectorAppendVector" =>
        /\ \A j \in 0 .. Top.old - 1 : elem'[v][j] = elem[v][j]
        /\ cnt'[v] = Top.old
  BY <1>5, NoSlotsType DEF NewSlots, Becomes
<1> QED BY <1>5, <1>6, ReturnStep

\* The new container is deleted; L is lost.
LEMMA DropStep ==
  ASSUME Inv, Shape, call # <<>>, Top.dst # NULL, Free(Tree({Top.dst}), elem, cnt, flags),
         NEW L \in SUBSET (held \ {Top.dst}), held' = held \ ({Top.dst} \cup L),
         lost' = lost \cup L, call' = Below, Top.op # "coVectorAppendVector"
  PROVE  StepOK
<1>1. Top.dst \in held
  BY TopHeld
<1>2. HeapStep(Top.dst)
  BY <1>1, DeleteStep DEF Shape
<1> QED BY <1>2, ReturnStep

\* The heap does not change, the frame on top goes on.
LEMMA SkipStep ==
  ASSUME Inv, Shape, call # <<>>, UNCHANGED heap, NEW L, Leave(L, L),
         NEW S, call' = Handled(S)
  PROVE  StepOK
<1>1. HeapStep(NULL)
  BY StillStep DEF Shape
<1> DEFINE g == [Top EXCEPT !.todo = @ \ S]
<1>2. /\ g.dst = Top.dst /\ g.op = Top.op /\ g.old = Top.old
      /\ g.todo = Top.todo \ S /\ g = [Top EXCEPT !.todo = @ \ S]
  BY HandledTop DEF Inv
<1> HIDE DEF g
<1>3. BuildsNext(g)
  BY <1>2, TopBuilds DEF BuildsNext, heap, Shape
<1>4. \A j \in 0 .. Top.old - 1 : elem'[Top.dst][j] = elem[Top.dst][j]
  BY DEF heap
<1> QED BY <1>1, <1>2, <1>3, <1>4, TopStep

\* The heap does not change, the function on top returns.
LEMMA LeaveStep ==
  ASSUME Inv, Shape, call # <<>>, UNCHANGED <<heap, held, lost>>, call' = Below,
         Top.op = "coVectorAppendVector" => Top.todo = {}
  PROVE  StepOK
<1>1. Leave({}, {})
  BY DEF Leave
<1>2. HeapStep(NULL)
  BY <1>1, StillStep DEF Shape
<1>3. \A j \in 0 .. Top.old - 1 : elem'[Top.dst][j] = elem[Top.dst][j]
  BY DEF heap
<1> QED BY <1>2, <1>3, ReturnStep

\* The three functions that add a clone to what they build, after coClone.
LEMMA VectorMapAddStep == ASSUME Inv, Shape, VectorMapAdd PROVE StepOK
<1> USE DEF VectorMapAdd
<1> DEFINE v == Top.dst
           c == cnt[v]
<1>1. call # <<>> /\ v \in Obj /\ Top.op = "coVectorMap" /\ kind[v] = "vector"
  BY TopFacts, TopBuilds DEF Running, Shape
<1>2. c \in Idx /\ c + 1 \in 0 .. MaxCnt /\ c \in Nat
  BY <1>1, CntType, IdxNat
<1>3. PICK k \in Top.todo : Store(c, ret, c + 1) /\ call' = Handled({k})
  OBVIOUS
<1>4. DOMAIN elem[v] = 0 .. c - 1
  BY <1>1 DEF Shape, Packed
<1>5. c \notin DOMAIN elem[v] /\ DOMAIN elem[v] \cup {c} = 0 .. c + 1 - 1 /\ c <= c + 1
  BY <1>2, <1>4
<1> DEFINE w == Top.dst
           n == c + 1
           D == {k}
<1>6. w = Top.dst /\ w = v /\ n = c + 1 /\ D = {k}
  OBVIOUS
<1> HIDE DEF w, n, c, D
<1> QED BY <1>1, <1>2, <1>3, <1>5, <1>6, StoreTopStep DEF c

LEMMA AppendAddStep == ASSUME Inv, Shape, AppendAdd PROVE StepOK
<1> USE DEF AppendAdd
<1> DEFINE v == Top.dst
           c == cnt[v]
<1>1. /\ call # <<>> /\ v \in Obj /\ v # NULL /\ kind[v] = "vector"
      /\ Top.op = "coVectorAppendVector"
  BY TopFacts, TopBuilds DEF Running, Shape
<1>2. c \in Idx /\ c + 1 \in 0 .. MaxCnt /\ c \in Nat
  BY <1>1, CntType, IdxNat
<1>3. PICK k \in Top.todo : Store(c, ret, c + 1) /\ call' = Handled({k})
  OBVIOUS
<1>4. DOMAIN elem[v] = 0 .. c - 1
  BY <1>1 DEF Shape, Packed
<1>5. c \notin DOMAIN elem[v] /\ DOMAIN elem[v] \cup {c} = 0 .. c + 1 - 1 /\ c <= c + 1
  BY <1>2, <1>4
<1> DEFINE w == Top.dst
           n == c + 1
           D == {k}
<1>6. w = Top.dst /\ w = v /\ n = c + 1 /\ D = {k}
  OBVIOUS
<1> HIDE DEF w, n, c, D
<1> QED BY <1>1, <1>2, <1>3, <1>5, <1>6, StoreTopStep DEF c

LEMMA MapCloneAddStep == ASSUME Inv, Shape, MapCloneAdd PROVE StepOK
<1> USE DEF MapCloneAdd
<1> DEFINE v == Top.dst
<1>1. /\ call # <<>> /\ v \in Obj /\ v # NULL /\ kind[v] # "vector"
      /\ Top.op = "coMapClone" /\ Top.todo \subseteq Idx /\ 0 \in 0 .. MaxCnt
      /\ DOMAIN elem[v] \cap Top.todo = {}
  BY TopFacts, TopBuilds, BoundAssumption DEF Running, Shape
<1>2. PICK k \in Top.todo : Store(k, ret, 0) /\ call' = Handled({k})
  OBVIOUS
<1> DEFINE w == Top.dst
           D == {k}
<1>3. w = Top.dst /\ w = v /\ k \in D /\ D = {k}
  OBVIOUS
<1> HIDE DEF w, D
<1> QED BY <1>1, <1>2, <1>3, StoreTopStep

\* The error paths, which delete what was built so far.
LEMMA VectorMapFailStep == ASSUME Inv, Shape, VectorMapFail PROVE StepOK
<1> USE DEF VectorMapFail
<1> DEFINE M == {Top.dst} \cup Dropped
           w == Top.dst
<1>1. call # <<>> /\ Top.dst \in held /\ Idx \in SUBSET Idx /\ 0 \in 0 .. MaxCnt
      /\ Top.op = "coVectorMap"
  BY TopHeld, BoundAssumption DEF Running
<1>2. M \in SUBSET held /\ held' = held \ M /\ lost' = lost \cup M
  BY <1>1, TopFacts
<1>3. DOMAIN elem[w] \ Idx = 0 .. 0 - 1
  BY <1>1, SlotsOut DEF Inv, StateOK
<1>4. w = Top.dst /\ call' = Below
  BY DEF Return
<1> HIDE DEF M, w
<1> QED BY <1>1, <1>2, <1>3, <1>4, UndoStep

LEMMA AppendRollbackStep == ASSUME Inv, Shape, AppendRollback PROVE StepOK
<1> USE DEF AppendRollback
<1> DEFINE D == {i \in Idx : Top.old <= i}
           w == Top.dst
           M == Dropped
           n == Top.old
<1>1. /\ call # <<>> /\ w # NULL /\ D \in SUBSET Idx /\ n \in 0 .. MaxCnt
      /\ w \in Obj /\ kind[w] = "vector" /\ n <= cnt[w]
  BY TopFacts, TopBuilds DEF Running, Shape
<1>2. M \in SUBSET held /\ held' = held \ M /\ lost' = lost \cup M /\ call' = Below
  BY <1>1, TopFacts DEF Return
<1>3. cnt[w] \in 0 .. MaxCnt /\ n \in Nat /\ Idx \subseteq Nat /\ 0 .. MaxCnt \subseteq Idx
      /\ DOMAIN elem[w] = 0 .. cnt[w] - 1 /\ cnt[w] \in Nat /\ MaxCnt \in Nat
  BY <1>1, CntType, IdxNat, BoundAssumption DEF Shape, Packed
<1>4. \A j \in 0 .. cnt[w] - 1 : j \in Idx
  BY <1>3
<1>5. DOMAIN elem[w] \ D = 0 .. n - 1
  BY <1>1, <1>3, <1>4
<1>6. Replace(w, D, NoSlots, n) /\ w = Top.dst /\ n = Top.old
  OBVIOUS
<1> HIDE DEF D, w, M, n
<1> QED BY <1>1, <1>2, <1>5, <1>6, UndoStep

LEMMA MapCloneFailStep == ASSUME Inv, Shape, MapCloneFail PROVE StepOK
<1> USE DEF MapCloneFail
<1>1. call # <<>> /\ Top.op = "coMapClone" /\ Dropped \in SUBSET (held \ {Top.dst})
  BY TopHeld DEF Running
<1>2. held' = held \ ({Top.dst} \cup Dropped) /\ call' = Below
  BY DEF Return
<1> QED BY <1>1, <1>2, DropStep

LEMMA MapCloneSkipStep == ASSUME Inv, Shape, MapCloneSkip PROVE StepOK
<1> USE DEF MapCloneSkip
<1>1. call # <<>> /\ UNCHANGED heap
  BY DEF Running
<1>2. PICK S : call' = Handled(S)
  OBVIOUS
<1>3. Leave(Dropped, Dropped)
  BY <1>1, TopFacts DEF Leave
<1> QED BY <1>1, <1>2, <1>3, SkipStep

LEMMA ByMapSkipStep == ASSUME Inv, Shape, ByMapSkip PROVE StepOK
<1> USE DEF ByMapSkip
<1>1. call # <<>> /\ UNCHANGED <<heap, held, lost>>
  BY DEF Running
<1>2. PICK S : call' = Handled(S)
  OBVIOUS
<1>3. Leave({}, {})
  BY <1>1 DEF Leave
<1> QED BY <1>1, <1>2, <1>3, SkipStep

LEMMA ByMapFailStep == ASSUME Inv, Shape, ByMapFail PROVE StepOK
<1> USE DEF ByMapFail
<1>1. call # <<>> /\ call' = Below /\ UNCHANGED lost /\ Top.op = "coNewVectorByMap"
  BY DEF Running, Return
<1>2. CASE Top.dst # NULL
  <2>1. {} \in SUBSET (held \ {Top.dst}) /\ held' = held \ ({Top.dst} \cup {})
        /\ lost' = lost \cup {}
    BY <1>1, <1>2
  <2> QED BY <1>1, <1>2, <2>1, DropStep
<1>3. CASE Top.dst = NULL
  BY <1>1, <1>3, LeaveStep
<1> QED BY <1>2, <1>3

LEMMA FinishStep == ASSUME Inv, Shape, Finish \/ AppendFinish PROVE StepOK
<1>1. /\ call # <<>> /\ call' = Below /\ UNCHANGED <<heap, held, lost>>
      /\ Top.todo = {}
  BY DEF Finish, AppendFinish, Running, Return
<1> QED BY <1>1, LeaveStep

\* A step that only returns.
LEMMA StillCallStep ==
  ASSUME Inv, Shape, UNCHANGED <<heap, held, lost, call>> PROVE StepOK
<1>1. Leave({}, {})
  BY DEF Leave
<1>2. HeapStep(NULL)
  BY <1>1, StillStep DEF Shape
<1> QED BY <1>2, SameCallStep

LEMMA ByMapAddStep == ASSUME Inv, Shape, ByMapAdd PROVE StepOK
<1> USE DEF ByMapAdd
<1>0. PICK d, c : d \in Obj \cup {NULL} /\ d = Top.dst /\ c = cnt[d]
  BY TopFacts DEF Running
<1>1. /\ call # <<>> /\ d \in held /\ d \in Obj /\ Top.op = "coNewVectorByMap"
      /\ kind[d] = "vector" /\ "CO_FREE_VALS" \in flags[d] /\ c < MaxCnt
  BY <1>0, TopHeld, TopBuilds DEF Running, Shape
<1>2. PICK k \in Top.todo, p \in Obj, s, value \in Obj \cup {NULL} :
        AddPair(k, p, s, value)
  OBVIOUS
<1>3. PairGoesTo(d, c, p, s, value) /\ call' = Handled({k})
  <2>1. d # p
    BY <1>1, <1>2 DEF AddPair, Inv, OneOwner, Live
  <2> QED BY <1>0, <1>1, <1>2, <2>1 DEF AddPair, PairGoesTo, Inv, StateOK
<1>4. UNCHANGED <<held, lost>>
  OBVIOUS
<1> HIDE DEF ByMapAdd
<1>5. HeapStep(d) /\ kind'[d] = kind[d] /\ flags'[d] = flags[d]
  BY <1>1, <1>3, PairGoes DEF Shape
<1> DEFINE g == [Top EXCEPT !.todo = @ \ {k}]
<1>6. /\ g.dst = Top.dst /\ g.op = Top.op /\ g.old = Top.old
      /\ g = [Top EXCEPT !.todo = @ \ {k}]
  BY <1>1, HandledTop DEF Inv
<1> HIDE DEF g
<1>7. BuildsNext(g)
  BY <1>0, <1>1, <1>4, <1>5, <1>6 DEF BuildsNext
<1> QED BY <1>0, <1>1, <1>3, <1>4, <1>5, <1>6, <1>7, TopStep

-----------------------------------------------------------------------------
(* Every step *)

LEMMA AppStepOK == ASSUME Inv, Shape, AppStep PROVE StepOK
<1> USE UseAssumption DEF Flags, Shape
<1>1. CASE \E o \in Obj, k \in LeafKinds : coNewLeaf(o, k)
  BY <1>1, NewStep DEF coNewLeaf, Leaves, Kinds
<1>2. CASE \E o \in Obj, f \in VectorFlags : coNewVector(o, f)
  BY <1>2, NewStep DEF coNewVector, Kinds
<1>3. CASE \E o \in Obj, f \in MapFlags : coNewMap(o, f)
  BY <1>3, NewStep DEF coNewMap, Kinds
<1>4. CASE \E o \in Obj : coDelete(o)
  BY <1>4, AppDeleteStep
<1>5. CASE \E v \in Obj, p \in Obj \cup {NULL} : coVectorAdd(v, p)
  BY <1>5, VectorAddStep
<1>6. CASE \E v \in Obj, p \in Obj \cup {NULL}, i \in Idx : coVectorSet(v, i, p)
  BY <1>6, VectorSetStep
<1>7. CASE \E v \in Obj : coVectorEraseLast(v)
  BY <1>7, VectorEraseLastStep
<1>8. CASE \E v \in Obj : coVectorClear(v)
  BY <1>8, ClearStep DEF coVectorClear, Mutable
<1>9. CASE \E m \in Obj, p \in Obj \cup {NULL}, k \in Key : coMapAdd(m, k, p)
  BY <1>9, MapAddStep
<1>10. CASE \E m \in Obj, k \in Key : coMapErase(m, k)
  <2>1. PICK m \in Obj, k \in Key : coMapErase(m, k)
    BY <1>10
  <2>2. {k} \in SUBSET Idx
    BY IdxNat
  <2> QED BY <2>1, <2>2, ClearStep DEF coMapErase, Mutable
<1>11. CASE \E m \in Obj : coMapClear(m)
  BY <1>11, ClearStep DEF coMapClear, Mutable
<1>12. CASE \E e \in Obj : StartClone(e)
  BY <1>12, CloneStep DEF StartClone
<1>13. CASE \E v, src \in Obj : coVectorAppendVector(v, src)
  BY <1>13, AppendStartStep
<1>14. CASE \E m \in Obj : coNewVectorByMap(m)
  <2>1. "coNewVectorByMap" \in Ops \ {"coVectorAppendVector"}
        /\ {"CO_FREE_VALS"} \in SUBSET Flags
    BY DEF Ops
  <2> QED BY <1>14, <2>1, EnterStep DEF coNewVectorByMap
<1> QED BY <1>1, <1>2, <1>3, <1>4, <1>5, <1>6, <1>7, <1>8, <1>9, <1>10, <1>11,
           <1>12, <1>13, <1>14 DEF AppStep

LEMMA LibStepOK == ASSUME Inv, Shape, LibStep PROVE StepOK
<1>1. CASE CloneHalts \/ ByMapHalts \/ Received
  BY <1>1, StillCallStep DEF CloneHalts, ByMapHalts, Halt, Received
<1> QED BY <1>1, CloneElemStep, VectorMapAddStep, VectorMapFailStep,
           MapCloneAddStep, MapCloneSkipStep, MapCloneFailStep, AppendAddStep,
           AppendRollbackStep, ByMapAddStep, ByMapSkipStep, ByMapFailStep, FinishStep
           DEF LibStep

LEMMA NextStepOK == ASSUME Inv, Shape, Next PROVE StepOK
  BY AppStepOK, LibStepOK DEF Next

\* The invariant of these proofs.
AccountInv == Inv /\ Shape /\ Accounted

LEMMA InitAccount == ASSUME Init PROVE AccountInv
<1>1. Inv
  BY InitInv
<1>2. Shape
  BY DEF Init, Shape, Packed, FramesBuild
<1>3. Accounted
  BY DEF Init, Accounted, Live
<1> QED BY <1>1, <1>2, <1>3 DEF AccountInv

LEMMA NextAccount == ASSUME AccountInv, Next PROVE AccountInv' /\ StepOK
<1> USE DEF AccountInv
<1>1. Inv'
  BY AppInv, LibInv DEF Next
<1>2. StepOK
  BY NextStepOK
<1>3. Accounted'
  <2>1. PICK Fr, Nw \in SUBSET Obj : OwnStep(Fr, Nw)
    BY <1>2 DEF StepOK
  <2>2. StateOK /\ FreeIsBlank /\ held \cup lost \subseteq Obj
    BY DEF Inv, StateOK
  <2> QED BY <2>1, <2>2, OwnStepAccounted
<1> QED BY <1>1, <1>2, <1>3 DEF StepOK

LEMMA StutterAccount == ASSUME AccountInv, UNCHANGED vars PROVE AccountInv'
<1>1. Inv'
  BY StutterInv DEF AccountInv
<1>2. Shape' /\ Accounted'
  BY DEF AccountInv, Shape, Packed, FramesBuild, Builds, Accounted, Live, Tree, Closed,
         Owned, Owns, vars, heap
<1> QED BY <1>1, <1>2 DEF AccountInv

\* No behaviour of the library leaves the invariant: vectors are filled from the
\* first slot on, what a running coClone, coVectorAppendVector or
\* coNewVectorByMap builds owns its elements, and every object is accounted for.
THEOREM AccountInvariant == Spec => []AccountInv
<1>1. Init => AccountInv
  BY InitAccount
<1>2. AccountInv /\ [Next]_vars => AccountInv'
  BY NextAccount, StutterAccount
<1> QED BY <1>1, <1>2, PTL DEF Spec

\* No object leaks unseen: whatever the functions of co.h and their error paths
\* do, an object that exists is freed when the application deletes what it
\* holds, or hangs on an object that an error path dropped (the clone that
\* coVectorMap could not add, co.c:249-253; the value that coMapAdd did not
\* take from avl_co_map_clone_cb, co.c:1033-1037).
THEOREM EverythingAccounted == Spec => []Accounted
<1>1. AccountInv => Accounted
  BY DEF AccountInv
<1> QED BY <1>1, AccountInvariant, PTL

\* coVectorAppendVector (co.c:335-356) leaves the vector with all the clones or
\* with the elements it had before, which never change, whichever allocation
\* fails and whatever is cloned.
THEOREM AppendIsAllOrNothing == Spec => AppendAllOrNothing
<1>1. AccountInv /\ [Next]_vars => BottomKept \/ UNCHANGED vars
  BY NextAccount DEF StepOK
<1>2. AccountInv /\ [Next]_vars => [BottomKept]_vars
  BY <1>1
<1> QED BY <1>2, AccountInvariant, PTL DEF Spec, AppendAllOrNothing, BottomKept

-----------------------------------------------------------------------------
(* The ownership rules of co.h *)

\* An object that no local variable owns and that is not lost has one owner,
\* a container other than itself.
LEMMA HasOwner ==
  ASSUME AccountInv, NEW o \in Live, o \notin held \cup lost
  PROVE  \E c \in Live, i \in Idx : OwnedSlot(c, i) /\ elem[c][i] = o /\ c # o
<1> USE DEF AccountInv, Inv
<1> SUFFICES ASSUME \A c \in Live, i \in Idx : OwnedSlot(c, i) /\ c # o => elem[c][i] # o
             PROVE  FALSE
  OBVIOUS
<1> DEFINE T == Live \ {o}
<1>1. T \in SUBSET Obj /\ held \cup lost \subseteq T
  BY DEF OneOwner, Live
<1>2. \A q \in T, i \in Idx : OwnedSlot(q, i) => elem[q][i] \in T
  BY DEF OneOwner, OwnedSlot, Live
<1>3. Closed(T)
  BY <1>1, <1>2, ClosedBySlots
<1>4. o \in T
  BY <1>1, <1>3 DEF Accounted, Tree, Live
<1> QED BY <1>4

\* OwnerOf names it.
LEMMA OwnerIs ==
  ASSUME AccountInv, NEW o \in Obj
  PROVE  /\ o \in held => OwnerOf(o) = "local"
         /\ o \in lost => OwnerOf(o) = "lost"
         /\ o \notin Live => OwnerOf(o) = "nobody"
         /\ o \in Live \ (held \cup lost) =>
              /\ OwnerOf(o) \in Live /\ OwnerOf(o) # o
              /\ \E i \in Idx : OwnedSlot(OwnerOf(o), i) /\ elem[OwnerOf(o)][i] = o
         /\ \A c \in Live, i \in Idx :
              OwnedSlot(c, i) /\ elem[c][i] = o => OwnerOf(o) = c
<1> USE DEF AccountInv, Inv
<1>1. held \cup lost \subseteq Live /\ held \cap lost = {}
  BY DEF OneOwner
<1>2. o \notin Live <=> kind[o] = "free"
  BY DEF Live
<1>3. /\ o \in held => OwnerOf(o) = "local"
      /\ o \in lost => OwnerOf(o) = "lost"
      /\ o \notin Live => OwnerOf(o) = "nobody"
  BY <1>1, <1>2 DEF OwnerOf
<1>4. \A c \in Live : o \in Owned(c, Idx) <=>
                     \E i \in Idx : OwnedSlot(c, i) /\ elem[c][i] = o
  BY ObjAssumption DEF Owned, OwnedSlot
<1>5. ASSUME o \in Live \ (held \cup lost)
      PROVE  /\ OwnerOf(o) \in Live /\ OwnerOf(o) # o
             /\ \E i \in Idx : OwnedSlot(OwnerOf(o), i) /\ elem[OwnerOf(o)][i] = o
             /\ \A c \in Live, i \in Idx :
                  OwnedSlot(c, i) /\ elem[c][i] = o => OwnerOf(o) = c
  <2>1. OwnerOf(o) = CHOOSE c \in Live : o \in Owned(c, Idx)
    BY <1>2, <1>5 DEF OwnerOf
  <2>2. PICK b \in Live, j \in Idx : OwnedSlot(b, j) /\ elem[b][j] = o /\ b # o
    BY <1>5, HasOwner
  <2>3. \A c \in Live, i \in Idx : OwnedSlot(c, i) /\ elem[c][i] = o => c = b
    BY <2>2 DEF OneOwner, Live
  <2>4. OwnerOf(o) \in Live /\ o \in Owned(OwnerOf(o), Idx)
    BY <1>4, <2>1, <2>2
  <2>5. OwnerOf(o) = b
    BY <1>4, <2>3, <2>4
  <2> HIDE DEF OwnerOf
  <2> QED BY <2>2, <2>3, <2>5
<1>6. ASSUME NEW c \in Live, NEW i \in Idx, OwnedSlot(c, i), elem[c][i] = o
      PROVE  o \in Live \ (held \cup lost)
  BY <1>6 DEF OneOwner, Live
<1> QED BY <1>3, <1>5, <1>6

\* The owners, as the variable of CoOwnership.
Owners == [o \in Obj |-> OwnerOf(o)]

\* What is known of the owner of o.
OwnerFits(o) ==
  /\ o \in held => Owners[o] = "local"
  /\ o \in lost => Owners[o] = "lost"
  /\ o \notin Live => Owners[o] = "nobody"
  /\ o \in Live \ (held \cup lost) =>
       /\ Owners[o] \in Live /\ Owners[o] # o
       /\ \E i \in Idx : OwnedSlot(Owners[o], i) /\ elem[Owners[o]][i] = o
  /\ \A c \in Live, i \in Idx :
       OwnedSlot(c, i) /\ elem[c][i] = o => Owners[o] = c

OwnersFit == \A o \in Obj : OwnerFits(o)

\* OwnerOf is the owner: the container that refers to an object, the local
\* variables, the error path that lost it, or nobody.
LEMMA OwnersKnown == ASSUME AccountInv PROVE OwnersFit
<1> SUFFICES ASSUME NEW o \in Obj PROVE OwnerFits(o)
  BY DEF OwnersFit
<1>1. Owners[o] = OwnerOf(o)
  BY DEF Owners
<1> HIDE DEF OwnerOf
<1> QED BY <1>1, OwnerIs DEF OwnerFits

\* One step, seen from the owners.
LEMMA OwnersStep ==
  ASSUME Inv, Inv', OwnersFit, OwnersFit', NEW Fr \in SUBSET Obj, NEW Nw \in SUBSET Obj,
         OwnStep(Fr, Nw)
  PROVE  Ownership!Next
<1> DEFINE Owner == Obj \cup {"nobody", "local", "lost"}
           next == Owners'
<1>1. Live' \subseteq Obj /\ Live \subseteq Obj
  BY DEF Live
<1>2. \A o \in Obj :
        /\ o \in held' => next[o] = "local"
        /\ o \in lost' => next[o] = "lost"
        /\ o \notin Live' => next[o] = "nobody"
        /\ o \in Live' \ (held' \cup lost') => next[o] \in Live' /\ next[o] # o
  BY DEF OwnersFit, OwnerFits
<1>3. ASSUME NEW o \in Obj, NEW c \in Obj, NEW j \in Idx, Keeps(Fr, c, j),
             elem[c][j] = o, o \notin Fr
      PROVE  next[o] = c
  BY <1>3 DEF Keeps, OwnersFit, OwnerFits, OwnedSlot
<1>4. next = [o \in Obj |-> next[o]]
  BY DEF Owners
<1> HIDE DEF next
<1>5. \A o \in Obj : next[o] \in Owner
  BY <1>1, <1>2
<1>6. ASSUME NEW o \in Obj, next[o] \in Obj
      PROVE  next[next[o]] # "nobody" /\ next[o] # o
  <2>1. o \in Live' \ (held' \cup lost')
    BY <1>2, <1>6, OwnerAssumption
  <2>2. next[o] \in Live' /\ next[o] # o
    BY <1>2, <2>1
  <2> QED BY <1>1, <1>2, <2>2, OwnerAssumption
<1>7. ASSUME NEW o \in Obj
      PROVE  next[o] \in CASE Owners[o] = "nobody" -> Owner
                           [] Owners[o] = "local"  -> Owner
                           [] Owners[o] = "lost"   -> {"lost"}
                           [] Owners[o] \in Obj    -> {Owners[o], "nobody"}
  <2> DEFINE c == Owners[o]
  <2>1. \/ c = "nobody"
        \/ c = "local"
        \/ c = "lost" /\ next[o] = "lost"
        \/ c \in Obj /\ next[o] \in {c, "nobody"}
    <3>1. /\ o \in held => c = "local"
          /\ o \notin Live => c = "nobody"
      BY DEF OwnersFit, OwnerFits
    <3>2. o \in lost => c = "lost" /\ next[o] = "lost"
      BY <1>2 DEF OwnersFit, OwnerFits, OwnStep
    <3>3. ASSUME o \in Live \ (held \cup lost)
          PROVE  c \in Obj /\ next[o] \in {c, "nobody"}
      <4>1. c \in Obj
        BY <1>1, <3>3 DEF OwnersFit, OwnerFits
      <4>2. PICK i \in Idx : OwnedSlot(c, i) /\ elem[c][i] = o
        BY <3>3 DEF OwnersFit, OwnerFits
      <4>3. Keeps(Fr, c, i)
        BY <4>1, <4>2 DEF OwnStep
      <4>4. CASE o \in Fr
        <5>1. o \notin Live'
          BY <3>3, <4>4 DEF OwnStep
        <5> QED BY <1>2, <4>1, <5>1
      <4>5. CASE o \notin Fr
        <5> HIDE DEF c
        <5> QED BY <1>3, <4>1, <4>2, <4>3, <4>5
      <4> QED BY <4>4, <4>5
    <3> QED BY <3>1, <3>2, <3>3
  <2>2. next[o] \in Owner
    BY <1>5
  <2> HIDE DEF c
  <2> SUFFICES next[o] \in CASE c = "nobody" -> Owner
                             [] c = "local"  -> Owner
                             [] c = "lost"   -> {"lost"}
                             [] c \in Obj    -> {c, "nobody"}
    BY DEF c
  <2>3. {"nobody", "local", "lost"} \cap Obj = {}
    BY OwnerAssumption
  <2> QED BY <2>1, <2>2, <2>3
<1>8. next \in [Obj -> Owner]
  BY <1>4, <1>5
<1> QED BY <1>6, <1>7, <1>8
        DEF Ownership!Next, Ownership!Passes, Ownership!Owner, next, Owners

\* Every step of the library and of the application keeps to the ownership
\* rules of co.h: an object is moved only while a local variable owns it, a
\* container keeps what was moved into it until both are deleted, what an error
\* path dropped is never owned again, and nothing owns itself.
THEOREM OwnershipImplemented == Spec => ImplementsOwnership
<1>1. AccountInv => OwnersFit
  BY OwnersKnown
<1>2. Init => Ownership!Init
  <2> SUFFICES ASSUME Init PROVE Ownership!Init
    OBVIOUS
  <2>1. AccountInv
    BY InitAccount
  <2>2. \A o \in Obj : o \notin Live
    BY DEF Init, Live
  <2>3. \A o \in Obj : OwnerOf(o) = "nobody"
    BY <2>1, <2>2, OwnerIs
  <2> QED BY <2>3 DEF Ownership!Init
<1>3. AccountInv /\ AccountInv' /\ OwnersFit /\ OwnersFit' /\ [Next]_vars
        => Ownership!Next \/ UNCHANGED Owners
  <2>1. ASSUME AccountInv, AccountInv', OwnersFit, OwnersFit', Next
        PROVE  Ownership!Next
    <3>1. PICK Fr, Nw \in SUBSET Obj : OwnStep(Fr, Nw)
      BY <2>1, NextAccount DEF StepOK
    <3> QED BY <2>1, <3>1, OwnersStep DEF AccountInv
  <2>2. UNCHANGED vars => UNCHANGED Owners
    BY DEF vars, heap, Owners, OwnerOf, Live, Owned, Owns
  <2> QED BY <2>1, <2>2
<1>4. AccountInv /\ AccountInv' /\ OwnersFit /\ OwnersFit' /\ [Next]_vars
        => [Ownership!Next]_Owners
  BY <1>3
<1> QED BY <1>1, <1>2, <1>4, AccountInvariant, PTL
        DEF Spec, ImplementsOwnership, Ownership!Spec, Owners
-----------------------------------------------------------------------------
(* What is read exists *)

\* These are called by the application only.
AtBottom == {"coVectorAppendVector", "coNewVectorByMap"}

\* What the functions that are running build, and what was returned to them:
\* nothing of the application refers to it yet.
BuildRoots ==
  {x \in Obj : \/ call # <<>> /\ x = ret
               \/ \E n \in 1 .. Len(call) :
                    call[n].op # "coVectorAppendVector" /\ x = call[n].dst}
\* with all that it owns
Building == Tree(BuildRoots)

\* R is read: it exists, what it refers to is read too, and it is apart from
\* what is built.
Reads(R) ==
  /\ R \subseteq Live /\ R \cap Building = {}
  /\ \A y \in R : Elems(y) \subseteq R
  /\ \A n \in 1 .. Len(call) : call[n].src \in R

\* Nobody but the vector append can take over what is built, and then all of it
\* is owned.
BuildingOwns ==
  call # <<>> /\ call[1].op = "coVectorAppendVector" =>
    \A x \in Building : elem[x] = NoSlots \/ "CO_FREE_VALS" \in flags[x]

\* A frame has still to visit slots of its source.
FramesRead ==
  \A n \in 1 .. Len(call) : /\ call[n].todo \subseteq DOMAIN elem[call[n].src]
                            /\ call[n].op \in AtBottom => n = 1

Sources == FramesRead /\ BuildingOwns /\ \E R \in SUBSET Obj : Reads(R)

\* What is built is closed: it contains what its containers own.
LEMMA BuildingFacts ==
  ASSUME Inv
  PROVE  /\ BuildRoots \in SUBSET Obj /\ Building \in SUBSET Obj
         /\ BuildRoots \subseteq Building
         /\ \A q \in Building, j \in Idx : OwnedSlot(q, j) => elem[q][j] \in Building
         /\ \A n \in 1 .. Len(call) : call[n].op # "coVectorAppendVector" =>
              call[n].dst \in Building \cup {NULL}
         /\ call # <<>> => ret \in Building \cup {NULL, Pending}
         /\ call = <<>> => Building = {}
<1>1. BuildRoots \in SUBSET Obj
  BY DEF BuildRoots
<1>2. Building \in SUBSET Obj /\ BuildRoots \subseteq Building
  BY <1>1, TreeContains DEF Building, Tree
<1>3. \A q \in Building, j \in Idx : OwnedSlot(q, j) => elem[q][j] \in Building
  <2> SUFFICES ASSUME NEW q \in Building, NEW j \in Idx, OwnedSlot(q, j)
               PROVE  elem[q][j] \in Building
    OBVIOUS
  <2>1. elem[q][j] \in Obj
    BY <1>2 DEF Inv, OneOwner, Live
  <2> QED BY <1>1, <2>1, TreeClosed DEF Building
<1>4. \A n \in 1 .. Len(call) : call[n].dst \in Obj \cup {NULL}
  BY DEF Inv, FramesOK, StateOK
<1>5. \A n \in 1 .. Len(call) : call[n].op # "coVectorAppendVector" =>
        call[n].dst \in Building \cup {NULL}
  BY <1>2, <1>4 DEF BuildRoots
<1>6. call # <<>> => ret \in Building \cup {NULL, Pending}
  BY <1>2 DEF BuildRoots, Inv, StateOK
<1>7. ASSUME call = <<>> PROVE Building = {}
  <2>1. BuildRoots \subseteq {} /\ {} \in SUBSET Obj /\ Closed({})
    BY <1>7 DEF BuildRoots, Closed
  <2> QED BY <1>1, <2>1, TreeLeast DEF Building
<1> QED BY <1>1, <1>2, <1>3, <1>5, <1>6, <1>7

\* What q owns after the step is in B.
OwnsNext(q, B) == \A j \in Idx : OwnedSlot(q, j)' => elem'[q][j] \in B

\* What is built after the step is part of a set that is closed then.
LEMMA BuildingNext ==
  ASSUME Inv', NEW B \in SUBSET Obj, BuildRoots' \subseteq B, \A q \in B : OwnsNext(q, B)
  PROVE  Building' \subseteq B
<1>1. \A o \in Obj : kind'[o] = "free" => elem'[o] = NoSlots
  BY DEF Inv, FreeIsBlank
<1>2. Closed(B)'
  <2> SUFFICES ASSUME NEW o \in B, NEW i \in DOMAIN elem'[o], i \in Idx, Owns(o, i)',
                      elem'[o][i] # NULL
               PROVE  elem'[o][i] \in B
    BY DEF Closed, Owned, Owns
  <2>1. kind'[o] # "free"
    BY <1>1 DEF NoSlots
  <2>2. OwnedSlot(o, i)'
    BY <2>1 DEF OwnedSlot, Live, Owns
  <2> QED BY <2>2 DEF OwnsNext
<1> QED BY <1>2 DEF Building, Tree, Closed, Owned, Owns

\* The frames after the step, which read R and build B.
CallNext(R, B) ==
  /\ \A n \in 1 .. Len(call') :
       /\ call'[n].src \in R /\ call'[n].todo \subseteq DOMAIN elem[call'[n].src]
       /\ call'[n].op \in AtBottom => n = 1
       /\ call'[n].op # "coVectorAppendVector" => call'[n].dst \in B \cup {NULL}
  /\ call' # <<>> /\ call'[1].op = "coVectorAppendVector" =>
       call = <<>> \/ call[1].op = "coVectorAppendVector"
  /\ call' # <<>> => ret' \in B \cup {NULL, Pending}

\* A step that changes and frees only what is built.
LEMMA SourcesKept ==
  ASSUME Inv, Inv', BuildingOwns, NEW R \in SUBSET Obj, Reads(R),
         NEW Fr \in SUBSET Obj, NEW Nw \in SUBSET Obj, NEW v \in Building \cup {NULL},
         Changes(Fr, Nw, v), Fr \subseteq Building,
         NEW B, B = Building \cup Nw, CallNext(R, B),
         \A q \in Nw \cup {v} : q # NULL => OwnsNext(q, B),
         call' # <<>> /\ call'[1].op = "coVectorAppendVector" =>
           /\ \A q \in Nw : elem'[q] = NoSlots
           /\ v # NULL => "CO_FREE_VALS" \in flags'[v]
  PROVE  Sources'
<1>1. /\ Building \in SUBSET Obj /\ Live \subseteq Obj
      /\ \A q \in Building, j \in Idx : OwnedSlot(q, j) => elem[q][j] \in Building
      /\ call = <<>> => Building = {}
  BY BuildingFacts DEF Live
<1>2. \A o \in Obj \ Nw : o # v /\ o \notin Fr => Same(o)
  BY DEF Changes
<1>3. \A y \in R : y \in Obj /\ y \in Live' /\ elem'[y] = elem[y]
  <2>1. \A y \in R : y \in Live /\ y \notin Building /\ y \notin Nw
    BY DEF Reads, Changes
  <2>2. \A y \in R : y # v /\ y \notin Fr
    BY <1>1, <2>1, ObjAssumption
  <2> QED BY <1>2, <2>1, <2>2 DEF Changes, Same
<1>4. \A q \in B : OwnsNext(q, B)
  <2> SUFFICES ASSUME NEW q \in Building, q # v, q \notin Nw PROVE OwnsNext(q, B)
    BY <1>1, ObjAssumption
  <2>1. CASE q \in Fr
    <3>1. elem'[q] = NoSlots
      BY <2>1 DEF Changes
    <3> QED BY <3>1, NoSlotsType DEF OwnsNext, OwnedSlot
  <2>2. CASE q \notin Fr
    <3>1. Same(q) /\ q \in Obj
      BY <1>1, <1>2, <2>2
    <3>2. q \in Live' => q \in Live
      BY DEF Changes
    <3> QED BY <1>1, <3>1, <3>2 DEF OwnsNext, OwnedSlot, Owns, Same
  <2> QED BY <2>1, <2>2
<1>5. BuildRoots' \subseteq B
  BY ObjAssumption DEF BuildRoots, CallNext
<1>6. Building' \subseteq B
  BY <1>1, <1>4, <1>5, BuildingNext
<1>7. FramesRead'
  BY <1>3 DEF FramesRead, CallNext
<1>8. R \cap B = {}
  BY DEF Reads, Changes
<1>9. Reads(R)'
  <2>1. R \subseteq Live' /\ R \cap Building' = {}
    BY <1>3, <1>6, <1>8
  <2>2. \A y \in R : Elems(y)' \subseteq R
    BY <1>3 DEF Reads, Elems
  <2>3. \A n \in 1 .. Len(call') : call'[n].src \in R
    BY DEF CallNext
  <2> QED BY <2>1, <2>2, <2>3 DEF Reads, Elems
<1>10. ASSUME call' # <<>>, call'[1].op = "coVectorAppendVector", NEW x \in Building'
       PROVE  elem'[x] = NoSlots \/ "CO_FREE_VALS" \in flags'[x]
  <2>1. CASE x \in Nw
    BY <1>10, <2>1
  <2>2. CASE x = v
    BY <1>1, <1>10, <2>2, <1>6, ObjAssumption
  <2>3. CASE x \in Fr
    BY <2>3 DEF Changes
  <2>4. CASE x \in Building /\ x # v /\ x \notin Fr /\ x \notin Nw
    BY <1>1, <1>2, <1>10, <2>4 DEF Same, BuildingOwns, CallNext
  <2> QED BY <1>6, <2>1, <2>2, <2>3, <2>4
<1>11. BuildingOwns'
  BY <1>10 DEF BuildingOwns
<1> QED BY <1>7, <1>9, <1>11 DEF Sources, Reads, Elems

\* When no function runs there is nothing to show.
LEMMA SourcesIdle == ASSUME call' = <<>> PROVE Sources'
<1>1. {} \in SUBSET Obj /\ 1 .. Len(call') = {}
  OBVIOUS
<1> QED BY <1>1 DEF Sources, FramesRead, BuildingOwns, Reads, Elems

\* The frames when the one on top goes on, or returns.
LEMMA CallGoesOn ==
  ASSUME Inv, FramesRead, NEW R, Reads(R), call # <<>>, NEW D,
         call' = Handled(D) \/ call' = Below \/ call' = call,
         NEW B, Building \subseteq B, ret' \in B \cup {NULL, Pending}
  PROVE  CallNext(R, B)
<1>0. Len(call) \in Nat \ {0} /\ call \in Seq(Frame) /\ Top \in Frame
  BY TopType DEF Inv, StateOK
<1>1. /\ Len(call') \in {Len(call), Len(call) - 1}
      /\ \A n \in 1 .. Len(call') : n \in 1 .. Len(call)
      /\ call' # <<>> => 1 \in 1 .. Len(call')
  <2>1. Len(call') \in {Len(call), Len(call) - 1}
    <3>1. Len(Handled(D)) = Len(call) /\ Len(Below) = Len(call) - 1
      BY HandledFrames, BelowType DEF Inv
    <3> QED BY <3>1
  <2>2. \A n \in 1 .. Len(call') : n \in 1 .. Len(call)
    BY <1>0, <2>1
  <2>3. ASSUME call' # <<>> PROVE 1 \in 1 .. Len(call')
    <3>1. call' = Below => Below \in Seq(Frame)
      BY BelowType DEF Inv
    <3>2. call' = Below => Len(call') # 0
      BY <2>3, <3>1
    <3>3. call' # Below => Len(call') = Len(call)
      BY HandledFrames DEF Inv
    <3> QED BY <1>0, <2>1, <3>2, <3>3
  <2> QED BY <2>1, <2>2, <2>3
<1>2. \A n \in 1 .. Len(call') :
        /\ call'[n].src = call[n].src /\ call'[n].op = call[n].op
        /\ call'[n].dst = call[n].dst /\ call'[n].todo \subseteq call[n].todo
  <2>1. CASE call' = Handled(D)
    <3> DEFINE g == [Top EXCEPT !.todo = @ \ D]
    <3>1. g.src = Top.src /\ g.op = Top.op /\ g.dst = Top.dst /\ g.todo = Top.todo \ D
      BY <1>0 DEF Frame
    <3>2. /\ \A n \in 1 .. Len(call) - 1 : Handled(D)[n] = call[n]
          /\ Handled(D)[Len(call)] = g /\ Len(Handled(D)) = Len(call)
      BY HandledFrames DEF Inv
    <3> HIDE DEF g
    <3>3. \A n \in 1 .. Len(call) : n \in 1 .. Len(call) - 1 \/ n = Len(call)
      BY <1>0
    <3> QED BY <1>1, <2>1, <3>1, <3>2, <3>3 DEF Top
  <2>2. CASE call' = Below
    BY <2>2, BelowType DEF Inv
  <2> QED BY <2>1, <2>2
<1>3. \A n \in 1 .. Len(call) : call[n].op # "coVectorAppendVector" =>
        call[n].dst \in B \cup {NULL}
  BY BuildingFacts
<1> QED BY <1>1, <1>2, <1>3 DEF CallNext, Reads, FramesRead

\* The frames when a function is called.
LEMMA CallEnters ==
  ASSUME Inv, FramesRead, NEW R, Reads(R), NEW op \in Ops, NEW src \in Obj, src \in R,
         NEW B, Building \subseteq B, NEW dst \in Dst,
         op # "coVectorAppendVector" => dst \in B \cup {NULL},
         op \in AtBottom => call = <<>>,
         NEW old \in 0 .. MaxCnt, NEW root \in Idx, call' = Push(op, src, dst, old, root),
         ret' = Pending
  PROVE  CallNext(R, B)
<1> DEFINE g == [op |-> op, src |-> src, dst |-> dst, todo |-> DOMAIN elem[src],
                 old |-> old, root |-> root]
<1>1. call \in Seq(Frame) /\ Len(call) \in Nat
  BY DEF Inv, StateOK
<1>2. g \in Frame
  <2>1. DOMAIN elem[src] \subseteq Idx
    BY SlotsOut DEF Inv, StateOK
  <2> QED BY <2>1 DEF Frame, Ops, Dst
<1>3. call' = Append(call, g)
  BY DEF Push
<1>4. g.op = op /\ g.src = src /\ g.dst = dst /\ g.todo = DOMAIN elem[src]
  OBVIOUS
<1> HIDE DEF g
<1>5. /\ Len(call') = Len(call) + 1 /\ call' # <<>>
      /\ \A n \in 1 .. Len(call) : call'[n] = call[n]
      /\ call'[Len(call) + 1] = g
  BY <1>1, <1>2, <1>3
<1>6. \A n \in 1 .. Len(call) : call[n].op # "coVectorAppendVector" =>
        call[n].dst \in B \cup {NULL}
  BY BuildingFacts
<1>7. \A n \in 1 .. Len(call') : n \in 1 .. Len(call) \/ n = Len(call) + 1
  BY <1>1, <1>5
<1>8. call = <<>> => Len(call) = 0
  OBVIOUS
<1>9. call # <<>> => 1 \in 1 .. Len(call)
  BY <1>1
<1>10. ASSUME NEW n \in 1 .. Len(call')
       PROVE  /\ call'[n].src \in R /\ call'[n].todo \subseteq DOMAIN elem[call'[n].src]
              /\ call'[n].op \in AtBottom => n = 1
              /\ call'[n].op # "coVectorAppendVector" => call'[n].dst \in B \cup {NULL}
  <2>1. CASE n \in 1 .. Len(call)
    BY <1>5, <1>6, <2>1 DEF Reads, FramesRead
  <2>2. CASE n = Len(call) + 1
    BY <1>4, <1>5, <1>8, <2>2
  <2> QED BY <1>7, <2>1, <2>2
<1> QED BY <1>5, <1>9, <1>10 DEF CallNext

\* A new object.
LEMMA AllocSources ==
  ASSUME Inv, Inv', Packed, BuildingOwns, NEW R \in SUBSET Obj, Reads(R),
         NEW o \in Obj, NEW k \in Kinds \ {"free"}, NEW f, Alloc(o, k, f),
         CallNext(R, Building \cup {o})
  PROVE  Sources'
<1> DEFINE Fr == {}
           Nw == {o}
           B == Building \cup Nw
           v == NULL
<1>1. Changes(Fr, Nw, v) /\ elem'[o] = NoSlots
  BY AllocChanges
<1>2. Fr \in SUBSET Obj /\ Nw \in SUBSET Obj /\ Fr \subseteq Building
      /\ v \in Building \cup {NULL} /\ CallNext(R, B) /\ v = NULL
  OBVIOUS
<1>3. \A q \in Nw : elem'[q] = NoSlots
  BY <1>1
<1>4. B = Building \cup Nw
  OBVIOUS
<1> HIDE DEF Fr, Nw, B, v
<1>5. \A q \in Nw \cup {v} : q # NULL => OwnsNext(q, B)
  BY <1>2, <1>3, NoSlotsType DEF OwnsNext, OwnedSlot
<1> QED BY <1>1, <1>2, <1>3, <1>4, <1>5, SourcesKept

\* The heap does not change.
LEMMA StillSources ==
  ASSUME Inv, Inv', BuildingOwns, NEW R \in SUBSET Obj, Reads(R), UNCHANGED heap,
         CallNext(R, Building)
  PROVE  Sources'
<1> DEFINE Fr == {}
           Nw == {}
           B == Building \cup Nw
           v == NULL
<1>1. Fr \in SUBSET Obj /\ Nw \in SUBSET Obj /\ Fr \subseteq Building
      /\ v \in Building \cup {NULL} /\ B = Building /\ v = NULL
  OBVIOUS
<1>2. Changes(Fr, Nw, v)
  BY StillChanges
<1>3. \A q \in Nw \cup {v} : q = NULL
  OBVIOUS
<1>4. B = Building \cup Nw /\ \A q \in Nw : FALSE
  OBVIOUS
<1>5. CallNext(R, B)
  BY <1>1
<1> HIDE DEF Fr, Nw, B, v
<1> QED BY <1>1, <1>2, <1>3, <1>4, <1>5, SourcesKept

\* Slots of the container that is built are emptied and filled.
LEMMA ReplaceSources ==
  ASSUME Inv, Inv', FramesBuild, BuildingOwns, NEW R \in SUBSET Obj, Reads(R),
         call # <<>>, Top.op # "coVectorAppendVector", Top.dst # NULL,
         NEW v, v = Top.dst, NEW D \in SUBSET Idx, NEW new \in Slots, NEW n,
         \A i \in DOMAIN new : new[i] \in Building \cup {NULL},
         Replace(v, D, new, n), CallNext(R, Building)
  PROVE  Sources'
<1> DEFINE Fr == Gone(v, D)
           Nw == {}
           B == Building \cup Nw
           f == flags
<1>1. v \in held /\ v \in Obj /\ "CO_FREE_VALS" \in flags[v]
  BY TopBuilds
<1>2. /\ Building \in SUBSET Obj /\ v \in Building
      /\ \A q \in Building, j \in Idx : OwnedSlot(q, j) => elem[q][j] \in Building
  BY BuildingFacts, TopType DEF Top, Inv
<1>3. Fr \subseteq Building
  <2>1. Owned(v, D) \subseteq Building
    <3>1. v \in Live
      BY <1>1 DEF Inv, OneOwner
    <3> QED BY <1>2, <3>1 DEF Owned, OwnedSlot
  <2>2. Closed(Building)
    BY <1>2, ClosedBySlots DEF Inv
  <2>3. Owned(v, D) \in SUBSET Obj
    BY <1>2, <2>1
  <2> QED BY <1>2, <2>1, <2>2, <2>3, TreeLeast DEF Gone
<1>4. f \in [Obj -> SUBSET Flags] /\ (\A o \in Obj \ {v} : f[o] = flags[o])
      /\ ReplaceF(v, D, new, n, f) /\ f = flags
  BY DEF Replace, Inv, StateOK
<1>5. B = Building \cup Nw /\ B = Building /\ Nw \in SUBSET Obj /\ \A q \in Nw : FALSE
  OBVIOUS
<1> HIDE DEF f
<1>6. Fr \in SUBSET Obj /\ Changes(Fr, {}, v) /\ Becomes(v, D, new, n, f)
  BY <1>1, <1>4, ReplaceChanges
<1>7. Changes(Fr, Nw, v)
  BY <1>6
<1> HIDE DEF Fr, Nw, B
<1>8. flags'[v] = flags[v] /\ kind'[v] = kind[v]
  BY <1>4, <1>6 DEF Becomes
<1>9. OwnsNext(v, B)
  <2> SUFFICES ASSUME NEW j \in Idx, OwnedSlot(v, j)' PROVE elem'[v][j] \in Building
    BY <1>5 DEF OwnsNext
  <2>1. elem'[v] = NewSlots(v, D, new)
    BY <1>6 DEF Becomes
  <2>2. CASE j \in DOMAIN new
    <3>1. elem'[v][j] = new[j]
      BY <2>1, <2>2 DEF NewSlots
    <3> QED BY <2>2, <3>1 DEF OwnedSlot
  <2>3. CASE j \notin DOMAIN new
    <3>1. j \in DOMAIN elem[v] /\ elem'[v][j] = elem[v][j]
      BY <2>1, <2>3 DEF NewSlots, OwnedSlot
    <3>2. OwnedSlot(v, j)
      BY <1>1, <1>8, <3>1 DEF OwnedSlot, Owns, Inv, OneOwner
    <3> QED BY <1>2, <3>1, <3>2
  <2> QED BY <2>2, <2>3
<1>10. CallNext(R, B) /\ v \in Building \cup {NULL}
  BY <1>2, <1>5
<1> QED BY <1>1, <1>3, <1>5, <1>6, <1>7, <1>8, <1>9, <1>10, SourcesKept

\* The container that is built is deleted.
LEMMA DeleteSources ==
  ASSUME Inv, Inv', BuildingOwns, NEW R \in SUBSET Obj, Reads(R),
         call # <<>>, Top.op # "coVectorAppendVector", Top.dst # NULL,
         Free(Tree({Top.dst}), elem, cnt, flags), CallNext(R, Building)
  PROVE  Sources'
<1> DEFINE d == Top.dst
           Fr == Tree({d})
           Nw == {}
           B == Building \cup Nw
           v == NULL
<1>1. d \in held /\ d \in Obj
  BY TopHeld
<1>2. /\ Building \in SUBSET Obj /\ d \in Building
      /\ \A q \in Building, j \in Idx : OwnedSlot(q, j) => elem[q][j] \in Building
  BY BuildingFacts, TopType DEF Top, Inv
<1>3. Fr \subseteq Building
  <2>1. Closed(Building) /\ {d} \in SUBSET Obj /\ {d} \subseteq Building
    BY <1>1, <1>2, ClosedBySlots DEF Inv
  <2> QED BY <1>2, <2>1, TreeLeast
<1>4. Fr \in SUBSET Obj /\ Changes(Fr, {}, NULL)
  BY <1>1, DeleteChanges
<1>5. /\ B = Building \cup Nw /\ B = Building /\ Nw \in SUBSET Obj
      /\ v \in Building \cup {NULL} /\ v = NULL
  OBVIOUS
<1>6. Changes(Fr, Nw, v)
  BY <1>4
<1>7. \A q \in Nw \cup {v} : q = NULL
  OBVIOUS
<1>8. CallNext(R, B) /\ \A q \in Nw : FALSE
  BY <1>5
<1> HIDE DEF Fr, Nw, B, v
<1> QED BY <1>3, <1>4, <1>5, <1>6, <1>7, <1>8, SourcesKept

\* What the steps start from.
SourcesBefore(R) ==
  Inv /\ Inv' /\ Shape /\ FramesRead /\ BuildingOwns /\ Reads(R)

\* Every step of a call keeps the objects it still reads apart from those it
\* builds: a new call reads an element of what its caller reads.
LEMMA EnterSources ==
  ASSUME NEW R \in SUBSET Obj, SourcesBefore(R),
         NEW op \in Ops \ {"coVectorAppendVector"}, op \in AtBottom => call = <<>>,
         NEW src \in Obj, src \in R, NEW k \in Kinds \ {"free"}, NEW f,
         Enter(op, src, k, f)
  PROVE  Sources'
<1> USE DEF SourcesBefore, Shape
<1>1. PICK root \in Roots(src) :
        \/ \E o \in Obj : /\ Alloc(o, k, f)
                          /\ call' = Push(op, src, o, 0, root)
        \/ /\ UNCHANGED heap
           /\ call' = Push(op, src, NULL, 0, root)
  BY DEF Enter
<1>2. /\ root \in Idx /\ 0 \in 0 .. MaxCnt /\ ret' = Pending
      /\ op \in Ops /\ op # "coVectorAppendVector"
  <2>1. elem[src] \in Slots
    BY DEF Inv, StateOK
  <2> QED BY <1>1, <2>1, SlotsOut, IdxNat, BoundAssumption DEF Roots, Enter
<1>3. ASSUME NEW o \in Obj, Alloc(o, k, f), call' = Push(op, src, o, 0, root)
      PROVE  Sources'
  <2> DEFINE B == Building \cup {o}
  <2>1. Building \subseteq B /\ o \in B \cup {NULL} /\ o \in Dst /\ B = Building \cup {o}
        /\ ret' \in B \cup {NULL, Pending}
    BY <1>2 DEF Dst
  <2> HIDE DEF B
  <2>2. CallNext(R, B)
    BY <1>2, <1>3, <2>1, CallEnters
  <2> QED BY <1>3, <2>1, <2>2, AllocSources
<1>4. ASSUME UNCHANGED heap, call' = Push(op, src, NULL, 0, root)
      PROVE  Sources'
  <2>1. NULL \in Building \cup {NULL} /\ NULL \in Dst
    BY DEF Dst
  <2>2. CallNext(R, Building)
    BY <1>2, <1>4, <2>1, CallEnters
  <2> QED BY <1>4, <2>2, StillSources
<1> QED BY <1>1, <1>3, <1>4

LEMMA CloneLeafSources ==
  ASSUME NEW R \in SUBSET Obj, SourcesBefore(R), call # <<>>,
         NEW e \in Obj, kind[e] \in Leaves, CloneLeaf(e)
  PROVE  Sources'
<1> USE DEF SourcesBefore, Shape
<1>1. call' = call /\ kind[e] \in Kinds \ {"free"}
  BY DEF CloneLeaf, Leaves, Kinds
<1>2. ASSUME NEW o \in Obj, Alloc(o, kind[e], {}), ret' \in {o, NULL}
      PROVE  Sources'
  <2> DEFINE B == Building \cup {o}
  <2>1. Building \subseteq B /\ B = Building \cup {o} /\ ret' \in B \cup {NULL, Pending}
    BY <1>2
  <2> HIDE DEF B
  <2>2. CallNext(R, B)
    BY <1>1, <2>1, CallGoesOn
  <2> QED BY <1>1, <1>2, <2>1, <2>2, AllocSources
<1>3. ASSUME UNCHANGED heap, ret' = NULL
      PROVE  Sources'
  <2>1. ret' \in Building \cup {NULL, Pending}
    BY <1>3
  <2>2. CallNext(R, Building)
    BY <1>1, <2>1, CallGoesOn
  <2> QED BY <1>3, <2>2, StillSources
<1> QED BY <1>2, <1>3 DEF CloneLeaf

LEMMA CloneSources ==
  ASSUME NEW R \in SUBSET Obj, SourcesBefore(R), NEW e \in Obj, e \in R, coClone(e)
  PROVE  Sources'
<1>1. CASE kind[e] \in Leaves /\ CloneLeaf(e) /\ call # <<>>
  BY <1>1, CloneLeafSources
<1>2. CASE CloneLeaf(e) /\ call = <<>>
  BY <1>2, SourcesIdle DEF CloneLeaf
<1>3. CASE Enter("coVectorMap", e, "vector", {"CO_FREE_VALS"})
  <2>1. /\ "coVectorMap" \in Ops \ {"coVectorAppendVector"}
        /\ "coVectorMap" \notin AtBottom /\ "vector" \in Kinds \ {"free"}
    BY DEF Ops, AtBottom, Kinds
  <2> QED BY <1>3, <2>1, EnterSources
<1>4. CASE Enter("coMapClone", e, "map", flags[e] \cup {"CO_FREE_VALS"})
  <2>1. /\ "coMapClone" \in Ops \ {"coVectorAppendVector"}
        /\ "coMapClone" \notin AtBottom /\ "map" \in Kinds \ {"free"}
    BY DEF Ops, AtBottom, Kinds
  <2> QED BY <1>4, <2>1, EnterSources
<1> QED BY <1>1, <1>2, <1>3, <1>4 DEF coClone

\* What is cloned next is read.
LEMMA NextIsRead ==
  ASSUME Inv, FramesRead, NEW R, Reads(R), call # <<>>, NEW k \in Top.todo,
         elem[Top.src][k] # NULL
  PROVE  elem[Top.src][k] \in R
<1>1. Len(call) \in 1 .. Len(call)
  BY TopType DEF Inv
<1>2. Top.src \in R /\ k \in DOMAIN elem[Top.src]
  BY <1>1 DEF Reads, FramesRead, Top
<1>3. elem[Top.src][k] \in Elems(Top.src)
  BY <1>2 DEF Elems
<1> QED BY <1>2, <1>3 DEF Reads

LEMMA CloneElemSources ==
  ASSUME NEW R \in SUBSET Obj, SourcesBefore(R), CloneElem
  PROVE  Sources'
<1>1. PICK k \in Top.todo, e \in Obj \cup {NULL} :
        /\ e = elem[Top.src][k]
        /\ \/ e # NULL /\ coClone(e)
           \/ ret' = NULL /\ UNCHANGED <<heap, call>>
  BY DEF CloneElem
<1>2. call # <<>>
  BY DEF CloneElem, Running
<1>3. CASE e # NULL /\ coClone(e)
  <2>1. e \in R
    BY <1>1, <1>2, <1>3, NextIsRead DEF SourcesBefore
  <2> QED BY <1>3, <2>1, CloneSources
<1>4. CASE ret' = NULL /\ UNCHANGED <<heap, call>>
  <2>1. ret' \in Building \cup {NULL, Pending}
    BY <1>4
  <2>2. CallNext(R, Building)
    BY <1>2, <1>4, <2>1, CallGoesOn DEF SourcesBefore
  <2> QED BY <1>4, <2>2, StillSources DEF SourcesBefore
<1> QED BY <1>1, <1>3, <1>4

\* A clone is stored in the container that is built.
LEMMA StoreSources ==
  ASSUME NEW R \in SUBSET Obj, SourcesBefore(R),
         call # <<>>, Top.op # "coVectorAppendVector", Top.dst # NULL, ret # Pending,
         NEW i \in Idx, NEW n, Store(i, ret, n), NEW D, call' = Handled(D),
         ret' = Pending
  PROVE  Sources'
<1> USE DEF SourcesBefore, Shape
<1> DEFINE v == Top.dst
           new == Slot(i, ret)
           E == {}
<1>1. ret \in Building \cup {NULL}
  BY BuildingFacts
<1>2. ret \in Obj \cup {NULL}
  BY DEF Inv, StateOK
<1>3. new \in Slots /\ DOMAIN new = {i} /\ new[i] = ret
  BY <1>2, SlotType
<1>4. \A j \in DOMAIN new : new[j] \in Building \cup {NULL}
  BY <1>1, <1>3
<1>5. CallNext(R, Building)
  <2>1. ret' \in Building \cup {NULL, Pending}
    OBVIOUS
  <2> QED BY <2>1, CallGoesOn
<1>6. Replace(v, E, new, n) /\ E \in SUBSET Idx /\ v = Top.dst
  BY DEF Store
<1> HIDE DEF v, new, E
<1> QED BY <1>3, <1>4, <1>5, <1>6, ReplaceSources

LEMMA VectorMapAddSources ==
  ASSUME NEW R \in SUBSET Obj, SourcesBefore(R), VectorMapAdd PROVE Sources'
<1> USE DEF VectorMapAdd
<1>1. call # <<>> /\ Top.op # "coVectorAppendVector" /\ Top.dst \in Obj
  BY TopFacts DEF Running, SourcesBefore
<1>2. cnt[Top.dst] \in Idx
  <2>1. cnt[Top.dst] \in 0 .. MaxCnt
    BY <1>1, CntType DEF SourcesBefore
  <2> QED BY <2>1, IdxNat
<1> QED BY <1>1, <1>2, StoreSources

LEMMA MapCloneAddSources ==
  ASSUME NEW R \in SUBSET Obj, SourcesBefore(R), MapCloneAdd PROVE Sources'
<1> USE DEF MapCloneAdd
<1>1. call # <<>> /\ Top.op # "coVectorAppendVector" /\ Top.todo \subseteq Idx
  BY TopFacts DEF Running, SourcesBefore
<1> QED BY <1>1, StoreSources

\* The error paths free what was built, which nobody reads.
LEMMA VectorMapFailSources ==
  ASSUME NEW R \in SUBSET Obj, SourcesBefore(R), VectorMapFail PROVE Sources'
<1> USE DEF VectorMapFail, SourcesBefore, Shape
<1>1. /\ call # <<>> /\ Top.op # "coVectorAppendVector" /\ call' = Below
      /\ ret' \in Building \cup {NULL, Pending}
  BY DEF Running, Return
<1>2. CallNext(R, Building)
  BY <1>1, CallGoesOn
<1>3. NoSlots \in Slots /\ \A i \in DOMAIN NoSlots : NoSlots[i] \in Building \cup {NULL}
  BY NoSlotsType
<1> DEFINE v == Top.dst
<1>4. v = Top.dst /\ Replace(v, Idx, NoSlots, 0) /\ Idx \in SUBSET Idx
  OBVIOUS
<1> HIDE DEF v
<1> QED BY <1>1, <1>2, <1>3, <1>4, ReplaceSources

LEMMA MapCloneFailSources ==
  ASSUME NEW R \in SUBSET Obj, SourcesBefore(R), MapCloneFail PROVE Sources'
<1> USE DEF MapCloneFail, SourcesBefore
<1>1. /\ call # <<>> /\ Top.op # "coVectorAppendVector" /\ call' = Below
      /\ ret' \in Building \cup {NULL, Pending}
  BY DEF Running, Return
<1>2. CallNext(R, Building)
  BY <1>1, CallGoesOn
<1> QED BY <1>1, <1>2, DeleteSources

\* Elements are left out.
LEMMA SkipSources ==
  ASSUME NEW R \in SUBSET Obj, SourcesBefore(R), MapCloneSkip \/ ByMapSkip
  PROVE  Sources'
<1> USE DEF MapCloneSkip, ByMapSkip, SourcesBefore
<1>1. call # <<>> /\ UNCHANGED heap
  BY DEF Running
<1>2. ret' \in Building \cup {NULL, Pending}
  BY <1>1, BuildingFacts
<1>3. PICK S : call' = Handled(S)
  OBVIOUS
<1>4. CallNext(R, Building)
  BY <1>1, <1>2, <1>3, CallGoesOn
<1> QED BY <1>1, <1>4, StillSources

LEMMA FinishSources ==
  ASSUME NEW R \in SUBSET Obj, SourcesBefore(R), Finish PROVE Sources'
<1> USE DEF Finish, SourcesBefore
<1>1. call # <<>> /\ call' = Below /\ ret' = Top.dst /\ UNCHANGED heap
      /\ Top.op # "coVectorAppendVector"
  BY DEF Running, Return
<1>2. ret' \in Building \cup {NULL, Pending}
  BY <1>1, BuildingFacts, TopType DEF Top, Inv
<1>3. CallNext(R, Building)
  BY <1>1, <1>2, CallGoesOn
<1> QED BY <1>1, <1>3, StillSources

LEMMA HaltSources ==
  ASSUME NEW R \in SUBSET Obj, SourcesBefore(R), CloneHalts \/ ByMapHalts
  PROVE  Sources'
<1> USE DEF CloneHalts, ByMapHalts, Halt, SourcesBefore
<1>1. call # <<>> /\ call' = call /\ UNCHANGED heap /\ ret' = ret
  BY DEF Running
<1>2. ret' \in Building \cup {NULL, Pending}
  BY <1>1, BuildingFacts
<1>3. CallNext(R, Building)
  BY <1>1, <1>2, CallGoesOn
<1> QED BY <1>1, <1>3, StillSources

LEMMA ByMapAddSources ==
  ASSUME NEW R \in SUBSET Obj, SourcesBefore(R), ByMapAdd PROVE Sources'
<1> USE DEF ByMapAdd, SourcesBefore
<1>0. PICK d, c : d \in Obj \cup {NULL} /\ d = Top.dst /\ c = cnt[d]
  BY TopFacts DEF Running
<1>1. /\ call # <<>> /\ d \in held /\ d \in Obj /\ Top.op = "coNewVectorByMap"
      /\ kind[d] = "vector" /\ "CO_FREE_VALS" \in flags[d] /\ c < MaxCnt
  BY <1>0, TopHeld, TopBuilds DEF Running, Shape
<1>2. PICK k \in Top.todo, p \in Obj, s, value \in Obj \cup {NULL} :
        AddPair(k, p, s, value)
  OBVIOUS
<1>3. PairGoesTo(d, c, p, s, value) /\ call' = Handled({k})
  <2>1. d # p
    BY <1>1, <1>2 DEF AddPair, Inv, OneOwner, Live
  <2> QED BY <1>0, <1>1, <1>2, <2>1 DEF AddPair, PairGoesTo, Inv, StateOK
<1>4. ret' = ret
  OBVIOUS
<1>5. /\ Building \in SUBSET Obj /\ d \in Building
      /\ \A q \in Building, j \in Idx : OwnedSlot(q, j) => elem[q][j] \in Building
  BY <1>0, <1>1, BuildingFacts, TopType, ObjAssumption DEF Top, Inv
<1>6. call[1] = Top /\ Len(call) = 1
  <2>1. Len(call) \in 1 .. Len(call)
    BY <1>1, TopType DEF Inv
  <2> QED BY <1>1, <2>1 DEF FramesRead, Top, AtBottom
<1> HIDE DEF ByMapAdd
<1> DEFINE Fr == {}
           Nw == Pieces(p, s)
           B == Building \cup Nw
<1>7. /\ flags'[d] = flags[d] /\ elem'[d] = With(elem[d], c, p)
      /\ elem'[p] = Pair(s, value) /\ flags'[p] = {"CO_FREE_FIRST"}
      /\ s # NULL => elem'[s] = NoSlots
      /\ Changes(Fr, Nw, d)
  <2>1. PairMade(d, c, p, s, value)
    BY <1>1, <1>3, PairGoes DEF Shape
  <2> QED BY <2>1 DEF PairMade
<1>8. /\ p \in Nw /\ (s # NULL => s \in Nw) /\ Nw \in SUBSET Obj /\ Fr \in SUBSET Obj
      /\ Fr \subseteq Building /\ B = Building \cup Nw
      /\ \A q \in Nw : q = p \/ q = s
      /\ d \in Building \cup {NULL} /\ Building \subseteq B
  BY <1>5 DEF Pieces
<1> HIDE DEF Fr, Nw, B
<1>9. OwnsNext(p, B)
  BY <1>7, <1>8 DEF OwnsNext, OwnedSlot, Owns, Pair
<1>10. s # NULL => OwnsNext(s, B)
  BY <1>7, <1>8, NoSlotsType DEF OwnsNext, OwnedSlot
<1>11. OwnsNext(d, B)
  <2> SUFFICES ASSUME NEW j \in Idx, OwnedSlot(d, j)' PROVE elem'[d][j] \in B
    BY DEF OwnsNext
  <2>1. CASE j = c
    BY <1>7, <1>8, <2>1 DEF With
  <2>2. CASE j # c
    <3>1. j \in DOMAIN elem[d] /\ elem'[d][j] = elem[d][j]
      BY <1>7, <2>2 DEF With, OwnedSlot
    <3>2. OwnedSlot(d, j)
      BY <1>1, <1>7, <3>1 DEF OwnedSlot, Owns, Inv, OneOwner
    <3> QED BY <1>5, <1>8, <3>1, <3>2
  <2> QED BY <2>1, <2>2
<1>12. CallNext(R, B)
  <2>1. ret' \in B \cup {NULL, Pending}
    BY <1>1, <1>4, <1>8, BuildingFacts
  <2> QED BY <1>1, <1>3, <1>8, <2>1, CallGoesOn
<1>13. ASSUME call' # <<>>, call'[1].op = "coVectorAppendVector" PROVE FALSE
  BY <1>1, <1>6, <1>13, <1>12 DEF CallNext
<1>14. \A q \in Nw \cup {d} : q # NULL => OwnsNext(q, B)
  BY <1>8, <1>9, <1>10, <1>11
<1> QED BY <1>7, <1>8, <1>12, <1>13, <1>14, SourcesKept

\* The vector append hands the clone over: from now on it may be read.
LEMMA AppendAddSources ==
  ASSUME NEW R \in SUBSET Obj, SourcesBefore(R), AppendAdd PROVE Sources'
<1> USE DEF AppendAdd, SourcesBefore, Shape
<1>1. /\ call # <<>> /\ Top.op = "coVectorAppendVector" /\ Len(call) = 1
      /\ Len(call) \in 1 .. Len(call) /\ call[1] = Top
  <2>1. Len(call) \in 1 .. Len(call) /\ call # <<>> /\ Top.op = "coVectorAppendVector"
    BY TopType DEF Running, Inv
  <2> QED BY <2>1 DEF FramesRead, Top, AtBottom
<1>2. PICK v, c : v \in Obj \cup {NULL} /\ v = Top.dst /\ c = cnt[v]
  BY <1>1, TopFacts
<1>3. /\ v \in held /\ v \in Obj /\ kind[v] = "vector" /\ "CO_FREE_VALS" \in flags[v]
      /\ v # NULL
  BY <1>1, <1>2, TopFacts, TopBuilds
<1>4. c \in Idx /\ c \in Nat /\ DOMAIN elem[v] = 0 .. c - 1
  <2>1. c \in 0 .. MaxCnt
    BY <1>2, <1>3, CntType
  <2> QED BY <1>2, <1>3, <2>1, IdxNat DEF Packed
<1>5. PICK k \in Top.todo : Store(c, ret, c + 1) /\ call' = Handled({k})
  BY <1>2
<1>6. /\ Building \in SUBSET Obj /\ ret \in Building /\ ret \in Obj
      /\ \A q \in Building, j \in Idx : OwnedSlot(q, j) => elem[q][j] \in Building
  BY <1>1, BuildingFacts DEF Inv, StateOK
<1> DEFINE E == {}
           new == Slot(c, ret)
           f == flags
           Fr == Gone(v, E)
<1>7. E \in SUBSET Idx /\ new \in Slots /\ DOMAIN new = {c} /\ new[c] = ret
  BY <1>4, <1>6, SlotType
<1>8. f \in [Obj -> SUBSET Flags] /\ (\A o \in Obj \ {v} : f[o] = flags[o])
      /\ ReplaceF(v, E, new, c + 1, f) /\ f = flags
  BY <1>2, <1>5 DEF Store, Replace, Inv, StateOK
<1>9. Fr = {}
  <2>1. Owned(v, {}) = {} /\ {} \in SUBSET Obj /\ Closed({})
    BY DEF Owned, Closed
  <2> QED BY <2>1, TreeLeast DEF Gone
<1> HIDE DEF f, new, E
<1>10. Fr \in SUBSET Obj /\ Changes(Fr, {}, v) /\ Becomes(v, E, new, c + 1, f)
  BY <1>3, <1>7, <1>8, ReplaceChanges
<1> HIDE DEF Fr
<1>11. Live' = Live /\ \A o \in Obj : o # v => elem'[o] = elem[o]
  <2>1. Live' = (Live \ Fr) \cup {}
    BY <1>10 DEF Changes
  <2>2. \A o \in Obj \ {} : o # v /\ o \notin Fr => Same(o)
    BY <1>10 DEF Changes
  <2> QED BY <1>9, <2>1, <2>2 DEF Same
<1>12. /\ DOMAIN elem'[v] = DOMAIN elem[v] \cup {c} /\ elem'[v][c] = ret
       /\ \A j \in DOMAIN elem[v] : j \in DOMAIN elem'[v] /\ elem'[v][j] = elem[v][j]
  <2>1. elem'[v] = NewSlots(v, E, new)
    BY <1>10 DEF Becomes
  <2>2. c \notin DOMAIN elem[v]
    BY <1>4
  <2> QED BY <1>7, <2>1, <2>2 DEF NewSlots, E
<1>0. PICK S : S = R \cup Building
  OBVIOUS
<1>13. S \subseteq Live
  <2>1. BuildRoots \in SUBSET Obj /\ BuildRoots \subseteq Live
    <3>1. held \subseteq Live
      BY DEF Inv, OneOwner
    <3>2. \A n \in 1 .. Len(call) : call[n].dst \in held \cup {NULL}
      BY DEF Inv, FramesOK
    <3>3. ret \in held
      BY ObjAssumption DEF Inv, FramesOK
    <3> QED BY <3>1, <3>2, <3>3, ObjAssumption, BuildingFacts DEF BuildRoots
  <2>2. Closed(Live) /\ Live \in SUBSET Obj
    <3>1. \A o \in Live, i \in Idx : OwnedSlot(o, i) => elem[o][i] \in Live
      BY DEF Inv, OneOwner, Live
    <3>2. Live \in SUBSET Obj
      BY DEF Live
    <3> QED BY <3>1, <3>2, ClosedBySlots DEF Inv
  <2>3. Building \subseteq Live
    BY <2>1, <2>2, TreeLeast DEF Building
  <2> QED BY <1>0, <2>3 DEF Reads
<1>14. \A y \in S : \A i \in DOMAIN elem[y] : elem[y][i] # NULL => elem[y][i] \in S
  <2> SUFFICES ASSUME NEW y \in S, NEW i \in DOMAIN elem[y], elem[y][i] # NULL
               PROVE  elem[y][i] \in S
    OBVIOUS
  <2>1. CASE y \in R
    BY <1>0, <2>1 DEF Reads, Elems
  <2>2. CASE y \in Building
    <3>1. y \in Obj /\ y \in Live
      BY <1>0, <1>6, <1>13, <2>2
    <3>2. i \in Idx /\ elem[y] # NoSlots
      BY <3>1, SlotsOut, NoSlotsType DEF Inv, StateOK
    <3>3. OwnedSlot(y, i)
      BY <1>1, <2>2, <3>1, <3>2 DEF BuildingOwns, OwnedSlot, Owns
    <3> QED BY <1>0, <1>6, <2>2, <3>2, <3>3
  <2> QED BY <1>0, <2>1, <2>2
<1>15. \A y \in S : \A i \in DOMAIN elem'[y] : elem'[y][i] # NULL => elem'[y][i] \in S
  <2> SUFFICES ASSUME NEW y \in S, NEW i \in DOMAIN elem'[y], elem'[y][i] # NULL
               PROVE  elem'[y][i] \in S
    OBVIOUS
  <2>1. CASE y # v
    BY <1>0, <1>6, <1>11, <1>14, <2>1
  <2>2. CASE y = v /\ i = c
    BY <1>0, <1>6, <1>12, <2>2
  <2>3. CASE y = v /\ i # c
    <3>1. i \in DOMAIN elem[y] /\ elem'[y][i] = elem[y][i]
      BY <1>12, <2>3
    <3> QED BY <1>14, <3>1
  <2> QED BY <2>1, <2>2, <2>3
<1> DEFINE g == [Top EXCEPT !.todo = @ \ {k}]
<1>16. /\ g.src = Top.src /\ g.op = Top.op /\ g.todo = Top.todo \ {k}
       /\ Len(call') = 1 /\ call'[1] = g /\ call' # <<>>
  <2>1. Top \in Frame
    BY <1>1, TopType DEF Inv
  <2>2. Len(call') = 1 /\ call'[1] = g
    BY <1>1, <1>5, HandledFrames DEF Inv
  <2>3. g.src = Top.src /\ g.op = Top.op /\ g.todo = Top.todo \ {k}
    BY <2>1 DEF Frame
  <2> HIDE DEF g
  <2> QED BY <2>2, <2>3
<1> HIDE DEF g
<1>17. ASSUME NEW n \in 1 .. Len(call') PROVE n = 1
  <2> DEFINE m == Len(call')
  <2>1. m = 1 /\ n \in 1 .. m
    BY <1>16, <1>17
  <2> HIDE DEF m
  <2> QED BY <2>1
<1>18. Top.src \in R /\ Top.todo \subseteq DOMAIN elem[Top.src] /\ Top.src \in Obj
  BY <1>1 DEF Reads, FramesRead
<1>19. FramesRead'
  <2>1. g.todo \subseteq DOMAIN elem'[g.src]
    BY <1>11, <1>12, <1>16, <1>18
  <2> QED BY <1>16, <1>17, <2>1 DEF FramesRead
<1>20. Building' = {}
  <2>1. BuildRoots' = {}
    BY <1>1, <1>16, <1>17, ObjAssumption DEF BuildRoots
  <2>2. \A q \in {} : OwnsNext(q, {})
    OBVIOUS
  <2> QED BY <2>1, <2>2, BuildingNext
<1>21. Reads(S)'
  <2>1. S \subseteq Live' /\ S \cap Building' = {}
    BY <1>11, <1>13, <1>20
  <2>2. \A n \in 1 .. Len(call') : call'[n].src \in S
    BY <1>16, <1>17, <1>0, <1>18
  <2> QED BY <1>15, <2>1, <2>2 DEF Reads, Elems
<1>22. BuildingOwns'
  BY <1>20 DEF BuildingOwns
<1>23. S \in SUBSET Obj
  BY <1>0, <1>6
<1> QED BY <1>19, <1>21, <1>22, <1>23 DEF Sources, Reads, Elems

\* What the application can read is closed, and exists.
LEMMA ReadableReads ==
  ASSUME Inv, NEW e \in Obj, Readable(e), call = <<>>
  PROVE  Reach(e) \in SUBSET Obj /\ e \in Reach(e) /\ Reads(Reach(e))
<1>1. Reach(e) \in SUBSET Obj /\ e \in Reach(e)
  BY DEF Reach
<1>2. Building = {} /\ Len(call) = 0
  BY BuildingFacts
<1>3. Reach(e) \subseteq Live
  BY DEF Readable
<1>4. \A y \in Reach(e) : Elems(y) \subseteq Reach(e)
  <2> SUFFICES ASSUME NEW y \in Reach(e), NEW x \in Elems(y) PROVE x \in Reach(e)
    OBVIOUS
  <2>1. x \in Obj
    BY <1>1, SlotsOut DEF Elems, Inv, StateOK
  <2> QED BY <2>1 DEF Reach
<1> QED BY <1>1, <1>2, <1>3, <1>4 DEF Reads

\* A call of the application.
LEMMA AppSources ==
  ASSUME Inv, Inv', Shape, Sources, AppStep PROVE Sources'
<1>1. ASSUME NEW e \in Obj, Readable(e), Idle
      PROVE  /\ SourcesBefore(Reach(e)) /\ Reach(e) \in SUBSET Obj
             /\ e \in Reach(e) /\ call = <<>>
  BY <1>1, ReadableReads DEF SourcesBefore, Sources, Idle
<1>2. ASSUME NEW e \in Obj, StartClone(e) PROVE Sources'
  <2>1. Readable(e) /\ Idle /\ coClone(e)
    BY <1>2 DEF StartClone
  <2>2. PICK R \in SUBSET Obj : SourcesBefore(R) /\ e \in R
    BY <1>1, <2>1
  <2> QED BY <2>1, <2>2, CloneSources
<1>3. ASSUME NEW m \in Obj, coNewVectorByMap(m) PROVE Sources'
  <2>1. Readable(m) /\ Idle /\ Enter("coNewVectorByMap", m, "vector", {"CO_FREE_VALS"})
    BY <1>3 DEF coNewVectorByMap
  <2>2. PICK R \in SUBSET Obj : SourcesBefore(R) /\ m \in R /\ call = <<>>
    BY <1>1, <2>1
  <2>3. /\ "coNewVectorByMap" \in Ops \ {"coVectorAppendVector"}
        /\ "vector" \in Kinds \ {"free"}
    BY DEF Ops, Kinds
  <2> QED BY <2>1, <2>2, <2>3, EnterSources
<1>4. ASSUME NEW v \in Obj, NEW src \in Obj, coVectorAppendVector(v, src)
      PROVE  Sources'
  <2>1. /\ Readable(src) /\ Idle /\ UNCHANGED heap /\ ret' = Pending
        /\ call' = Push("coVectorAppendVector", src, v, cnt[v], 0)
    BY <1>4 DEF coVectorAppendVector, Idle
  <2>2. PICK R \in SUBSET Obj : SourcesBefore(R) /\ src \in R /\ call = <<>>
    BY <1>1, <2>1
  <2>3. /\ "coVectorAppendVector" \in Ops /\ v \in Dst /\ cnt[v] \in 0 .. MaxCnt
        /\ 0 \in Idx
    BY CntType, IdxNat, BoundAssumption DEF Ops, Dst
  <2> DEFINE op == "coVectorAppendVector"
  <2>4. op = "coVectorAppendVector"
    OBVIOUS
  <2> HIDE DEF op
  <2>5. CallNext(R, Building)
    BY <2>1, <2>2, <2>3, <2>4, CallEnters DEF SourcesBefore
  <2> QED BY <2>1, <2>2, <2>5, StillSources DEF SourcesBefore
<1>5. CASE Idle /\ call' = call
  BY <1>5, SourcesIdle DEF Idle
<1>6. \/ Idle /\ call' = call
      \/ \E e \in Obj : StartClone(e)
      \/ \E v, src \in Obj : coVectorAppendVector(v, src)
      \/ \E m \in Obj : coNewVectorByMap(m)
  BY DEF AppStep, coNewLeaf, coNewVector, coNewMap, coDelete, coVectorAdd, coVectorSet,
         coVectorEraseLast, coVectorClear, coMapAdd, coMapErase, coMapClear
<1> QED BY <1>2, <1>3, <1>4, <1>5, <1>6

\* A step of the library.
LEMMA LibSources ==
  ASSUME Inv, Inv', Shape, Sources, LibStep PROVE Sources'
<1>1. PICK R \in SUBSET Obj : SourcesBefore(R)
  BY DEF Sources, SourcesBefore
<1>2. ASSUME call # <<>>, Top.op \in AtBottom, call' = Below PROVE Sources'
  <2>1. Len(call) = 1
    BY <1>2, TopType DEF Inv, Sources, FramesRead, Top
  <2>2. call' = <<>>
    BY <1>2, <2>1, BelowType DEF Inv
  <2> QED BY <2>2, SourcesIdle
<1>3. CASE AppendRollback \/ AppendFinish \/ ByMapFail
  BY <1>2, <1>3 DEF AppendRollback, AppendFinish, ByMapFail, Return, Running, AtBottom
<1>4. CASE Received
  BY <1>4, SourcesIdle DEF Received
<1> QED BY <1>1, <1>3, <1>4, CloneElemSources, VectorMapAddSources, VectorMapFailSources,
           MapCloneAddSources, SkipSources, MapCloneFailSources, HaltSources,
           AppendAddSources, ByMapAddSources, FinishSources
           DEF LibStep

\* the invariant with what the running calls read
SourcesInv == AccountInv /\ Sources

\* What coClone, coVectorAppendVector and coNewVectorByMap build stays apart from
\* the set of objects they still have to read, so that no error path of theirs
\* (co.c:237-257, 345-351, 1039-1048, 1138-1156) frees what another call reads.
THEOREM SourcesInvariant == Spec => []SourcesInv
<1>1. Init => SourcesInv
  <2>1. ASSUME Init PROVE Sources
    <3>1. 1 .. Len(call) = {} /\ call = <<>>
      BY <2>1 DEF Init
    <3>2. Reads({}) /\ {} \in SUBSET Obj
      BY <3>1 DEF Reads
    <3> QED BY <3>1, <3>2 DEF Sources, FramesRead, BuildingOwns
  <2> QED BY <2>1, InitAccount DEF SourcesInv
<1>2. SourcesInv /\ [Next]_vars => SourcesInv'
  <2> SUFFICES ASSUME SourcesInv, [Next]_vars PROVE SourcesInv'
    OBVIOUS
  <2> USE DEF SourcesInv
  <2>1. CASE Next
    <3>1. AccountInv'
      BY <2>1, NextAccount
    <3> QED BY <2>1, <3>1, AppSources, LibSources DEF Next, AccountInv
  <2>2. CASE UNCHANGED vars
    <3>1. AccountInv'
      BY <2>2, StutterAccount
    <3>2. Sources'
      <4>1. BuildRoots' = BuildRoots /\ Live' = Live /\ UNCHANGED <<elem, call, flags>>
        BY <2>2 DEF vars, heap, BuildRoots, Live
      <4>2. Building' = Building
        BY <4>1 DEF Building, Tree, Closed, Owned, Owns
      <4> QED BY <4>1, <4>2
              DEF Sources, FramesRead, BuildingOwns, Reads, Elems
    <3> QED BY <3>1, <3>2
  <2> QED BY <2>1, <2>2
<1> QED BY <1>1, <1>2, PTL DEF Spec

\* coClone, coVectorAppendVector and coNewVectorByMap read no container after
\* it was deleted and no slot that it has lost, whatever is cloned, whichever
\* allocation fails, and also when a vector is appended to itself.
THEOREM WhatIsReadLives == Spec => []SourceLives
<1>1. SourcesInv => SourceLives
  BY DEF SourcesInv, Sources, FramesRead, Reads, SourceLives
<1> QED BY <1>1, SourcesInvariant, PTL

-----------------------------------------------------------------------------
(* Without memory errors *)

\* No slot, no result and no new container is NULL.
\* no container refers to NULL
SlotsFull == \A o \in Obj : \A i \in DOMAIN elem[o] : elem[o][i] # NULL
\* nothing went wrong so far
NoFailure == /\ lost = {} /\ ret # NULL /\ SlotsFull
             /\ \A n \in 1 .. Len(call) : call[n].dst # NULL

\* Deleting and filling slots.
LEMMA FreeFull ==
  ASSUME SlotsFull, NEW T, NEW e, NEW c, NEW f, Free(T, e, c, f),
         \A o \in Obj : \A i \in DOMAIN e[o] : e[o][i] # NULL
  PROVE  SlotsFull'
<1>1. \A o \in Obj : elem'[o] = IF o \in T THEN NoSlots ELSE e[o]
  BY DEF Free
<1> QED BY <1>1, NoSlotsType DEF SlotsFull

\* Without memory errors every slot is filled with an object.
LEMMA ReplaceFull ==
  ASSUME StateOK, SlotsFull, NEW v \in Obj, NEW D, NEW new, NEW n, NEW f,
         \A i \in DOMAIN new : new[i] # NULL, ReplaceF(v, D, new, n, f)
  PROVE  SlotsFull'
<1> DEFINE e == [elem EXCEPT ![v] = NewSlots(v, D, new)]
           T == Tree(Owned(v, D))
           c == [cnt EXCEPT ![v] = n]
<1>1. Free(T, e, c, f)
  BY DEF ReplaceF, NewSlots
<1>2. e[v] = NewSlots(v, D, new) /\ \A o \in Obj \ {v} : e[o] = elem[o]
  BY DEF StateOK
<1> HIDE DEF e, T, c
<1>3. \A i \in DOMAIN e[v] : e[v][i] # NULL
  <2>1. DOMAIN e[v] = (DOMAIN elem[v] \ D) \cup DOMAIN new
    BY <1>2 DEF NewSlots
  <2>2. \A i \in DOMAIN e[v] : e[v][i] = IF i \in DOMAIN new THEN new[i] ELSE elem[v][i]
    BY <1>2, <2>1 DEF NewSlots
  <2> QED BY <2>1, <2>2 DEF SlotsFull
<1>4. \A o \in Obj : \A i \in DOMAIN e[o] : e[o][i] # NULL
  BY <1>2, <1>3 DEF SlotsFull
<1> QED BY <1>1, <1>4, FreeFull

\* An element that the application stores.
LEMMA StoreFull ==
  ASSUME Inv, SlotsFull, ~StoreNull, NEW v \in Obj, NEW i, NEW p, MayStore(v, i, p),
         NEW D, NEW n, Replace(v, D, Slot(i, p), n)
  PROVE  SlotsFull'
<1>1. p # NULL
  BY ObjAssumption DEF MayStore, Inv, StateOK, Live
<1> DEFINE new == Slot(i, p)
           f == flags
<1>2. \A j \in DOMAIN new : new[j] # NULL
  BY <1>1 DEF Slot
<1>3. ReplaceF(v, D, new, n, f)
  BY DEF Replace
<1> HIDE DEF new, f
<1> QED BY <1>2, <1>3, ReplaceFull DEF Inv

\* Slots that are emptied.
LEMMA EmptyFull ==
  ASSUME Inv, SlotsFull, NEW v \in Obj, NEW D, NEW n, NEW f, ReplaceF(v, D, NoSlots, n, f)
  PROVE  SlotsFull'
<1>1. \A j \in DOMAIN NoSlots : NoSlots[j] # NULL
  BY NoSlotsType
<1> QED BY <1>1, ReplaceFull DEF Inv

\* A frame more, one less, or fewer slots to handle.
LEMMA CallFull ==
  ASSUME Inv, \A n \in 1 .. Len(call) : call[n].dst # NULL, call # <<>>,
         NEW D, call' = Handled(D) \/ call' = Below
  PROVE  \A n \in 1 .. Len(call') : call'[n].dst # NULL
<1>1. Len(call) \in Nat \ {0} /\ Top \in Frame /\ Top.dst # NULL
  <2>1. Len(call) \in 1 .. Len(call) /\ Top \in Frame
    BY TopType DEF Inv
  <2> QED BY <2>1 DEF Top
<1>2. CASE call' = Handled(D)
  <2> DEFINE g == [Top EXCEPT !.todo = @ \ D]
  <2>1. g.dst = Top.dst
    BY <1>1 DEF Frame
  <2>2. /\ Len(call') = Len(call) /\ \A n \in 1 .. Len(call) - 1 : call'[n] = call[n]
        /\ call'[Len(call)] = g
    BY <1>2, HandledFrames DEF Inv
  <2> HIDE DEF g
  <2>3. \A n \in 1 .. Len(call') : n \in 1 .. Len(call) - 1 \/ n = Len(call)
    BY <1>1, <2>2
  <2>4. \A n \in 1 .. Len(call) - 1 : n \in 1 .. Len(call)
    BY <1>1
  <2> QED BY <1>1, <2>1, <2>2, <2>3, <2>4
<1>3. CASE call' = Below
  <2>1. Len(call') = Len(call) - 1 /\ \A n \in 1 .. Len(call') : call'[n] = call[n]
    BY <1>3, BelowType DEF Inv
  <2> QED BY <1>1, <2>1
<1> QED BY <1>2, <1>3

LEMMA PushFull ==
  ASSUME Inv, \A n \in 1 .. Len(call) : call[n].dst # NULL,
         NEW op \in Ops, NEW src \in Obj, NEW dst \in Obj, NEW old \in 0 .. MaxCnt,
         NEW root \in Idx, call' = Push(op, src, dst, old, root)
  PROVE  \A n \in 1 .. Len(call') : call'[n].dst # NULL
<1> DEFINE g == [op |-> op, src |-> src, dst |-> dst, todo |-> DOMAIN elem[src],
                 old |-> old, root |-> root]
<1>1. call \in Seq(Frame) /\ Len(call) \in Nat
  BY DEF Inv, StateOK
<1>2. g \in Frame
  <2>1. DOMAIN elem[src] \subseteq Idx
    BY SlotsOut DEF Inv, StateOK
  <2> QED BY <2>1 DEF Frame, Ops
<1>3. call' = Append(call, g) /\ g.dst # NULL
  BY ObjAssumption DEF Push
<1> HIDE DEF g
<1>4. /\ Len(call') = Len(call) + 1
      /\ \A n \in 1 .. Len(call) : call'[n] = call[n]
      /\ call'[Len(call) + 1] = g
  BY <1>1, <1>2, <1>3
<1>5. \A n \in 1 .. Len(call') : n \in 1 .. Len(call) \/ n = Len(call) + 1
  BY <1>1, <1>4
<1> QED BY <1>3, <1>4, <1>5

LEMMA EnterFull ==
  ASSUME Inv, NoFailure, ~oom, NEW op \in Ops, NEW src \in Obj, NEW k, NEW f,
         Enter(op, src, k, f)
  PROVE  NoFailure'
<1>1. PICK root \in Roots(src), o \in Obj :
        Alloc(o, k, f) /\ call' = Push(op, src, o, 0, root)
  BY DEF Enter
<1>2. root \in Idx /\ 0 \in 0 .. MaxCnt /\ ret' = Pending /\ lost' = lost
  <2>1. elem[src] \in Slots
    BY DEF Inv, StateOK
  <2> QED BY <1>1, <2>1, SlotsOut, IdxNat, BoundAssumption DEF Roots, Enter
<1>3. \A n \in 1 .. Len(call') : call'[n].dst # NULL
  BY <1>1, <1>2, PushFull DEF NoFailure
<1>4. elem' = elem
  BY <1>1 DEF Alloc
<1> QED BY <1>2, <1>3, <1>4, ObjAssumption DEF NoFailure, SlotsFull

LEMMA CloneFull ==
  ASSUME Inv, NoFailure, ~oom, NEW e \in Obj, coClone(e)
  PROVE  NoFailure'
<1>1. CASE CloneLeaf(e)
  <2>1. PICK o \in Obj : Alloc(o, kind[e], {}) /\ ret' = o /\ UNCHANGED <<lost, call>>
    BY <1>1 DEF CloneLeaf
  <2> QED BY <2>1, ObjAssumption DEF Alloc, NoFailure, SlotsFull
<1>2. CASE Enter("coVectorMap", e, "vector", {"CO_FREE_VALS"})
  <2>1. "coVectorMap" \in Ops
    BY DEF Ops
  <2> QED BY <1>2, <2>1, EnterFull
<1>3. CASE Enter("coMapClone", e, "map", flags[e] \cup {"CO_FREE_VALS"})
  <2>1. "coMapClone" \in Ops
    BY DEF Ops
  <2> QED BY <1>3, <2>1, EnterFull
<1> QED BY <1>1, <1>2, <1>3 DEF coClone

LEMMA AppFull ==
  ASSUME Inv, NoFailure, ~oom, ~StoreNull, AppStep PROVE NoFailure'
<1> SUFFICES ASSUME Idle, UNCHANGED <<call, ret, lost>> PROVE SlotsFull'
  <2>1. CASE Idle /\ UNCHANGED <<call, ret, lost>>
    BY <2>1 DEF NoFailure
  <2>2. ASSUME NEW v \in Obj, NEW src \in Obj, coVectorAppendVector(v, src)
        PROVE  NoFailure'
    <3>1. /\ UNCHANGED <<heap, ret, lost>> /\ cnt[v] \in 0 .. MaxCnt /\ 0 \in Idx
          /\ "coVectorAppendVector" \in Ops
          /\ call' = Push("coVectorAppendVector", src, v, cnt[v], 0)
      BY <2>2, CntType, IdxNat, BoundAssumption DEF coVectorAppendVector, Ops
    <3>2. \A n \in 1 .. Len(call') : call'[n].dst # NULL
      BY <3>1, PushFull DEF NoFailure
    <3> QED BY <3>1, <3>2 DEF NoFailure, SlotsFull, heap
  <2>3. ASSUME NEW m \in Obj, coNewVectorByMap(m) PROVE NoFailure'
    <3>1. "coNewVectorByMap" \in Ops
      BY DEF Ops
    <3> QED BY <2>3, <3>1, EnterFull DEF coNewVectorByMap
  <2>4. ASSUME NEW e \in Obj, StartClone(e) PROVE NoFailure'
    BY <2>4, CloneFull DEF StartClone
  <2>5. \/ Idle /\ UNCHANGED <<call, ret, lost>>
        \/ \E e \in Obj : StartClone(e)
        \/ \E v, src \in Obj : coVectorAppendVector(v, src)
        \/ \E m \in Obj : coNewVectorByMap(m)
    BY DEF AppStep, coNewLeaf, coNewVector, coNewMap, coDelete, coVectorAdd, coVectorSet,
           coVectorEraseLast, coVectorClear, coMapAdd, coMapErase, coMapClear
  <2> QED BY <2>1, <2>2, <2>3, <2>4, <2>5
<1> USE DEF NoFailure
<1>1. ASSUME NEW o, NEW k, NEW f, Alloc(o, k, f) PROVE SlotsFull'
  BY <1>1 DEF Alloc, SlotsFull
<1>2. ASSUME NEW o \in Obj, coDelete(o) PROVE SlotsFull'
  BY <1>2, FreeFull DEF coDelete, SlotsFull
<1>3. ASSUME NEW v \in Obj, NEW p, coVectorAdd(v, p) PROVE SlotsFull'
  BY <1>3, StoreFull DEF coVectorAdd
<1>4. ASSUME NEW v \in Obj, NEW p, NEW i, coVectorSet(v, i, p) PROVE SlotsFull'
  BY <1>4, StoreFull DEF coVectorSet
<1>5. ASSUME NEW v \in Obj, NEW p, NEW i, coMapAdd(v, i, p) PROVE SlotsFull'
  BY <1>5, StoreFull DEF coMapAdd
<1>6. ASSUME NEW v \in Obj, coVectorEraseLast(v) PROVE SlotsFull'
  BY <1>6, EmptyFull DEF coVectorEraseLast
<1>7. ASSUME NEW v \in Obj, coVectorClear(v) \/ coMapClear(v) PROVE SlotsFull'
  BY <1>7, EmptyFull DEF coVectorClear, coMapClear, Replace
<1>8. ASSUME NEW v \in Obj, NEW i, coMapErase(v, i) PROVE SlotsFull'
  BY <1>8, EmptyFull DEF coMapErase, Replace
<1>9. ASSUME NEW o, NEW k, coNewLeaf(o, k) \/ coNewVector(o, k) \/ coNewMap(o, k)
      PROVE  SlotsFull'
  BY <1>1, <1>9 DEF coNewLeaf, coNewVector, coNewMap
<1>10. CASE \E e \in Obj : StartClone(e)
  BY <1>10, CloneFull DEF StartClone
<1>11. CASE \E v, src \in Obj : coVectorAppendVector(v, src)
  BY <1>11 DEF coVectorAppendVector, heap, SlotsFull
<1>12. CASE \E m \in Obj : coNewVectorByMap(m)
  <2>1. "coNewVectorByMap" \in Ops
    BY DEF Ops
  <2> QED BY <1>12, <2>1, EnterFull DEF coNewVectorByMap
<1> QED BY <1>2, <1>3, <1>4, <1>5, <1>6, <1>7, <1>8, <1>9, <1>10, <1>11, <1>12
        DEF AppStep

\* The slot of the source that is handled next is full.
LEMMA NextIsFull ==
  ASSUME Inv, FramesRead, SlotsFull, call # <<>>, NEW k \in Top.todo
  PROVE  elem[Top.src][k] # NULL
<1>1. Len(call) \in 1 .. Len(call) /\ Top.src \in Obj
  BY TopType DEF Inv
<1>2. k \in DOMAIN elem[Top.src]
  BY <1>1 DEF FramesRead, Top
<1> QED BY <1>1, <1>2 DEF SlotsFull

\* A clone is stored.
LEMMA LibStoreFull ==
  ASSUME Inv, NoFailure, call # <<>>, NEW i, NEW n, ret # Pending,
         Store(i, ret, n), NEW D, call' = Handled(D), ret' = Pending
  PROVE  NoFailure'
<1> DEFINE v == Top.dst
           new == Slot(i, ret)
           f == flags
           E == {}
<1>1. v \in Obj
  <2>1. Len(call) \in 1 .. Len(call) /\ v \in Obj \cup {NULL}
    BY TopType DEF Inv
  <2> QED BY <2>1 DEF NoFailure, Top
<1>2. \A j \in DOMAIN new : new[j] # NULL
  BY DEF NoFailure, Slot
<1>3. ReplaceF(v, E, new, n, f) /\ lost' = lost
  BY DEF Store, Replace
<1> HIDE DEF v, new, f, E
<1>4. SlotsFull'
  BY <1>1, <1>2, <1>3, ReplaceFull DEF Inv, NoFailure
<1>5. \A m \in 1 .. Len(call') : call'[m].dst # NULL
  BY CallFull DEF NoFailure
<1> QED BY <1>3, <1>4, <1>5, ObjAssumption DEF NoFailure

LEMMA ByMapAddFull ==
  ASSUME Inv, FramesRead, NoFailure, ~oom, ByMapAdd PROVE NoFailure'
<1> USE DEF ByMapAdd, NoFailure
<1>1. call # <<>> /\ Top.dst \in Obj
  BY TopFacts DEF Running
<1>2. PICK k \in Top.todo, p \in Obj, s, value \in Obj \cup {NULL} :
        AddPair(k, p, s, value)
  OBVIOUS
<1>3. s # NULL /\ value # NULL /\ p # NULL /\ call' = Handled({k})
  BY <1>1, <1>2, NextIsFull, ObjAssumption DEF AddPair
<1>4. \A m \in 1 .. Len(call') : call'[m].dst # NULL
  BY <1>1, <1>3, CallFull
<1>5. SlotsFull'
  <2>1. PICK d, c : d \in Obj /\ d = Top.dst /\ c = cnt[d]
    BY <1>1
  <2>2. d # p
    BY <1>1, <1>2, <2>1, TopHeld DEF AddPair, Inv, OneOwner, Live
  <2>3. /\ elem'[p] = Pair(s, value) /\ elem'[d] = With(elem[d], c, p)
        /\ \A o \in Obj \ {p, d} : elem'[o] = elem[o]
    <3>1. elem' = [elem EXCEPT ![p] = Pair(s, value), ![d] = With(elem[d], c, p)]
      BY <1>2, <2>1, <2>2 DEF AddPair, Inv, StateOK
    <3> QED BY <2>1, <2>2, <3>1 DEF Inv, StateOK
  <2>4. \A i \in DOMAIN elem'[p] : elem'[p][i] # NULL
    BY <1>3, <2>3 DEF Pair
  <2>5. \A i \in DOMAIN elem'[d] : elem'[d][i] # NULL
    BY <1>3, <2>1, <2>3 DEF With, SlotsFull
  <2> QED BY <2>1, <2>3, <2>4, <2>5 DEF SlotsFull
<1> QED BY <1>4, <1>5

LEMMA LibFull ==
  ASSUME Inv, FramesRead, NoFailure, ~oom, LibStep PROVE NoFailure'
<1>1. call # <<>> => Top.dst # NULL
  <2>1. call # <<>> => Len(call) \in 1 .. Len(call)
    BY TopType DEF Inv
  <2> QED BY <2>1 DEF NoFailure, Top
<1>2. CASE CloneElem
  <2>1. PICK k \in Top.todo, e \in Obj \cup {NULL} :
          /\ e = elem[Top.src][k]
          /\ e # NULL => coClone(e)
    BY <1>2 DEF CloneElem
  <2>2. call # <<>>
    BY <1>2 DEF CloneElem, Running
  <2>3. e # NULL
    BY <2>1, <2>2, NextIsFull DEF NoFailure
  <2> QED BY <2>1, <2>3, CloneFull
<1>3. CASE VectorMapAdd \/ MapCloneAdd \/ AppendAdd
  BY <1>3, LibStoreFull DEF VectorMapAdd, MapCloneAdd, AppendAdd, Running
<1>4. CASE Finish \/ AppendFinish
  <2>1. /\ call # <<>> /\ call' = Below /\ UNCHANGED <<heap, lost>>
        /\ ret' \in {Top.dst, Pending}
    BY <1>4 DEF Finish, AppendFinish, Running, Return
  <2>2. \A m \in 1 .. Len(call') : call'[m].dst # NULL
    BY <2>1, CallFull DEF NoFailure
  <2> QED BY <1>1, <2>1, <2>2, ObjAssumption DEF NoFailure, SlotsFull, heap
<1>5. CASE CloneHalts \/ ByMapHalts \/ Received
  BY <1>5, ObjAssumption
     DEF CloneHalts, ByMapHalts, Halt, Received, NoFailure, SlotsFull, heap
<1>6. CASE \/ VectorMapFail \/ MapCloneSkip \/ MapCloneFail \/ AppendRollback
           \/ ByMapSkip \/ ByMapFail
  BY <1>6 DEF VectorMapFail, MapCloneSkip, MapCloneFail, AppendRollback, ByMapSkip,
              ByMapFail, AddFails, NoFailure
<1> QED BY <1>2, <1>3, <1>4, <1>5, <1>6, ByMapAddFull DEF LibStep

\* Without memory errors, and when no NULL is stored, nothing is lost: neither
\* coClone nor coVectorAppendVector nor coNewVectorByMap drops an object.
THEOREM NothingIsLost ==
  ASSUME ~StoreNull
  PROVE  Spec => []NothingLost
<1>1. Init => (~oom => NoFailure)
  BY ObjAssumption, NoSlotsType DEF Init, NoFailure, SlotsFull
<1>2. SourcesInv /\ (~oom => NoFailure) /\ [Next]_vars => (~oom => NoFailure)'
  <2> SUFFICES ASSUME SourcesInv, ~oom => NoFailure, [Next]_vars, ~oom'
               PROVE  NoFailure'
    OBVIOUS
  <2>1. ~oom /\ NoFailure
    BY DEF Next, vars
  <2>2. ASSUME Next PROVE NoFailure'
    BY <2>1, <2>2, AppFull, LibFull DEF Next, SourcesInv, AccountInv, Sources
  <2>3. ASSUME UNCHANGED vars PROVE NoFailure'
    BY <2>1, <2>3 DEF vars, heap, NoFailure, SlotsFull
  <2> QED BY <2>2, <2>3
<1>3. (~oom => NoFailure) => NothingLost
  BY DEF NoFailure, NothingLost
<1> QED BY <1>1, <1>2, <1>3, SourcesInvariant, PTL DEF Spec
-----------------------------------------------------------------------------
(* Clones are deep copies *)

CloneOps == {"coVectorMap", "coMapClone"}

\* x is the element of its source that the frame f handles next
NextElem(f, x) == \E k \in f.todo : (\A j \in f.todo : k <= j) /\ x = elem[f.src][k]

\* the slots of x refer to objects of T, which m maps to those in the same slots
\* of the object that x is made from
SlotsCopied(T, m, x) ==
  \A i \in DOMAIN elem[x] :
    /\ i \in DOMAIN elem[m[x]] /\ elem[x][i] \in T
    /\ elem[m[x]][i] = m[elem[x][i]]

\* T is made from R, which is closed and apart from it, and owns its elements
Mapped(R, T, m) ==
  /\ R \subseteq Live /\ T \subseteq Live /\ R \cap T = {}
  /\ \A y \in R : \A i \in DOMAIN elem[y] : elem[y][i] \in R
  /\ \A x \in T : /\ m[x] \in R /\ kind[x] = kind[m[x]]
                  /\ SlotsCopied(T, m, x)
                  /\ elem[x] = NoSlots \/ "CO_FREE_VALS" \in flags[x]

\* What the frame f builds has the slots of its source that are handled.
FrameCopies(f, R, T, m) ==
  /\ f.src \in Live \ T
  /\ f.op \in CloneOps => /\ f.src \in R /\ f.dst \in T /\ m[f.dst] = f.src
                          /\ DOMAIN elem[f.dst] = DOMAIN elem[f.src] \ f.todo

\* All else that was made is complete; a frame was called for the element that
\* the frame below handles.
FramesCopy(R, T, m) ==
  /\ \A n \in 1 .. Len(call) : FrameCopies(call[n], R, T, m)
  /\ \A x \in T : \/ DOMAIN elem[x] = DOMAIN elem[m[x]]
                  \/ \E n \in 1 .. Len(call) : call[n].dst = x
  /\ \A n \in 1 .. Len(call) - 1 :
       call[n].op # "coNewVectorByMap" /\ NextElem(call[n], call[n + 1].src)

\* What was returned to the frame on top is made from the element it handles.
ResultCopies(T, m) ==
  call # <<>> /\ ret # Pending =>
    /\ Top.op # "coNewVectorByMap"
    /\ ret \in T /\ DOMAIN elem[ret] = DOMAIN elem[m[ret]] /\ NextElem(Top, m[ret])

CopiesFrom(R, T, m) == Mapped(R, T, m) /\ FramesCopy(R, T, m) /\ ResultCopies(T, m)

Copied == \E R, T \in SUBSET Obj, m \in [Obj -> Obj] : CopiesFrom(R, T, m)

\* A leaf has no slots.
LeavesBare == \A o \in Obj : kind[o] \in Leaves => elem[o] = NoSlots

\* What a complete object owns is a deep copy of what it was made from.
LEMMA MappedDeep ==
  ASSUME Inv, SlotsFull, NEW R \in SUBSET Obj, NEW T \in SUBSET Obj, NEW m \in [Obj -> Obj],
         Mapped(R, T, m), NEW b \in T,
         \A x \in T : x = b \/ x \in Tree({b}) => DOMAIN elem[x] = DOMAIN elem[m[x]]
  PROVE  DeepCopy(m[b], b)
<1> DEFINE B == {b}
           S == Tree(B)
           w == [x \in S |-> m[x]]
<1>1. B \in SUBSET Obj /\ b \in S /\ S \in SUBSET Obj
  <2>1. {b} \in SUBSET Obj
    OBVIOUS
  <2> QED BY <2>1, TreeContains DEF Tree
<1>2. S \subseteq T
  <2>1. \A x \in T, i \in Idx : OwnedSlot(x, i) => elem[x][i] \in T
    BY DEF OwnedSlot, Mapped, SlotsCopied
  <2>2. Closed(T)
    BY <2>1, ClosedBySlots DEF Inv
  <2> QED BY <1>1, <2>2, TreeLeast
<1>3. ASSUME NEW x \in S, NEW i \in DOMAIN elem[x]
      PROVE  /\ elem[x][i] # NULL /\ elem[x][i] \in S
             /\ elem[m[x]][i] = m[elem[x][i]]
  <2>1. x \in T /\ x \in Obj /\ x \in Live /\ elem[x] # NoSlots
    BY <1>1, <1>2, <1>3, NoSlotsType DEF Mapped
  <2>2. i \in Idx /\ elem[x][i] # NULL
    BY <2>1, SlotsOut DEF Inv, StateOK, SlotsFull
  <2>3. OwnedSlot(x, i)
    BY <2>1, <2>2 DEF Mapped, OwnedSlot, Owns
  <2>4. elem[x][i] \in T /\ elem[m[x]][i] = m[elem[x][i]]
    BY <2>1 DEF Mapped, SlotsCopied
  <2> HIDE DEF B
  <2>5. elem[x][i] \in S
    BY <1>1, <2>2, <2>3, <2>4, TreeClosed
  <2> QED BY <2>2, <2>4, <2>5
<1>4. \A x \in S : /\ m[x] \in Obj \ S /\ w[x] = m[x] /\ kind[x] = kind[m[x]]
                   /\ DOMAIN elem[x] = DOMAIN elem[m[x]]
  <2> SUFFICES ASSUME NEW x \in S
               PROVE  /\ m[x] \in Obj \ S /\ kind[x] = kind[m[x]]
                      /\ DOMAIN elem[x] = DOMAIN elem[m[x]]
    OBVIOUS
  <2>1. x \in T
    BY <1>2
  <2>2. m[x] \in R /\ kind[x] = kind[m[x]] /\ R \cap T = {}
    BY <2>1 DEF Mapped
  <2> QED BY <1>1, <1>2, <2>1, <2>2
<1>5. w \in [S -> Obj \ S]
  BY <1>4
<1> HIDE DEF w, S
<1>6. w[b] = m[b] /\ S = Tree({b})
  BY <1>1, <1>4 DEF S
<1>7. \A x \in S :
        /\ kind[x] = kind[w[x]] /\ DOMAIN elem[x] = DOMAIN elem[w[x]]
        /\ \A i \in DOMAIN elem[x] :
             IF elem[x][i] = NULL THEN elem[w[x]][i] = NULL
             ELSE elem[x][i] \in S /\ elem[w[x]][i] = w[elem[x][i]]
  BY <1>3, <1>4
<1> HIDE DEF B
<1>8. w \in [Tree({b}) -> Obj \ Tree({b})] /\ w[b] = m[b]
  BY <1>5, <1>6
<1>9. \A x \in Tree({b}) :
        /\ kind[x] = kind[w[x]] /\ DOMAIN elem[x] = DOMAIN elem[w[x]]
        /\ \A i \in DOMAIN elem[x] :
             IF elem[x][i] = NULL THEN elem[w[x]][i] = NULL
             ELSE elem[x][i] \in Tree({b}) /\ elem[w[x]][i] = w[elem[x][i]]
  BY <1>6, <1>7
<1> QED BY <1>8, <1>9 DEF DeepCopy

\* The same after a step.
NextElemNext(f, x) ==
  \E k \in f.todo : (\A j \in f.todo : k <= j) /\ x = elem'[f.src][k]
SlotsCopiedNext(T, m, x) ==
  \A i \in DOMAIN elem'[x] :
    /\ i \in DOMAIN elem'[m[x]] /\ elem'[x][i] \in T
    /\ elem'[m[x]][i] = m[elem'[x][i]]
MappedNext(R, T, m) ==
  /\ R \subseteq Live' /\ T \subseteq Live' /\ R \cap T = {}
  /\ \A y \in R : \A i \in DOMAIN elem'[y] : elem'[y][i] \in R
  /\ \A x \in T : /\ m[x] \in R /\ kind'[x] = kind'[m[x]]
                  /\ SlotsCopiedNext(T, m, x)
                  /\ elem'[x] = NoSlots \/ "CO_FREE_VALS" \in flags'[x]
FrameCopiesNext(f, R, T, m) ==
  /\ f.src \in Live' \ T
  /\ f.op \in CloneOps => /\ f.src \in R /\ f.dst \in T /\ m[f.dst] = f.src
                          /\ DOMAIN elem'[f.dst] = DOMAIN elem'[f.src] \ f.todo
FramesCopyNext(R, T, m) ==
  /\ \A n \in 1 .. Len(call') : FrameCopiesNext(call'[n], R, T, m)
  /\ \A x \in T : \/ DOMAIN elem'[x] = DOMAIN elem'[m[x]]
                  \/ \E n \in 1 .. Len(call') : call'[n].dst = x
  /\ \A n \in 1 .. Len(call') - 1 :
       call'[n].op # "coNewVectorByMap" /\ NextElemNext(call'[n], call'[n + 1].src)
ResultCopiesNext(T, m) ==
  call' # <<>> /\ ret' # Pending =>
    /\ call'[Len(call')].op # "coNewVectorByMap"
    /\ ret' \in T /\ DOMAIN elem'[ret'] = DOMAIN elem'[m[ret']]
    /\ NextElemNext(call'[Len(call')], m[ret'])

LEMMA CopiedNext ==
  ASSUME NEW R \in SUBSET Obj, NEW T \in SUBSET Obj, NEW m \in [Obj -> Obj],
         MappedNext(R, T, m), FramesCopyNext(R, T, m), ResultCopiesNext(T, m)
  PROVE  Copied'
<1>1. Mapped(R, T, m)'
  BY DEF Mapped, MappedNext, SlotsCopied, SlotsCopiedNext
<1>2. FramesCopy(R, T, m)'
  BY DEF FramesCopy, FramesCopyNext, FrameCopies, FrameCopiesNext, NextElem, NextElemNext
<1>3. ResultCopies(T, m)'
  BY DEF ResultCopies, ResultCopiesNext, NextElem, NextElemNext, Top
<1>4. CopiesFrom(R, T, m)'
  BY <1>1, <1>2, <1>3 DEF CopiesFrom
<1> HIDE DEF CopiesFrom
<1> QED BY <1>4 DEF Copied

\* Nothing is copied yet, or any more: the application runs, or the function that it
\* called has no result to store.
Fresh == /\ Len(call) <= 1 /\ (call # <<>> => ret = Pending)
         /\ \A n \in 1 .. Len(call) : call[n].op \notin CloneOps /\ call[n].src \in Live

LEMMA FreshCopies ==
  ASSUME Fresh, call \in Seq(Frame), NEW R \in SUBSET Live,
         \A y \in R : \A i \in DOMAIN elem[y] : elem[y][i] \in R
  PROVE  \E m \in [Obj -> Obj] : CopiesFrom(R, {}, m)
<1> DEFINE m == [o \in Obj |-> o]
<1>1. m \in [Obj -> Obj]
  OBVIOUS
<1> HIDE DEF m
<1>2. \A n \in 1 .. Len(call) : n = 1
  BY DEF Fresh
<1>3. 1 .. Len(call) - 1 = {}
  BY DEF Fresh
<1>4. Mapped(R, {}, m)
  BY DEF Mapped
<1>5. FramesCopy(R, {}, m)
  BY <1>3 DEF FramesCopy, FrameCopies, Fresh
<1>6. ResultCopies({}, m)
  BY DEF ResultCopies, Fresh
<1> QED BY <1>1, <1>4, <1>5, <1>6 DEF CopiesFrom

\* After a step of the function that the application called nothing is copied.
LEMMA FreshNext ==
  ASSUME call' \in Seq(Frame), Sources', Len(call') <= 1, call' # <<>> => ret' = Pending,
         \A n \in 1 .. Len(call') : call'[n].op \notin CloneOps
  PROVE  Copied'
<1> DEFINE m == [o \in Obj |-> o]
<1>1. m \in [Obj -> Obj] /\ {} \in SUBSET Obj
  OBVIOUS
<1> HIDE DEF m
<1>2. \A n \in 1 .. Len(call') : call'[n].src \in Live'
  BY DEF Sources, Reads, Live
<1>3. 1 .. Len(call') - 1 = {}
  OBVIOUS
<1>4. MappedNext({}, {}, m)
  BY DEF MappedNext
<1>5. FramesCopyNext({}, {}, m)
  BY <1>2, <1>3 DEF FramesCopyNext, FrameCopiesNext
<1>6. ResultCopiesNext({}, m)
  BY DEF ResultCopiesNext
<1> QED BY <1>1, <1>4, <1>5, <1>6, CopiedNext

\* A new object o is made from e: what was there stays.
MadeFrom(o, e, T, U, m, w) ==
  /\ U = T \cup {o} /\ w[o] = e /\ o \notin T /\ o \notin Live
  /\ \A x \in T : w[x] = m[x]
  /\ \A x \in Live : Same(x) /\ x \in Live'
  /\ elem'[o] = NoSlots

LEMMA MadeMapped ==
  ASSUME Inv, Packed, NEW R \in SUBSET Obj, NEW T \in SUBSET Obj, NEW m \in [Obj -> Obj],
         Mapped(R, T, m), NEW e \in R, NEW o \in Obj, NEW k \in Kinds \ {"free"}, k = kind[e],
         NEW f, Alloc(o, k, f)
  PROVE  \E U \in SUBSET Obj, w \in [Obj -> Obj] :
           MappedNext(R, U, w) /\ MadeFrom(o, e, T, U, m, w)
<1> DEFINE U == T \cup {o}
           w == [m EXCEPT ![o] = e]
<1>1. /\ Live' = Live \cup {o} /\ o \notin Live /\ \A x \in Obj \ {o} : Same(x)
      /\ kind'[o] = k /\ elem'[o] = NoSlots /\ DOMAIN elem'[o] = {}
  BY AllocChanges, NoSlotsType, ObjAssumption DEF Changes
<1>2. /\ U \in SUBSET Obj /\ w \in [Obj -> Obj] /\ U = T \cup {o} /\ w[o] = e /\ o \notin T
      /\ \A x \in T : w[x] = m[x]
  BY <1>1 DEF Mapped
<1> HIDE DEF U, w
<1>3. \A x \in Live : Same(x) /\ x \in Live'
  BY <1>1 DEF Live
<1>4. MadeFrom(o, e, T, U, m, w)
  BY <1>1, <1>2, <1>3 DEF MadeFrom
<1>5. R \subseteq Live' /\ U \subseteq Live' /\ R \cap U = {}
  BY <1>1, <1>2 DEF Mapped
<1>6. \A y \in R : elem'[y] = elem[y] /\ kind'[y] = kind[y]
  BY <1>3 DEF Mapped, Same
<1>7. ASSUME NEW x \in U
      PROVE  /\ w[x] \in R /\ kind'[x] = kind'[w[x]] /\ SlotsCopiedNext(U, w, x)
             /\ elem'[x] = NoSlots \/ "CO_FREE_VALS" \in flags'[x]
  <2>1. CASE x = o
    BY <1>1, <1>2, <1>6, <2>1 DEF SlotsCopiedNext
  <2>2. CASE x \in T
    <3>1. /\ m[x] \in R /\ kind[x] = kind[m[x]] /\ SlotsCopied(T, m, x) /\ x \in Live
          /\ elem[x] = NoSlots \/ "CO_FREE_VALS" \in flags[x]
          /\ w[x] = m[x]
      BY <1>2, <2>2 DEF Mapped
    <3>2. Same(x)
      BY <1>3, <3>1
    <3>3. SlotsCopiedNext(U, w, x)
      BY <1>2, <1>6, <3>1, <3>2 DEF SlotsCopiedNext, SlotsCopied, Same
    <3> QED BY <1>6, <3>1, <3>2, <3>3 DEF Same
  <2> QED BY <1>2, <2>1, <2>2
<1>8. MappedNext(R, U, w)
  BY <1>5, <1>6, <1>7 DEF MappedNext, Mapped
<1> QED BY <1>2, <1>4, <1>8

\* The frames that run when an object is made.
FramesStay(R, T, U, w) ==
  /\ \A n \in 1 .. Len(call) : FrameCopiesNext(call[n], R, U, w)
  /\ \A n \in 1 .. Len(call) - 1 :
       call[n].op # "coNewVectorByMap" /\ NextElemNext(call[n], call[n + 1].src)
  /\ \A x \in T : \/ DOMAIN elem'[x] = DOMAIN elem'[w[x]]
                  \/ \E n \in 1 .. Len(call) : call[n].dst = x

LEMMA MadeFrames ==
  ASSUME Inv, NEW R \in SUBSET Obj, NEW T \in SUBSET Obj, NEW m \in [Obj -> Obj],
         Mapped(R, T, m), FramesCopy(R, T, m), NEW o, NEW e, NEW U, NEW w, MadeFrom(o, e, T, U, m, w)
  PROVE  FramesStay(R, T, U, w)
<1>1. \A x \in Live : elem'[x] = elem[x] /\ x \in Live' /\ x # o
  BY DEF MadeFrom, Same
<1>2. \A x \in T : w[x] = m[x] /\ x \in Live /\ m[x] \in Live /\ elem'[x] = elem[x]
                   /\ elem'[m[x]] = elem[m[x]]
  BY <1>1 DEF MadeFrom, Mapped
<1>3. \A n \in 1 .. Len(call) : FrameCopies(call[n], R, T, m)
  BY DEF FramesCopy
<1>4. \A n \in 1 .. Len(call) : call[n].src \in Live \ T
  BY <1>3 DEF FrameCopies
<1>5. ASSUME NEW n \in 1 .. Len(call)
      PROVE  FrameCopiesNext(call[n], R, U, w)
  <2>1. call[n].src \in Live' \ U /\ elem'[call[n].src] = elem[call[n].src]
    BY <1>1, <1>4 DEF MadeFrom
  <2>2. ASSUME call[n].op \in CloneOps
        PROVE  /\ call[n].src \in R /\ call[n].dst \in U /\ w[call[n].dst] = call[n].src
               /\ DOMAIN elem'[call[n].dst] = DOMAIN elem'[call[n].src] \ call[n].todo
    <3>1. /\ call[n].src \in R /\ call[n].dst \in T /\ m[call[n].dst] = call[n].src
          /\ DOMAIN elem[call[n].dst] = DOMAIN elem[call[n].src] \ call[n].todo
      BY <1>3, <2>2 DEF FrameCopies
    <3> QED BY <1>2, <2>1, <3>1 DEF MadeFrom
  <2> QED BY <2>1, <2>2 DEF FrameCopiesNext
<1>6. ASSUME NEW n \in 1 .. Len(call) - 1
      PROVE  call[n].op # "coNewVectorByMap" /\ NextElemNext(call[n], call[n + 1].src)
  <2>1. n \in 1 .. Len(call)
    BY DEF Inv, StateOK
  <2>2. elem'[call[n].src] = elem[call[n].src]
    BY <1>1, <1>4, <2>1
  <2>3. call[n].op # "coNewVectorByMap" /\ NextElem(call[n], call[n + 1].src)
    BY DEF FramesCopy
  <2> QED BY <2>2, <2>3 DEF NextElem, NextElemNext
<1>7. \A x \in T : \/ DOMAIN elem[x] = DOMAIN elem[m[x]]
                   \/ \E n \in 1 .. Len(call) : call[n].dst = x
  BY DEF FramesCopy
<1> QED BY <1>2, <1>5, <1>6, <1>7 DEF FramesStay

\* The stack after a call, in full.
LEMMA PushFrames ==
  ASSUME StateOK, NEW op \in Ops, NEW src \in Obj, NEW dst \in Dst, NEW old \in 0 .. MaxCnt,
         NEW root \in Idx, call' = Push(op, src, dst, old, root)
  PROVE  /\ Len(call) \in Nat /\ Len(call') = Len(call) + 1 /\ call' # <<>>
         /\ \A n \in 1 .. Len(call) : call'[n] = call[n]
         /\ call'[Len(call) + 1].op = op /\ call'[Len(call) + 1].src = src
         /\ call'[Len(call) + 1].dst = dst /\ call'[Len(call) + 1].todo = DOMAIN elem[src]
<1> DEFINE g == [op |-> op, src |-> src, dst |-> dst, todo |-> DOMAIN elem[src],
                 old |-> old, root |-> root]
<1>1. call \in Seq(Frame) /\ Len(call) \in Nat
  BY DEF StateOK
<1>2. g \in Frame
  <2>1. DOMAIN elem[src] \subseteq Idx
    BY SlotsOut DEF StateOK
  <2> QED BY <2>1 DEF Frame, Ops, Dst
<1>3. call' = Append(call, g)
  BY DEF Push
<1>4. g.op = op /\ g.src = src /\ g.dst = dst /\ g.todo = DOMAIN elem[src]
  OBVIOUS
<1> HIDE DEF g
<1>5. /\ Len(call') = Len(call) + 1 /\ call' # <<>>
      /\ \A n \in 1 .. Len(call) : call'[n] = call[n]
      /\ call'[Len(call) + 1] = g
  BY <1>1, <1>2, <1>3
<1> QED BY <1>1, <1>4, <1>5

\* coClone of e is called by the application, or for the element that is next.
ClonesNext(e) == call # <<>> => Top.op # "coNewVectorByMap" /\ NextElem(Top, e)

LEMMA EnterCopies ==
  ASSUME Inv, Shape, ~oom, NEW R \in SUBSET Obj, NEW T \in SUBSET Obj, NEW m \in [Obj -> Obj],
         CopiesFrom(R, T, m), NEW e \in R, ClonesNext(e), NEW op \in CloneOps,
         NEW k \in Kinds \ {"free"}, k = kind[e], NEW f, Enter(op, e, k, f)
  PROVE  Copied'
<1>1. PICK root \in Roots(e) : \E o \in Obj : Alloc(o, k, f) /\ call' = Push(op, e, o, 0, root)
  BY DEF Enter
<1>2. PICK o \in Obj : Alloc(o, k, f) /\ call' = Push(op, e, o, 0, root)
  BY <1>1
<1>3. root \in Idx /\ 0 \in 0 .. MaxCnt /\ ret' = Pending /\ op \in Ops /\ o \in Dst
  <2>1. elem[e] \in Slots
    BY DEF Inv, StateOK
  <2> QED BY <1>1, <2>1, SlotsOut, IdxNat, BoundAssumption DEF Roots, Enter, CloneOps, Ops, Dst
<1>4. Mapped(R, T, m) /\ FramesCopy(R, T, m)
  BY DEF CopiesFrom
<1>5. PICK U \in SUBSET Obj, w \in [Obj -> Obj] :
        MappedNext(R, U, w) /\ MadeFrom(o, e, T, U, m, w)
  BY <1>2, <1>4, MadeMapped DEF Shape
<1> DEFINE L == Len(call)
<1>6. /\ L \in Nat /\ Len(call') = L + 1 /\ call' # <<>>
      /\ \A n \in 1 .. L : call'[n] = call[n]
      /\ call'[L + 1].op = op /\ call'[L + 1].src = e
      /\ call'[L + 1].dst = o /\ call'[L + 1].todo = DOMAIN elem[e]
  BY <1>2, <1>3, PushFrames DEF Inv
<1>7. /\ \A n \in 1 .. L : FrameCopiesNext(call[n], R, U, w)
      /\ \A n \in 1 .. L - 1 :
           call[n].op # "coNewVectorByMap" /\ NextElemNext(call[n], call[n + 1].src)
      /\ \A x \in T : \/ DOMAIN elem'[x] = DOMAIN elem'[w[x]]
                      \/ \E n \in 1 .. L : call[n].dst = x
  <2>1. MadeFrom(o, e, T, U, m, w)
    BY <1>5
  <2>2. FramesStay(R, T, U, w)
    BY <1>4, <2>1, MadeFrames
  <2> QED BY <2>2 DEF FramesStay
<1> HIDE DEF L
<1>8. elem'[e] = elem[e] /\ e \in Live' \ U /\ elem'[o] = NoSlots /\ U = T \cup {o} /\ w[o] = e
  BY <1>4, <1>5 DEF MadeFrom, Mapped, Same, MappedNext
<1>9. FrameCopiesNext(call'[L + 1], R, U, w)
  BY <1>6, <1>8, NoSlotsType DEF FrameCopiesNext
<1>10. \A n \in 1 .. Len(call') : n \in 1 .. L \/ n = L + 1
  BY <1>6
<1>11. \A n \in 1 .. Len(call') : FrameCopiesNext(call'[n], R, U, w)
  BY <1>6, <1>7, <1>9, <1>10
<1>12. \A x \in U : \/ DOMAIN elem'[x] = DOMAIN elem'[w[x]]
                    \/ \E n \in 1 .. Len(call') : call'[n].dst = x
  <2>1. \A n \in 1 .. L : n \in 1 .. Len(call')
    BY <1>6
  <2>2. L + 1 \in 1 .. Len(call')
    BY <1>6
  <2> QED BY <1>6, <1>7, <1>8, <2>1, <2>2
<1>13. ASSUME NEW n \in 1 .. Len(call') - 1
       PROVE  call'[n].op # "coNewVectorByMap" /\ NextElemNext(call'[n], call'[n + 1].src)
  <2>1. n \in 1 .. L
    BY <1>6
  <2>2. CASE n = L
    <3>1. call # <<>> /\ Top = call[L]
      BY <2>1, <2>2 DEF Top, L
    <3>2. Top.op # "coNewVectorByMap" /\ NextElem(Top, e)
      BY <3>1 DEF ClonesNext
    <3>3. elem'[Top.src] = elem[Top.src]
      BY <1>4, <1>5, <2>1, <2>2, <3>1 DEF L, FramesCopy, FrameCopies, MadeFrom, Same
    <3> QED BY <1>6, <2>1, <2>2, <3>1, <3>2, <3>3 DEF NextElem, NextElemNext
  <2>3. CASE n # L
    <3>1. n \in 1 .. L - 1 /\ n + 1 \in 1 .. L
      BY <1>6, <2>1, <2>3
    <3> QED BY <1>6, <1>7, <2>1, <3>1
  <2> QED BY <2>2, <2>3
<1>14. FramesCopyNext(R, U, w)
  BY <1>11, <1>12, <1>13 DEF FramesCopyNext
<1>15. ResultCopiesNext(U, w)
  BY <1>3 DEF ResultCopiesNext
<1> QED BY <1>5, <1>14, <1>15, CopiedNext

LEMMA CloneLeafCopies ==
  ASSUME Inv, Shape, ~oom, LeavesBare, NEW R \in SUBSET Obj, NEW T \in SUBSET Obj,
         NEW m \in [Obj -> Obj], CopiesFrom(R, T, m), NEW e \in R, ClonesNext(e),
         kind[e] \in Leaves, CloneLeaf(e)
  PROVE  Copied'
<1>1. PICK o \in Obj : Alloc(o, kind[e], {}) /\ ret' = o /\ call' = call
  BY DEF CloneLeaf
<1>2. Mapped(R, T, m) /\ FramesCopy(R, T, m)
  BY DEF CopiesFrom
<1>3. PICK U \in SUBSET Obj, w \in [Obj -> Obj] :
        MappedNext(R, U, w) /\ MadeFrom(o, e, T, U, m, w)
  <2> DEFINE k == kind[e]
             f == {}
  <2>1. k \in Kinds \ {"free"} /\ k = kind[e] /\ Alloc(o, k, f)
    BY <1>1 DEF Leaves, Kinds
  <2> HIDE DEF k, f
  <2> QED BY <1>2, <2>1, MadeMapped DEF Shape
<1>4. /\ \A n \in 1 .. Len(call) : FrameCopiesNext(call[n], R, U, w)
      /\ \A n \in 1 .. Len(call) - 1 :
           call[n].op # "coNewVectorByMap" /\ NextElemNext(call[n], call[n + 1].src)
      /\ \A x \in T : \/ DOMAIN elem'[x] = DOMAIN elem'[w[x]]
                      \/ \E n \in 1 .. Len(call) : call[n].dst = x
  <2>1. MadeFrom(o, e, T, U, m, w)
    BY <1>3
  <2>2. FramesStay(R, T, U, w)
    BY <1>2, <2>1, MadeFrames
  <2> QED BY <2>2 DEF FramesStay
<1>5. /\ elem'[e] = elem[e] /\ elem[e] = NoSlots /\ elem'[o] = NoSlots
      /\ U = T \cup {o} /\ w[o] = e
  BY <1>2, <1>3 DEF MadeFrom, Mapped, Same, LeavesBare
<1>6. FramesCopyNext(R, U, w)
  BY <1>1, <1>4, <1>5 DEF FramesCopyNext
<1>7. ResultCopiesNext(U, w)
  <2> SUFFICES ASSUME call # <<>>
               PROVE  /\ call[Len(call)].op # "coNewVectorByMap"
                      /\ o \in U /\ DOMAIN elem'[o] = DOMAIN elem'[w[o]]
                      /\ NextElemNext(call[Len(call)], w[o])
    BY <1>1 DEF ResultCopiesNext
  <2>1. Len(call) \in 1 .. Len(call) /\ Top = call[Len(call)]
    BY TopType DEF Inv, Top
  <2>2. Top.op # "coNewVectorByMap" /\ NextElem(Top, e)
    BY DEF ClonesNext
  <2>3. elem'[Top.src] = elem[Top.src]
    BY <1>2, <1>3, <2>1 DEF FramesCopy, FrameCopies, MadeFrom, Same
  <2>4. NextElemNext(Top, e)
    BY <2>2, <2>3 DEF NextElem, NextElemNext
  <2> QED BY <1>5, <2>1, <2>2, <2>4
<1> QED BY <1>3, <1>6, <1>7, CopiedNext

LEMMA CloneCopies ==
  ASSUME Inv, Shape, ~oom, LeavesBare, NEW R \in SUBSET Obj, NEW T \in SUBSET Obj,
         NEW m \in [Obj -> Obj], CopiesFrom(R, T, m), NEW e \in R, ClonesNext(e), coClone(e)
  PROVE  Copied'
<1>1. CASE kind[e] \in Leaves /\ CloneLeaf(e)
  BY <1>1, CloneLeafCopies
<1>2. CASE kind[e] = "vector" /\ Enter("coVectorMap", e, "vector", {"CO_FREE_VALS"})
  <2>1. "coVectorMap" \in CloneOps /\ "vector" \in Kinds \ {"free"}
    BY DEF CloneOps, Kinds
  <2> QED BY <1>2, <2>1, EnterCopies
<1>3. CASE kind[e] = "map" /\ Enter("coMapClone", e, "map", flags[e] \cup {"CO_FREE_VALS"})
  <2>1. "coMapClone" \in CloneOps /\ "map" \in Kinds \ {"free"}
    BY DEF CloneOps, Kinds
  <2> QED BY <1>3, <2>1, EnterCopies
<1> QED BY <1>1, <1>2, <1>3 DEF coClone


\* A function that clones gets the clone of its next element: it stores it in the slot
\* that the element has.
LEMMA SlotIsNext ==
  ASSUME Inv, Packed, FramesRead, NEW R \in SUBSET Obj, NEW T \in SUBSET Obj,
         NEW m \in [Obj -> Obj], CopiesFrom(R, T, m), call # <<>>, Top.op = "coVectorMap",
         kind[Top.dst] = "vector", NEW k \in Top.todo, First(k)
  PROVE  cnt[Top.dst] = k
<1> DEFINE src == Top.src
           dst == Top.dst
<1>1. Len(call) \in 1 .. Len(call) /\ Top = call[Len(call)]
  BY TopType DEF Inv, Top
<1>2. /\ src \in R /\ dst \in T /\ m[dst] = src
      /\ DOMAIN elem[dst] = DOMAIN elem[src] \ Top.todo
  BY <1>1 DEF CopiesFrom, FramesCopy, FrameCopies, CloneOps
<1>3. Top.todo \subseteq DOMAIN elem[src]
  BY <1>1 DEF FramesRead
<1>4. kind[src] = "vector" /\ src \in Obj /\ dst \in Obj
  BY <1>2 DEF CopiesFrom, Mapped
<1>5. DOMAIN elem[src] = 0 .. cnt[src] - 1 /\ DOMAIN elem[dst] = 0 .. cnt[dst] - 1
  BY <1>4 DEF Packed
<1>6. cnt[src] \in Nat /\ cnt[dst] \in Nat
  BY <1>4, CntType
<1>7. k \in 0 .. cnt[src] - 1 /\ k \notin 0 .. cnt[dst] - 1 /\ k \in Nat
  BY <1>2, <1>3, <1>5, <1>6
<1>8. cnt[dst] <= k
  BY <1>6, <1>7
<1>9. cnt[dst] \in 0 .. cnt[src] - 1 /\ cnt[dst] \notin 0 .. cnt[dst] - 1
  BY <1>6, <1>7, <1>8
<1>10. cnt[dst] \in Top.todo
  BY <1>2, <1>5, <1>9
<1>11. k <= cnt[dst]
  BY <1>10 DEF First
<1> QED BY <1>6, <1>7, <1>8, <1>11

LEMMA EmptyTree == ASSUME Inv, NEW v \in Obj PROVE Gone(v, {}) = {}
<1>1. Owned(v, {}) = {} /\ {} \in SUBSET Obj
  BY DEF Owned
<1>2. Closed({})
  BY DEF Closed
<1>3. Tree({}) \subseteq {}
  BY <1>1, <1>2, TreeLeast
<1> QED BY <1>1, <1>3 DEF Gone

\* What the step of a function stores: only its container changes, by slot k.
LEMMA StoreChanges ==
  ASSUME Inv, FramesBuild, call # <<>>, Top.dst # NULL, ret \in Obj, NEW k \in Idx, NEW n,
         Store(k, ret, n), k \notin DOMAIN elem[Top.dst], NEW v, v = Top.dst
  PROVE  /\ v \in Obj /\ Live' = Live /\ \A o \in Obj \ {v} : Same(o)
         /\ kind'[v] = kind[v] /\ flags'[v] = flags[v] /\ "CO_FREE_VALS" \in flags'[v]
         /\ DOMAIN elem'[v] = DOMAIN elem[v] \cup {k} /\ elem'[v][k] = ret
         /\ \A i \in DOMAIN elem[v] : elem'[v][i] = elem[v][i]
<1> DEFINE new == Slot(k, ret)
           f == flags
           D == {}
<1>1. v \in held /\ v \in Obj /\ "CO_FREE_VALS" \in flags[v]
  BY TopBuilds
<1>2. new \in Slots /\ DOMAIN new = {k} /\ new[k] = ret
  BY SlotType
<1>3. /\ ReplaceF(v, D, new, n, f) /\ f \in [Obj -> SUBSET Flags] /\ D \in SUBSET Idx
      /\ \A o \in Obj \ {v} : f[o] = flags[o] /\ f[v] = flags[v]
  BY <1>1 DEF Store, Replace, Inv, StateOK
<1>4. Gone(v, D) = {}
  BY <1>1, EmptyTree
<1> HIDE DEF new, f
<1>5. Changes(Gone(v, D), {}, v) /\ Becomes(v, D, new, n, f)
  BY <1>1, <1>2, <1>3, ReplaceChanges
<1>6. Live' = Live /\ \A o \in Obj \ {v} : Same(o)
  BY <1>4, <1>5 DEF Changes
<1>7. kind'[v] = kind[v] /\ flags'[v] = flags[v]
  BY <1>3, <1>5 DEF Becomes, f
<1>8. elem'[v] = NewSlots(v, D, new)
  BY <1>5 DEF Becomes
<1>9. DOMAIN elem'[v] = DOMAIN elem[v] \cup {k}
  BY <1>2, <1>8 DEF NewSlots
<1>10. \A i \in DOMAIN elem'[v] : elem'[v][i] = IF i = k THEN ret ELSE elem[v][i]
  BY <1>2, <1>8, <1>9 DEF NewSlots
<1> QED BY <1>1, <1>6, <1>7, <1>9, <1>10

\* The clone is in the slot of its element; what was copied before stays.
LEMMA StoreCopies ==
  ASSUME Inv, FramesBuild, FramesRead, NEW R \in SUBSET Obj, NEW T \in SUBSET Obj,
         NEW m \in [Obj -> Obj], CopiesFrom(R, T, m), call # <<>>, Top.op \in CloneOps,
         Top.dst # NULL, ret # Pending, NEW k \in Top.todo, First(k), NEW n,
         Store(k, ret, n), call' = Handled({k}), ret' = Pending
  PROVE  Copied'
<1> DEFINE src == Top.src
           dst == Top.dst
           L == Len(call)
<1>1. Mapped(R, T, m) /\ FramesCopy(R, T, m) /\ ResultCopies(T, m)
  BY DEF CopiesFrom
<1>2. L \in 1 .. L /\ L \in Nat /\ Top = call[L] /\ Top \in Frame /\ Top.todo \subseteq Idx
  BY TopType DEF Inv, Top, StateOK
<1>3. /\ src \in R /\ dst \in T /\ m[dst] = src /\ src \in Live \ T
      /\ DOMAIN elem[dst] = DOMAIN elem[src] \ Top.todo /\ k \in DOMAIN elem[src]
  BY <1>1, <1>2 DEF FramesCopy, FrameCopies, FramesRead
<1>4. ret \in T /\ NextElem(Top, m[ret])
  BY <1>1 DEF ResultCopies
<1>5. m[ret] = elem[src][k]
  <2>1. PICK j \in Top.todo : (\A i \in Top.todo : j <= i) /\ m[ret] = elem[src][j]
    BY <1>4 DEF NextElem
  <2>2. j \in Nat /\ k \in Nat /\ j <= k /\ k <= j
    BY <1>2, <2>1, IdxNat DEF First
  <2>3. j = k
    BY <2>2
  <2> QED BY <2>1, <2>3
<1>6. /\ dst \in Obj /\ Live' = Live /\ \A o \in Obj \ {dst} : Same(o)
      /\ kind'[dst] = kind[dst] /\ flags'[dst] = flags[dst] /\ "CO_FREE_VALS" \in flags'[dst]
      /\ DOMAIN elem'[dst] = DOMAIN elem[dst] \cup {k} /\ elem'[dst][k] = ret
      /\ \A i \in DOMAIN elem[dst] : elem'[dst][i] = elem[dst][i]
  <2>1. k \notin DOMAIN elem[dst] /\ k \in Idx /\ ret \in Obj
    BY <1>2, <1>3, <1>4
  <2> QED BY <2>1, StoreChanges
<1> DEFINE g == [Top EXCEPT !.todo = @ \ {k}]
<1>7. g.src = src /\ g.op = Top.op /\ g.dst = dst /\ g.todo = Top.todo \ {k}
  BY <1>2 DEF Frame
<1>8. /\ Len(call') = L /\ \A n1 \in 1 .. L - 1 : call'[n1] = call[n1]
      /\ call'[L] = g
  BY HandledFrames DEF Inv
<1> HIDE DEF g, src, dst, L
<1>9. \A y \in Live : y \notin T => Same(y)
  BY <1>3, <1>6 DEF Live
<1>10. \A y \in R : Same(y) /\ y \in Live
  BY <1>1, <1>9 DEF Mapped
<1>11. \A x \in T : kind'[x] = kind[x] /\ (x # dst => Same(x)) /\ x \in Live
  BY <1>1, <1>6 DEF Mapped, Same
<1>12. ASSUME NEW x \in T
       PROVE  /\ m[x] \in R /\ kind'[x] = kind'[m[x]] /\ SlotsCopiedNext(T, m, x)
              /\ elem'[x] = NoSlots \/ "CO_FREE_VALS" \in flags'[x]
  <2>1. /\ m[x] \in R /\ kind[x] = kind[m[x]] /\ SlotsCopied(T, m, x)
        /\ elem[x] = NoSlots \/ "CO_FREE_VALS" \in flags[x]
    BY <1>1 DEF Mapped
  <2>2. elem'[m[x]] = elem[m[x]] /\ kind'[m[x]] = kind[m[x]]
    BY <1>10, <2>1 DEF Same
  <2>3. CASE x = dst
    <3>1. ASSUME NEW i \in DOMAIN elem'[x]
          PROVE  /\ i \in DOMAIN elem'[m[x]] /\ elem'[x][i] \in T
                 /\ elem'[m[x]][i] = m[elem'[x][i]]
      <4>1. CASE i = k
        BY <1>3, <1>4, <1>5, <1>6, <2>2, <2>3, <4>1
      <4>2. CASE i \in DOMAIN elem[x]
        BY <1>6, <2>1, <2>2, <2>3, <4>2 DEF SlotsCopied
      <4> QED BY <1>6, <2>3, <4>1, <4>2
    <3> QED BY <1>6, <1>11, <2>1, <2>2, <2>3, <3>1 DEF SlotsCopiedNext
  <2>4. CASE x # dst
    <3>1. Same(x)
      BY <1>11, <2>4
    <3> QED BY <2>1, <2>2, <3>1 DEF SlotsCopiedNext, SlotsCopied, Same
  <2> QED BY <2>3, <2>4
<1>13. MappedNext(R, T, m)
  BY <1>1, <1>6, <1>10, <1>12 DEF MappedNext, Mapped, Same
<1>14. \A n1 \in 1 .. L : call[n1].src \in Live \ T /\ elem'[call[n1].src] = elem[call[n1].src]
  BY <1>1, <1>9 DEF FramesCopy, FrameCopies, L, Same
<1>15. \A n1 \in 1 .. L : /\ call'[n1].src = call[n1].src /\ call'[n1].op = call[n1].op
                          /\ call'[n1].dst = call[n1].dst
  <2>1. \A n1 \in 1 .. L : n1 \in 1 .. L - 1 \/ n1 = L
    BY <1>2
  <2> QED BY <1>2, <1>7, <1>8, <2>1 DEF src, dst
<1>16. \A n1 \in 1 .. L - 1 : call[n1].dst # dst
  <2>1. \A n1 \in 1 .. L - 1 : n1 \in 1 .. L /\ n1 # L
    BY <1>2
  <2> QED BY <2>1, TopHeld DEF L, dst
<1>17. ASSUME NEW n1 \in 1 .. Len(call') PROVE FrameCopiesNext(call'[n1], R, T, m)
  <2>1. CASE n1 = L
    <3>1. DOMAIN elem'[dst] = DOMAIN elem'[src] \ (Top.todo \ {k})
      BY <1>3, <1>6, <1>10 DEF Same
    <3>2. call'[n1].src \in Live' \ T
      BY <1>6, <1>14, <1>15, <1>8
    <3> QED BY <1>3, <1>7, <1>8, <2>1, <3>1, <3>2 DEF FrameCopiesNext
  <2>2. CASE n1 # L
    <3>1. n1 \in 1 .. L - 1 /\ n1 \in 1 .. L
      BY <1>2, <1>8, <2>2
    <3>2. FrameCopies(call[n1], R, T, m)
      BY <1>1, <3>1 DEF FramesCopy, L
    <3>3. call'[n1] = call[n1] /\ call[n1].dst # dst
      BY <1>8, <1>16, <3>1
    <3>4. call[n1].dst \in T => elem'[call[n1].dst] = elem[call[n1].dst]
      BY <1>11, <3>3 DEF Same
    <3> QED BY <1>6, <1>14, <3>1, <3>2, <3>3, <3>4 DEF FrameCopies, FrameCopiesNext
  <2> QED BY <2>1, <2>2
<1>18. ASSUME NEW x \in T
       PROVE  \/ DOMAIN elem'[x] = DOMAIN elem'[m[x]]
              \/ \E n1 \in 1 .. Len(call') : call'[n1].dst = x
  <2>1. CASE x = dst
    <3>1. call'[L].dst = x /\ L \in 1 .. Len(call')
      BY <1>2, <1>7, <1>8, <2>1
    <3> QED BY <3>1
  <2>2. CASE x # dst
    <3>1. elem'[x] = elem[x] /\ elem'[m[x]] = elem[m[x]]
      BY <1>10, <1>11, <1>12, <2>2 DEF Same
    <3>2. \/ DOMAIN elem[x] = DOMAIN elem[m[x]]
          \/ \E n1 \in 1 .. L : call[n1].dst = x
      BY <1>1 DEF FramesCopy, L
    <3> QED BY <1>8, <1>15, <3>1, <3>2
  <2> QED BY <2>1, <2>2
<1>19. ASSUME NEW n1 \in 1 .. Len(call') - 1
       PROVE  call'[n1].op # "coNewVectorByMap" /\ NextElemNext(call'[n1], call'[n1 + 1].src)
  <2>1. n1 \in 1 .. L - 1 /\ n1 \in 1 .. L /\ n1 + 1 \in 1 .. L
    BY <1>2, <1>8
  <2>2. call[n1].op # "coNewVectorByMap" /\ NextElem(call[n1], call[n1 + 1].src)
    BY <1>1, <2>1 DEF FramesCopy, L
  <2>3. call'[n1] = call[n1] /\ call'[n1 + 1].src = call[n1 + 1].src
    BY <1>8, <1>15, <2>1
  <2>4. elem'[call[n1].src] = elem[call[n1].src]
    BY <1>14, <2>1
  <2> QED BY <2>2, <2>3, <2>4 DEF NextElem, NextElemNext
<1>20. FramesCopyNext(R, T, m)
  BY <1>17, <1>18, <1>19 DEF FramesCopyNext
<1>21. ResultCopiesNext(T, m)
  BY DEF ResultCopiesNext
<1> QED BY <1>13, <1>20, <1>21, CopiedNext

\* A function that clones returns what it has built to the function below.
LEMMA FinishCopies ==
  ASSUME Inv, NEW R \in SUBSET Obj, NEW T \in SUBSET Obj, NEW m \in [Obj -> Obj],
         CopiesFrom(R, T, m), call # <<>>, Top.op \in CloneOps, Top.todo = {},
         UNCHANGED heap, call' = Below, ret' = Top.dst
  PROVE  Copied'
<1> DEFINE L == Len(call)
           dst == Top.dst
<1>1. Mapped(R, T, m) /\ FramesCopy(R, T, m)
  BY DEF CopiesFrom
<1>2. L \in 1 .. L /\ L \in Nat /\ Top = call[L]
  BY TopType DEF Inv, Top, StateOK
<1>3. dst \in T /\ m[dst] = Top.src /\ DOMAIN elem[dst] = DOMAIN elem[m[dst]]
  BY <1>1, <1>2 DEF FramesCopy, FrameCopies
<1>4. Len(call') = L - 1 /\ \A n \in 1 .. L - 1 : call'[n] = call[n]
  BY BelowType DEF Inv
<1>5. UNCHANGED <<kind, flags, elem>> /\ Live' = Live
  BY DEF heap, Live
<1>6. MappedNext(R, T, m)
  BY <1>1, <1>5 DEF MappedNext, Mapped, SlotsCopied, SlotsCopiedNext
<1> HIDE DEF L
<1>7. \A n \in 1 .. L - 1 : n \in 1 .. L
  BY <1>2
<1>8. ASSUME NEW n \in 1 .. Len(call') PROVE FrameCopiesNext(call'[n], R, T, m)
  <2>1. call'[n] = call[n] /\ FrameCopies(call[n], R, T, m)
    BY <1>1, <1>4, <1>7 DEF FramesCopy, L
  <2> QED BY <1>5, <2>1 DEF FrameCopies, FrameCopiesNext
<1>9. ASSUME NEW x \in T
      PROVE  \/ DOMAIN elem'[x] = DOMAIN elem'[m[x]]
             \/ \E n \in 1 .. Len(call') : call'[n].dst = x
  <2>1. \/ DOMAIN elem[x] = DOMAIN elem[m[x]]
        \/ \E n \in 1 .. L : call[n].dst = x
    BY <1>1 DEF FramesCopy, L
  <2>2. \A n \in 1 .. L : n \in 1 .. L - 1 \/ n = L
    BY <1>2
  <2> QED BY <1>2, <1>3, <1>4, <1>5, <2>1, <2>2
<1>10. \A n \in 1 .. L - 1 :
         call[n].op # "coNewVectorByMap" /\ NextElemNext(call[n], call[n + 1].src)
  BY <1>1, <1>5 DEF FramesCopy, NextElem, NextElemNext, L
<1>11. ASSUME NEW n \in 1 .. Len(call') - 1
       PROVE  call'[n].op # "coNewVectorByMap" /\ NextElemNext(call'[n], call'[n + 1].src)
  <2>1. n \in 1 .. L - 1 /\ n + 1 \in 1 .. L - 1
    BY <1>2, <1>4
  <2> QED BY <1>4, <1>10, <2>1
<1>12. FramesCopyNext(R, T, m)
  BY <1>8, <1>9, <1>11 DEF FramesCopyNext
<1>13. ResultCopiesNext(T, m)
  <2> SUFFICES ASSUME call' # <<>>
               PROVE  /\ call'[Len(call')].op # "coNewVectorByMap"
                      /\ NextElemNext(call'[Len(call')], m[dst])
    BY <1>3, <1>5 DEF ResultCopiesNext
  <2>1. L - 1 \in 1 .. L - 1 /\ L - 1 + 1 = L
    <3>1. Below \in Seq(Frame)
      BY BelowType DEF Inv
    <3>2. Len(call') # 0
      BY <3>1
    <3> QED BY <1>2, <1>4, <3>2
  <2> QED BY <1>2, <1>3, <1>4, <1>10, <2>1
<1> QED BY <1>6, <1>12, <1>13, CopiedNext


\* Every step keeps the leaves without slots: only containers get any.
LEMMA ReplaceBare ==
  ASSUME Inv, LeavesBare, NEW v \in Obj, kind[v] \notin Leaves, NEW D, NEW new, NEW n, NEW f,
         ReplaceF(v, D, new, n, f)
  PROVE  LeavesBare'
<1> DEFINE T == Tree(Owned(v, D))
           e == [elem EXCEPT ![v] = NewSlots(v, D, new)]
<1>1. \A o \in Obj : /\ kind'[o] = IF o \in T THEN "free" ELSE kind[o]
                     /\ elem'[o] = IF o \in T THEN NoSlots ELSE e[o]
  BY DEF ReplaceF, Free, NewSlots
<1>2. \A o \in Obj \ {v} : e[o] = elem[o]
  BY DEF Inv, StateOK
<1> HIDE DEF T, e
<1> QED BY <1>1, <1>2 DEF LeavesBare

LEMMA AllocBare ==
  ASSUME Inv, LeavesBare, NEW o, NEW k, NEW f, Alloc(o, k, f)
  PROVE  LeavesBare'
<1>1. \A x \in Obj : elem'[x] = elem[x] /\ (kind'[x] = kind[x] \/ kind[x] = "free")
  BY DEF Alloc, Inv, StateOK
<1> QED BY <1>1 DEF LeavesBare, Inv, FreeIsBlank

LEMMA CloneBare ==
  ASSUME Inv, LeavesBare, NEW e, coClone(e)
  PROVE  LeavesBare'
<1>1. \/ UNCHANGED heap
      \/ \E o, k, f : Alloc(o, k, f)
  BY DEF coClone, CloneLeaf, Enter
<1> QED BY <1>1, AllocBare DEF heap, LeavesBare

LEMMA AppBare ==
  ASSUME Inv, LeavesBare, AppStep PROVE LeavesBare'
<1>1. ASSUME NEW o \in Obj, coDelete(o) PROVE LeavesBare'
  <2> DEFINE T == Tree({o})
  <2>1. \A x \in Obj : /\ kind'[x] = IF x \in T THEN "free" ELSE kind[x]
                       /\ elem'[x] = IF x \in T THEN NoSlots ELSE elem[x]
    BY <1>1 DEF coDelete, Free
  <2> HIDE DEF T
  <2> QED BY <2>1 DEF LeavesBare
<1>2. ASSUME NEW v \in Obj, kind[v] \in {"vector", "map"}, NEW D, NEW new, NEW n, NEW f,
             ReplaceF(v, D, new, n, f)
      PROVE  LeavesBare'
  BY <1>2, ReplaceBare DEF Leaves
<1>3. \/ \E o \in Obj : coDelete(o)
      \/ \E v \in Obj : /\ kind[v] \in {"vector", "map"}
                        /\ \E D, new, n, f : ReplaceF(v, D, new, n, f)
      \/ \E o, k, f : Alloc(o, k, f)
      \/ \E e : coClone(e)
      \/ UNCHANGED heap
  BY DEF AppStep, coNewLeaf, coNewVector, coNewMap, coVectorAdd, coVectorSet,
         coVectorEraseLast, coVectorClear, coMapAdd, coMapErase, coMapClear, Mutable,
         Replace, StartClone, coVectorAppendVector, coNewVectorByMap, Enter
<1> QED BY <1>1, <1>2, <1>3, AllocBare, CloneBare DEF heap, LeavesBare

LEMMA ByMapAddBare ==
  ASSUME Inv, Shape, NoFailure, LeavesBare, ByMapAdd PROVE LeavesBare'
<1>1. call # <<>> /\ Top.dst # NULL /\ Top.op = "coNewVectorByMap"
  BY DEF ByMapAdd, Running
<1>2. PICK d \in Obj : d = Top.dst /\ kind[d] = "vector"
  BY <1>1, TopBuilds DEF Shape
<1>3. PICK k \in Top.todo, p \in Obj, s, value \in Obj \cup {NULL} : AddPair(k, p, s, value)
  BY DEF ByMapAdd
<1>4. \A o \in Obj : /\ kind'[o] = IF o = p THEN "vector"
                                   ELSE IF o = s THEN "str" ELSE kind[o]
                     /\ o # p /\ o # d => elem'[o] = elem[o]
  BY <1>2, <1>3 DEF AddPair, Inv, StateOK
<1>5. kind[p] = "free" /\ p # s /\ (s # NULL => kind[s] = "free")
  BY <1>3 DEF AddPair
<1>6. ASSUME NEW o \in Obj, kind'[o] \in Leaves PROVE elem'[o] = NoSlots
  <2>1. o # p
    BY <1>4, <1>6 DEF Leaves
  <2>2. o # d
    BY <1>2, <1>4, <1>5, <1>6, ObjAssumption DEF Leaves
  <2>3. kind[o] = "free" \/ kind[o] \in Leaves
    BY <1>4, <1>5, <1>6, <2>1, ObjAssumption
  <2> QED BY <1>4, <2>1, <2>2, <2>3 DEF LeavesBare, Inv, FreeIsBlank
<1> QED BY <1>6 DEF LeavesBare

LEMMA LibBare ==
  ASSUME Inv, Shape, NoFailure, ~oom, LeavesBare, LibStep PROVE LeavesBare'
<1>1. CASE CloneElem
  BY <1>1, CloneBare DEF CloneElem, heap, LeavesBare
<1>2. ASSUME call # <<>>, Top.dst # NULL, NEW D, NEW new, NEW n, Replace(Top.dst, D, new, n)
      PROVE  LeavesBare'
  <2>1. Top.dst \in Obj /\ kind[Top.dst] \notin Leaves
    BY <1>2, TopBuilds DEF Shape, Leaves
  <2> QED BY <1>2, <2>1, ReplaceBare DEF Replace
<1>3. CASE VectorMapAdd \/ MapCloneAdd \/ AppendAdd
  <2>1. call # <<>> /\ Top.dst # NULL
    BY <1>3, TopFacts DEF VectorMapAdd, MapCloneAdd, AppendAdd, Running
  <2>2. \E i, n : Store(i, ret, n)
    BY <1>3 DEF VectorMapAdd, MapCloneAdd, AppendAdd
  <2> QED BY <1>2, <2>1, <2>2 DEF Store
<1>4. CASE CloneHalts \/ ByMapHalts \/ Received \/ Finish \/ AppendFinish
  BY <1>4 DEF CloneHalts, ByMapHalts, Halt, Received, Finish, AppendFinish, heap, LeavesBare
<1>5. CASE \/ VectorMapFail \/ MapCloneSkip \/ MapCloneFail \/ AppendRollback
           \/ ByMapSkip \/ ByMapFail
  BY <1>5 DEF VectorMapFail, MapCloneSkip, MapCloneFail, AppendRollback, ByMapSkip,
              ByMapFail, AddFails, NoFailure
<1> QED BY <1>1, <1>3, <1>4, <1>5, ByMapAddBare DEF LibStep


\* What the steps of a clone start from.
CopiesBefore == /\ Inv /\ Inv' /\ Shape /\ Sources /\ Sources' /\ ~oom
                /\ NoFailure /\ LeavesBare

\* A set that is read is closed, for no slot is NULL.
LEMMA ReadIsClosed ==
  ASSUME Inv, SlotsFull, NEW R, Reads(R)
  PROVE  R \in SUBSET Live /\ \A y \in R : \A i \in DOMAIN elem[y] : elem[y][i] \in R
<1>1. R \subseteq Live /\ \A y \in R : Elems(y) \subseteq R
  BY DEF Reads
<1>2. ASSUME NEW y \in R, NEW i \in DOMAIN elem[y] PROVE elem[y][i] \in R
  <2>1. elem[y][i] # NULL
    BY <1>1 DEF SlotsFull, Live
  <2>2. elem[y][i] \in Elems(y)
    BY <2>1 DEF Elems
  <2> QED BY <1>1, <2>2
<1> QED BY <1>1, <1>2

\* The application, or coVectorAppendVector, calls coClone.
LEMMA FreshClone ==
  ASSUME CopiesBefore, Fresh, NEW R \in SUBSET Obj, Reads(R), NEW e \in R,
         ClonesNext(e), coClone(e)
  PROVE  Copied'
<1> USE DEF CopiesBefore, NoFailure
<1>1. R \in SUBSET Live /\ \A y \in R : \A i \in DOMAIN elem[y] : elem[y][i] \in R
  BY ReadIsClosed
<1>2. call \in Seq(Frame)
  BY DEF Inv, StateOK
<1>3. PICK m \in [Obj -> Obj] : CopiesFrom(R, {}, m)
  BY <1>1, <1>2, FreshCopies
<1> DEFINE T == {}
<1>4. T \in SUBSET Obj /\ CopiesFrom(R, T, m)
  BY <1>3
<1> HIDE DEF T
<1> QED BY <1>4, CloneCopies

LEMMA AppCopies ==
  ASSUME CopiesBefore, AppStep PROVE Copied'
<1> USE DEF CopiesBefore
<1>1. call' \in Seq(Frame)
  BY DEF Inv, StateOK
<1>2. call = <<>> /\ ret = Pending /\ Len(call) = 0
  BY DEF AppStep, coNewLeaf, coNewVector, coNewMap, coDelete, coVectorAdd, coVectorSet,
         coVectorEraseLast, coVectorClear, coMapAdd, coMapErase, coMapClear, StartClone,
         coVectorAppendVector, coNewVectorByMap, Idle
<1>3. ASSUME UNCHANGED <<call, ret>> PROVE Copied'
  BY <1>1, <1>2, <1>3, FreshNext
<1>4. ASSUME NEW op \in Ops, NEW src \in Obj, NEW dst \in Dst, NEW old \in 0 .. MaxCnt,
             NEW root \in Idx, call' = Push(op, src, dst, old, root), op \notin CloneOps,
             ret' = Pending
      PROVE  Copied'
  <2>1. Len(call') = 1 /\ call'[1].op = op
    BY <1>2, <1>4, PushFrames DEF Inv
  <2>2. \A n \in 1 .. Len(call') : n = 1
    BY <2>1
  <2> QED BY <1>1, <1>4, <2>1, <2>2, FreshNext
<1>5. ASSUME NEW v \in Obj, NEW src \in Obj, coVectorAppendVector(v, src) PROVE Copied'
  <2>1. /\ cnt[v] \in 0 .. MaxCnt /\ 0 \in Idx /\ v \in Dst
        /\ "coVectorAppendVector" \in Ops /\ "coVectorAppendVector" \notin CloneOps
        /\ call' = Push("coVectorAppendVector", src, v, cnt[v], 0) /\ ret' = Pending
    BY <1>2, <1>5, CntType, IdxNat, BoundAssumption
       DEF coVectorAppendVector, Ops, CloneOps, Dst
  <2> QED BY <1>4, <2>1
<1>6. ASSUME NEW s \in Obj, coNewVectorByMap(s) PROVE Copied'
  <2>1. PICK root \in Roots(s), dst \in Dst :
          call' = Push("coNewVectorByMap", s, dst, 0, root) /\ ret' = Pending
    BY <1>6 DEF coNewVectorByMap, Enter, Dst
  <2>2. root \in Idx /\ 0 \in 0 .. MaxCnt
    <3>1. elem[s] \in Slots
      BY DEF Inv, StateOK
    <3> QED BY <2>1, <3>1, SlotsOut, IdxNat, BoundAssumption DEF Roots
  <2>3. "coNewVectorByMap" \in Ops /\ "coNewVectorByMap" \notin CloneOps
    BY DEF Ops, CloneOps
  <2> QED BY <1>4, <2>1, <2>2, <2>3
<1>7. ASSUME NEW e \in Obj, StartClone(e) PROVE Copied'
  <2> DEFINE R == Reach(e)
  <2>1. R \in SUBSET Obj /\ e \in R /\ Reads(R) /\ coClone(e)
    BY <1>2, <1>7, ReadableReads DEF StartClone
  <2>2. Fresh /\ ClonesNext(e)
    BY <1>2 DEF Fresh, ClonesNext
  <2> HIDE DEF R
  <2> QED BY <2>1, <2>2, FreshClone
<1>8. \/ UNCHANGED <<call, ret>>
      \/ \E v, src \in Obj : coVectorAppendVector(v, src)
      \/ \E m \in Obj : coNewVectorByMap(m)
      \/ \E e \in Obj : StartClone(e)
  BY DEF AppStep, coNewLeaf, coNewVector, coNewMap, coDelete, coVectorAdd, coVectorSet,
         coVectorEraseLast, coVectorClear, coMapAdd, coMapErase, coMapClear
<1> QED BY <1>3, <1>5, <1>6, <1>7, <1>8

LEMMA CloneElemCopies ==
  ASSUME CopiesBefore, NEW R \in SUBSET Obj, NEW T \in SUBSET Obj, NEW m \in [Obj -> Obj],
         CopiesFrom(R, T, m), CloneElem
  PROVE  Copied'
<1> USE DEF CopiesBefore, NoFailure, Sources
<1>1. call # <<>> /\ ret = Pending /\ Top.op \in CloneOps \cup {"coVectorAppendVector"}
  BY DEF CloneElem, Running, CloneOps
<1>2. PICK k \in Top.todo, e \in Obj \cup {NULL} :
        First(k) /\ e = elem[Top.src][k] /\ (e # NULL => coClone(e))
  BY DEF CloneElem
<1>3. e # NULL /\ e \in Obj /\ coClone(e)
  <2>1. e # NULL
    BY <1>1, <1>2, NextIsFull
  <2> QED BY <1>2, <2>1
<1>4. ClonesNext(e)
  BY <1>1, <1>2 DEF ClonesNext, NextElem, First, CloneOps
<1>5. Len(call) \in 1 .. Len(call) /\ Top = call[Len(call)]
  BY <1>1, TopType DEF Inv, Top
<1>6. CASE Top.op \in CloneOps
  <2>1. Top.src \in R /\ k \in DOMAIN elem[Top.src]
    BY <1>5, <1>6 DEF CopiesFrom, FramesCopy, FrameCopies, FramesRead
  <2>2. e \in R
    BY <1>2, <2>1 DEF CopiesFrom, Mapped
  <2> QED BY <1>3, <1>4, <2>2, CloneCopies
<1>7. CASE Top.op = "coVectorAppendVector"
  <2>1. PICK Q \in SUBSET Obj : Reads(Q)
    OBVIOUS
  <2>2. e \in Q
    BY <1>1, <1>2, <1>3, <2>1, NextIsRead
  <2>3. Len(call) = 1
    BY <1>5, <1>7 DEF FramesRead, AtBottom
  <2>4. call[1].src \in Live
    BY <1>5, <2>1, <2>3 DEF Reads
  <2>5. Fresh
    BY <1>1, <1>5, <1>7, <2>3, <2>4 DEF Fresh, CloneOps
  <2> QED BY <1>3, <1>4, <2>1, <2>2, <2>5, FreshClone
<1> QED BY <1>1, <1>6, <1>7

\* The functions that the application calls, without a clone under way.
LEMMA BottomCopies ==
  ASSUME CopiesBefore, call # <<>>, Top.op \in AtBottom, ret' = Pending,
         NEW D, call' = Handled(D)
  PROVE  Copied'
<1> USE DEF CopiesBefore, Sources
<1>1. Len(call) \in 1 .. Len(call) /\ Top = call[Len(call)]
  BY TopType DEF Inv, Top
<1>2. Len(call) = 1
  BY <1>1 DEF FramesRead
<1>3. call' \in Seq(Frame) /\ Len(call') = 1 /\ call'[1].op = Top.op
  BY <1>1, <1>2, HandledType DEF Inv, StateOK
<1>4. \A n \in 1 .. Len(call') : n = 1
  BY <1>3
<1> QED BY <1>3, <1>4, FreshNext DEF AtBottom, CloneOps

LEMMA LibCopies ==
  ASSUME CopiesBefore, NEW R \in SUBSET Obj, NEW T \in SUBSET Obj, NEW m \in [Obj -> Obj],
         CopiesFrom(R, T, m), LibStep
  PROVE  Copied'
<1> USE DEF CopiesBefore, NoFailure, Sources
<1>1. call # <<>> => /\ Len(call) \in 1 .. Len(call) /\ Top = call[Len(call)]
                     /\ Top.dst # NULL /\ Top.dst \in Obj
  <2>1. call # <<>> => /\ Len(call) \in 1 .. Len(call) /\ Top.dst \in Obj \cup {NULL}
    BY TopType DEF Inv
  <2> QED BY <2>1 DEF Top
<1>2. call' \in Seq(Frame)
  BY DEF Inv, StateOK
<1>3. ASSUME call' = <<>> PROVE Copied'
  BY <1>2, <1>3, FreshNext
<1>4. CASE VectorMapAdd
  <2> USE DEF VectorMapAdd
  <2>1. call # <<>> /\ Top.op = "coVectorMap" /\ ret # Pending
    BY <1>4 DEF Running
  <2>2. PICK k \in Top.todo :
          First(k) /\ Store(cnt[Top.dst], ret, cnt[Top.dst] + 1) /\ call' = Handled({k})
    BY <1>4
  <2>3. kind[Top.dst] = "vector"
    BY <1>1, <2>1, TopBuilds DEF Shape
  <2>4. cnt[Top.dst] = k
    BY <2>1, <2>2, <2>3, SlotIsNext DEF Shape
  <2>5. Store(k, ret, k + 1) /\ ret' = Pending /\ Top.op \in CloneOps
    BY <1>4, <2>1, <2>2, <2>4 DEF CloneOps
  <2> QED BY <1>1, <2>1, <2>2, <2>5, StoreCopies DEF Shape
<1>5. CASE MapCloneAdd
  <2> USE DEF MapCloneAdd
  <2>1. call # <<>> /\ Top.op \in CloneOps /\ ret # Pending /\ ret' = Pending
    BY <1>5 DEF Running, CloneOps
  <2>2. PICK k \in Top.todo : First(k) /\ Store(k, ret, 0) /\ call' = Handled({k})
    BY <1>5
  <2> QED BY <1>1, <2>1, <2>2, StoreCopies DEF Shape
<1>6. CASE Finish
  <2> USE DEF Finish
  <2>1. /\ call # <<>> /\ Top.op \in CloneOps \cup {"coNewVectorByMap"} /\ Top.todo = {}
        /\ call' = Below /\ ret' = Top.dst /\ UNCHANGED heap
    BY <1>6 DEF Running, Return, CloneOps
  <2>2. CASE Top.op \in CloneOps
    BY <2>1, <2>2, FinishCopies
  <2>3. CASE Top.op = "coNewVectorByMap"
    <3>1. Len(call) = 1
      BY <1>1, <2>1, <2>3 DEF FramesRead, AtBottom
    <3>2. Len(call') = 0
      BY <2>1, <3>1, BelowType DEF Inv
    <3> QED BY <1>2, <1>3, <3>2
  <2> QED BY <2>1, <2>2, <2>3
<1>7. CASE AppendFinish
  <2>1. call # <<>> /\ Top.op = "coVectorAppendVector" /\ call' = Below
    BY <1>7 DEF AppendFinish, Running, Return
  <2>2. Len(call) = 1
    BY <1>1, <2>1 DEF FramesRead, AtBottom
  <2>3. Len(call') = 0
    BY <2>1, <2>2, BelowType DEF Inv
  <2> QED BY <1>2, <1>3, <2>3
<1>8. CASE AppendAdd
  <2>1. PICK k \in Top.todo : call' = Handled({k})
    BY <1>8 DEF AppendAdd
  <2>2. call # <<>> /\ Top.op \in AtBottom /\ ret' = Pending
    BY <1>8 DEF AppendAdd, Running, AtBottom
  <2> QED BY <2>1, <2>2, BottomCopies
<1>9. CASE ByMapAdd
  <2>1. PICK k \in Top.todo : call' = Handled({k})
    BY <1>9 DEF ByMapAdd, AddPair
  <2>2. call # <<>> /\ Top.op = "coNewVectorByMap" /\ ret' = ret
    BY <1>9 DEF ByMapAdd, Running
  <2>3. ret = Pending
    BY <2>2 DEF CopiesFrom, ResultCopies
  <2> QED BY <2>1, <2>2, <2>3, BottomCopies DEF AtBottom
<1>10. CASE Received
  BY <1>3, <1>10 DEF Received
<1>11. CASE CloneElem
  BY <1>11, CloneElemCopies
<1>12. CASE \/ VectorMapFail \/ MapCloneSkip \/ MapCloneFail \/ AppendRollback
            \/ ByMapSkip \/ ByMapFail
  BY <1>12 DEF VectorMapFail, MapCloneSkip, MapCloneFail, AppendRollback, ByMapSkip,
               ByMapFail, AddFails
<1>13. CASE CloneHalts \/ ByMapHalts
  BY <1>1, <1>13 DEF CloneHalts, ByMapHalts, Running
<1> QED BY <1>4, <1>5, <1>6, <1>7, <1>8, <1>9, <1>10, <1>11, <1>12, <1>13 DEF LibStep


\* A copy that is complete: whatever is not is built by another frame, which holds it.
LEMMA CompleteIsDeep ==
  ASSUME Inv, SlotsFull, NEW R \in SUBSET Obj, NEW T \in SUBSET Obj, NEW m \in [Obj -> Obj],
         CopiesFrom(R, T, m), NEW b \in T, DOMAIN elem[b] = DOMAIN elem[m[b]]
  PROVE  DeepCopy(m[b], b)
<1>1. Mapped(R, T, m) /\ FramesCopy(R, T, m)
  BY DEF CopiesFrom
<1>2. ASSUME NEW x \in T, x = b \/ x \in Tree({b}) PROVE DOMAIN elem[x] = DOMAIN elem[m[x]]
  <2>1. CASE \E n \in 1 .. Len(call) : call[n].dst = x
    <3>1. x \in held
      BY <2>1, ObjAssumption DEF Inv, FramesOK
    <3>2. {b} \in SUBSET Obj
      OBVIOUS
    <3>3. x = b
      BY <1>2, <3>1, <3>2, TreeSparesHeld
    <3> QED BY <3>3
  <2>2. CASE DOMAIN elem[x] = DOMAIN elem[m[x]]
    BY <2>2
  <2> QED BY <1>1, <2>1, <2>2 DEF FramesCopy
<1> QED BY <1>1, <1>2, MappedDeep

LEMMA CopiedIsEqual ==
  ASSUME Inv, NoFailure, Copied
  PROVE  CloneEqual
<1> USE DEF NoFailure
<1>1. PICK R \in SUBSET Obj, T \in SUBSET Obj, m \in [Obj -> Obj] : CopiesFrom(R, T, m)
  BY DEF Copied
<1>2. ASSUME call # <<>>, Top.op \in {"coVectorMap", "coMapClone"}, Top.todo = {}
      PROVE  Top.dst # NULL /\ DeepCopy(Top.src, Top.dst)
  <2>1. Len(call) \in 1 .. Len(call) /\ Top = call[Len(call)]
    BY <1>2, TopType DEF Inv, Top
  <2>2. /\ Top.dst \in T /\ m[Top.dst] = Top.src
        /\ DOMAIN elem[Top.dst] = DOMAIN elem[Top.src]
    BY <1>1, <1>2, <2>1 DEF CopiesFrom, FramesCopy, FrameCopies, CloneOps
  <2>3. DeepCopy(m[Top.dst], Top.dst)
    BY <1>1, <2>2, CompleteIsDeep
  <2> QED BY <2>1, <2>2, <2>3
<1>3. ASSUME call # <<>>, ret # Pending, NEW k \in Top.todo, First(k)
      PROVE  DeepCopy(elem[Top.src][k], ret)
  <2>1. /\ ret \in T /\ DOMAIN elem[ret] = DOMAIN elem[m[ret]]
        /\ NextElem(Top, m[ret])
    BY <1>1, <1>3 DEF CopiesFrom, ResultCopies
  <2>2. PICK j \in Top.todo : (\A i \in Top.todo : j <= i) /\ m[ret] = elem[Top.src][j]
    BY <2>1 DEF NextElem
  <2>3. j \in Nat /\ k \in Nat /\ j <= k /\ k <= j
    BY <1>3, <2>2, TopType, IdxNat DEF First, Inv
  <2>4. m[ret] = elem[Top.src][k]
    BY <2>2, <2>3
  <2>5. DeepCopy(m[ret], ret)
    BY <1>1, <2>1, CompleteIsDeep
  <2> QED BY <2>4, <2>5
<1> QED BY <1>2, <1>3 DEF CloneEqual

\* Without memory errors, and when no NULL is stored, coClone returns a deep copy,
\* whatever is cloned: of the object it is called for, and of every element on the
\* way, also for coVectorAppendVector.
THEOREM ClonesAreDeep ==
  ASSUME ~StoreNull
  PROVE  Spec => []CloneEqual
<1> DEFINE CopyInv == NoFailure /\ LeavesBare /\ Copied
<1>1. Init => CopyInv
  <2> SUFFICES ASSUME Init PROVE CopyInv
    OBVIOUS
  <2>1. NoFailure /\ LeavesBare
    BY ObjAssumption, NoSlotsType DEF Init, NoFailure, SlotsFull, LeavesBare
  <2>2. Fresh /\ call \in Seq(Frame) /\ {} \in SUBSET Live
    BY DEF Init, Fresh
  <2>3. PICK m \in [Obj -> Obj] : CopiesFrom({}, {}, m)
    BY <2>2, FreshCopies
  <2>4. {} \in SUBSET Obj
    OBVIOUS
  <2> QED BY <2>1, <2>3, <2>4 DEF Copied
<1>2. SourcesInv /\ SourcesInv' /\ ~oom /\ CopyInv /\ [Next]_vars => CopyInv'
  <2> SUFFICES ASSUME SourcesInv, SourcesInv', ~oom, CopyInv, [Next]_vars PROVE CopyInv'
    OBVIOUS
  <2>1. /\ Inv /\ Inv' /\ Shape /\ Sources /\ Sources' /\ FramesRead
        /\ NoFailure /\ LeavesBare /\ Copied
    BY DEF SourcesInv, AccountInv, Sources
  <2>2. CASE Next
    <3>1. NoFailure' /\ LeavesBare'
      BY <2>1, <2>2, AppFull, LibFull, AppBare, LibBare DEF Next
    <3>2. CopiesBefore
      BY <2>1 DEF CopiesBefore
    <3>3. Copied'
      BY <2>1, <2>2, <3>2, AppCopies, LibCopies DEF Next, Copied
    <3> QED BY <3>1, <3>3
  <2>3. CASE UNCHANGED vars
    <3>1. UNCHANGED <<kind, flags, elem, call, ret, lost>> /\ Live' = Live
      BY <2>3 DEF vars, heap, Live
    <3>2. NoFailure' /\ LeavesBare'
      BY <2>1, <3>1 DEF NoFailure, SlotsFull, LeavesBare
    <3>3. PICK R \in SUBSET Obj, T \in SUBSET Obj, m \in [Obj -> Obj] : CopiesFrom(R, T, m)
      BY <2>1 DEF Copied
    <3>4. MappedNext(R, T, m)
      BY <3>1, <3>3 DEF CopiesFrom, Mapped, MappedNext, SlotsCopied, SlotsCopiedNext
    <3>5. FramesCopyNext(R, T, m)
      BY <3>1, <3>3 DEF CopiesFrom, FramesCopy, FramesCopyNext, FrameCopies,
                        FrameCopiesNext, NextElem, NextElemNext
    <3>6. ResultCopiesNext(T, m)
      BY <3>1, <3>3 DEF CopiesFrom, ResultCopies, ResultCopiesNext, NextElem,
                        NextElemNext, Top
    <3> QED BY <3>2, <3>4, <3>5, <3>6, CopiedNext
  <2> QED BY <2>2, <2>3
<1>3. [Next]_vars => oom' = oom
  BY DEF Next, vars
<1> DEFINE CleanInv == ~oom => CopyInv
<1>4. SourcesInv /\ SourcesInv' /\ CleanInv /\ [Next]_vars => CleanInv'
  <2> HIDE DEF CopyInv
  <2> QED BY <1>2, <1>3
<1>5. SourcesInv /\ CleanInv => CloneEqual
  BY CopiedIsEqual DEF SourcesInv, AccountInv, CloneEqual
<1>6. Init => CleanInv
  BY <1>1
<1> HIDE DEF CleanInv
<1> QED BY <1>4, <1>5, <1>6, SourcesInvariant, PTL DEF Spec
=============================================================================
