---------------------------- MODULE CoObjectProof ----------------------------
(***************************************************************************)
(* Proofs about CoObject: every variable keeps its type, and every object  *)
(* keeps having one owner, for any number of addresses, any use of flags   *)
(* and any memory error.                                                   *)
(***************************************************************************)
EXTENDS CoObject, SequenceTheorems, TLAPS

\* The inductive invariant of the ownership proof.
Inv == StateOK /\ FreeIsBlank /\ FramesOK /\ OneOwner

-----------------------------------------------------------------------------
(* What coDelete frees *)

\* The tree of S contains S ...
LEMMA TreeContains == ASSUME NEW S \in SUBSET Obj PROVE S \subseteq Tree(S)
  BY DEF Tree

\* ... and with a container all it owns ...
LEMMA TreeClosed ==
  ASSUME NEW S \in SUBSET Obj, NEW o \in Tree(S), NEW i \in Idx,
         OwnedSlot(o, i), elem[o][i] \in Obj
  PROVE  elem[o][i] \in Tree(S)
<1>1. elem[o][i] \in Owned(o, Idx)
  BY DEF Owned, OwnedSlot
<1>2. ASSUME NEW T \in SUBSET Obj, S \subseteq T, Closed(T)
      PROVE  elem[o][i] \in T
  <2>1. o \in T
    BY <1>2 DEF Tree
  <2> QED BY <1>1, <1>2, <2>1 DEF Closed
<1> QED BY <1>2 DEF Tree

\* ... and nothing else: it is part of every closed set that contains S.
LEMMA TreeLeast ==
  ASSUME NEW S \in SUBSET Obj, NEW T \in SUBSET Obj, S \subseteq T, Closed(T)
  PROVE  Tree(S) \subseteq T
  BY DEF Tree

\* A set is closed when it contains what the slots of its objects own.
LEMMA ClosedBySlots ==
  ASSUME StateOK, FreeIsBlank, NEW T \in SUBSET Obj,
         \A o \in T, i \in Idx : OwnedSlot(o, i) => elem[o][i] \in T
  PROVE  Closed(T)
<1> SUFFICES ASSUME NEW o \in T, NEW x \in Owned(o, Idx) PROVE x \in T
  BY DEF Closed
<1>1. PICK i \in DOMAIN elem[o] \cap Idx : Owns(o, i) /\ x = elem[o][i] /\ x # NULL
  BY DEF Owned
<1>2. kind[o] # "free"
  BY <1>1 DEF FreeIsBlank, NoSlots
<1> QED BY <1>1, <1>2 DEF OwnedSlot, Live

\* An object that a local variable owns, or that is lost, is freed only if it
\* is named.
LEMMA TreeSparesHeld ==
  ASSUME Inv, NEW S \in SUBSET Obj, NEW x \in held \cup lost, x \notin S
  PROVE  x \notin Tree(S)
<1> DEFINE T == Obj \ {x}
<1>1. Closed(T)
  BY ClosedBySlots DEF Inv, OneOwner, Live
<1> QED BY <1>1, TreeLeast

\* A container that survives keeps what it owns, unless that is named.
LEMMA TreeSparesOwned ==
  ASSUME Inv, NEW S \in SUBSET Obj,
         NEW q \in Obj \ Tree(S), NEW j \in Idx, OwnedSlot(q, j),
         elem[q][j] \notin S
  PROVE  elem[q][j] \notin Tree(S)
<1> DEFINE x == elem[q][j]
           T == Tree(S) \ {x}
<1>1. T \in SUBSET Obj /\ S \subseteq T
  BY TreeContains DEF Tree
<1>2. Closed(T)
  <2>1. ASSUME NEW o \in T, NEW i \in Idx, OwnedSlot(o, i) PROVE elem[o][i] \in T
    <3>1. elem[o][i] \in Obj
      BY <1>1, <2>1 DEF Inv, OneOwner, Live
    <3>2. elem[o][i] \in Tree(S)
      BY <2>1, <3>1, TreeClosed
    <3>3. elem[o][i] # x
      BY <1>1, <2>1 DEF Inv, OneOwner
    <3> QED BY <3>2, <3>3
  <2> QED BY <1>1, <2>1, ClosedBySlots DEF Inv
<1> QED BY <1>1, <1>2, TreeLeast

-----------------------------------------------------------------------------
(* Types *)

HeapOK ==
  /\ kind  \in [Obj -> Kinds]
  /\ flags \in [Obj -> SUBSET Flags]
  /\ elem  \in [Obj -> Slots]
  /\ cnt   \in [Obj -> 0 .. MaxCnt]

LEMMA IdxNat == Idx \subseteq Nat /\ 0 .. MaxCnt \subseteq Idx /\ Key \subseteq Idx
  BY BoundAssumption DEF Idx

\* Slots are functions on indices.
LEMMA SlotsIn ==
  ASSUME NEW D \in SUBSET Idx, NEW f \in [D -> Obj \cup {NULL}]
  PROVE  f \in Slots
  BY DEF Slots

LEMMA SlotsOut ==
  ASSUME NEW f \in Slots
  PROVE  /\ DOMAIN f \subseteq Idx
         /\ f \in [DOMAIN f -> Obj \cup {NULL}]
         /\ \A i \in DOMAIN f : f[i] \in Obj \cup {NULL}
  BY DEF Slots

LEMMA NoSlotsType == NoSlots \in Slots /\ DOMAIN NoSlots = {}
<1>1. NoSlots \in [{} -> Obj \cup {NULL}]
  BY DEF NoSlots
<1> QED BY <1>1, SlotsIn DEF NoSlots

LEMMA SlotType ==
  ASSUME NEW i \in Idx, NEW p \in Obj \cup {NULL}
  PROVE  Slot(i, p) \in Slots /\ DOMAIN Slot(i, p) = {i} /\ Slot(i, p)[i] = p
<1>1. Slot(i, p) \in [{i} -> Obj \cup {NULL}]
  BY DEF Slot
<1> QED BY <1>1, SlotsIn DEF Slot

\* the slots that ReplaceF gives v
NewSlots(v, D, new) ==
  [i \in (DOMAIN elem[v] \ D) \cup DOMAIN new |->
     IF i \in DOMAIN new THEN new[i] ELSE elem[v][i]]

LEMMA NewSlotsType ==
  ASSUME HeapOK, NEW v \in Obj, NEW D, NEW new \in Slots
  PROVE  NewSlots(v, D, new) \in Slots
<1>1. elem[v] \in Slots
  BY DEF HeapOK
<1>2. (DOMAIN elem[v] \ D) \cup DOMAIN new \in SUBSET Idx
  BY <1>1, SlotsOut
<1>3. \A i \in (DOMAIN elem[v] \ D) \cup DOMAIN new :
        (IF i \in DOMAIN new THEN new[i] ELSE elem[v][i]) \in Obj \cup {NULL}
  BY <1>1, SlotsOut
<1>4. NewSlots(v, D, new) \in [(DOMAIN elem[v] \ D) \cup DOMAIN new -> Obj \cup {NULL}]
  BY <1>3 DEF NewSlots
<1> QED BY <1>2, <1>4, SlotsIn

\* Freeing objects keeps the types.
LEMMA FreeType ==
  ASSUME HeapOK, NEW T, NEW e \in [Obj -> Slots], NEW c \in [Obj -> 0 .. MaxCnt],
         NEW f \in [Obj -> SUBSET Flags], Free(T, e, c, f)
  PROVE  HeapOK'
<1> USE BoundAssumption
<1>1. kind' \in [Obj -> Kinds]
  BY DEF Free, HeapOK, Kinds
<1>2. flags' \in [Obj -> SUBSET Flags]
  BY DEF Free
<1>3. elem' \in [Obj -> Slots]
  BY NoSlotsType DEF Free
<1>4. cnt' \in [Obj -> 0 .. MaxCnt]
  <2>1. 0 \in 0 .. MaxCnt
    OBVIOUS
  <2> QED BY <2>1 DEF Free
<1> QED BY <1>1, <1>2, <1>3, <1>4 DEF HeapOK

\* ReplaceF is Free of what v owned in the slots D.
LEMMA ReplaceType ==
  ASSUME HeapOK, NEW v \in Obj, NEW D, NEW new \in Slots, NEW n \in 0 .. MaxCnt,
         NEW f \in [Obj -> SUBSET Flags], ReplaceF(v, D, new, n, f)
  PROVE  HeapOK'
<1> DEFINE e == [elem EXCEPT ![v] = NewSlots(v, D, new)]
           c == [cnt EXCEPT ![v] = n]
<1>1. e \in [Obj -> Slots]
  BY NewSlotsType DEF HeapOK
<1>2. c \in [Obj -> 0 .. MaxCnt]
  BY DEF HeapOK
<1>3. Free(Tree(Owned(v, D)), e, c, f)
  BY DEF ReplaceF, NewSlots
<1> HIDE DEF e, c
<1> QED BY <1>1, <1>2, <1>3, FreeType

\* Alloc keeps the types.
LEMMA AllocType ==
  ASSUME HeapOK, NEW o \in Obj, NEW k \in Kinds, NEW f \in SUBSET Flags, Alloc(o, k, f)
  PROVE  HeapOK'
  BY DEF HeapOK, Alloc

-----------------------------------------------------------------------------
(* Ownership *)

\* the local variables give up M, of which L is lost
Leave(M, L) == /\ L \subseteq M /\ M \subseteq held
               /\ held' = held \ M /\ lost' = lost \cup L

\* What v owned in its slots D is freed, one slot of v may be filled, the
\* objects M leave the local variables: those of L are lost, any other that
\* the slot owns is the one in the slot.
LEMMA ReplaceOneOwner ==
  ASSUME Inv, NEW v \in held, NEW D \in SUBSET Idx, NEW new \in Slots, NEW n,
         NEW f \in [Obj -> SUBSET Flags], \A o \in Obj : f[o] \subseteq flags[o],
         NEW M, NEW L, Leave(M, L),
         \A i, j \in DOMAIN new : i = j,
         \A i \in DOMAIN new : Owns(v, i) => new[i] \in (M \ L) \cup {NULL},
         ReplaceF(v, D, new, n, f)
  PROVE  OneOwner' /\ FreeIsBlank'
<1> DEFINE T == Tree(Owned(v, D))
<1> USE DEF Inv, Leave
<1>1. v \in Live /\ v \in Obj /\ held \cup lost \subseteq Live
  BY DEF OneOwner, Live
<1>2. \A x \in Owned(v, D) : \E i \in D : OwnedSlot(v, i) /\ x = elem[v][i]
  BY <1>1 DEF Owned, OwnedSlot
<1>3. Owned(v, D) \in SUBSET Obj
  BY <1>1, <1>2 DEF OneOwner, Live
<1>4. \A x \in held \cup lost : x \notin T
  BY <1>1, <1>2, <1>3, TreeSparesHeld DEF OneOwner
<1>5. ASSUME NEW q \in Obj \ T, NEW j \in Idx, OwnedSlot(q, j), ~ (q = v /\ j \in D)
      PROVE  elem[q][j] \notin T
  <2>1. elem[q][j] \notin Owned(v, D)
    BY <1>1, <1>2, <1>5 DEF OneOwner
  <2> QED BY <1>3, <1>5, <2>1, TreeSparesOwned
<1>6. /\ kind'  = [o \in Obj |-> IF o \in T THEN "free" ELSE kind[o]]
      /\ flags' = [o \in Obj |-> IF o \in T THEN {} ELSE f[o]]
      /\ elem'  = [o \in Obj |-> IF o \in T THEN NoSlots ELSE
                     [elem EXCEPT ![v] = NewSlots(v, D, new)][o]]
  BY DEF ReplaceF, Free, NewSlots
<1>7. Live' = Live \ T
  BY <1>6 DEF Live
<1>8. FreeIsBlank'
  <2>1. ASSUME NEW o \in Obj, kind'[o] = "free" PROVE elem'[o] = NoSlots
    <3>1. CASE o \in T
      BY <1>6, <3>1
    <3>2. CASE o \notin T
      <4>1. o # v /\ kind[o] = "free"
        BY <1>1, <1>6, <2>1, <3>2 DEF Live
      <4> QED BY <1>6, <3>2, <4>1 DEF FreeIsBlank, StateOK
    <3> QED BY <3>1, <3>2
  <2> QED BY <2>1 DEF FreeIsBlank
<1>9. ASSUME NEW q \in Obj, NEW j \in Idx, OwnedSlot(q, j)'
      PROVE  /\ q \in Live \ T
             /\ \/ /\ OwnedSlot(q, j) /\ ~ (q = v /\ j \in D)
                   /\ elem'[q][j] = elem[q][j]
                   /\ elem[q][j] \in Live \ (T \cup held \cup lost)
                \/ /\ q = v /\ j \in DOMAIN new
                   /\ elem'[q][j] = new[j] /\ new[j] \in M \ L
  <2>1. q \in Live \ T
    BY <1>7, <1>9 DEF OwnedSlot
  <2>2. Owns(q, j)
    BY <1>6, <1>9, <2>1 DEF OwnedSlot, Owns
  <2>3. CASE q = v
    <3>1. elem'[q] = NewSlots(v, D, new)
      BY <1>1, <1>6, <2>1, <2>3 DEF StateOK
    <3>2. CASE j \in DOMAIN new
      <4>1. elem'[q][j] = new[j] /\ new[j] # NULL
        BY <1>9, <3>1, <3>2 DEF NewSlots, OwnedSlot
      <4> QED BY <2>1, <2>2, <2>3, <3>2, <4>1
    <3>3. CASE j \notin DOMAIN new
      <4>1. j \in DOMAIN elem[q] /\ j \notin D /\ elem'[q][j] = elem[q][j]
        BY <1>9, <2>3, <3>1, <3>3 DEF NewSlots, OwnedSlot
      <4>2. OwnedSlot(q, j)
        BY <1>9, <2>1, <2>2, <4>1 DEF OwnedSlot
      <4> QED BY <1>5, <2>1, <4>1, <4>2 DEF OneOwner
    <3> QED BY <3>2, <3>3
  <2>4. CASE q # v
    <3>1. elem'[q] = elem[q]
      BY <1>6, <2>1, <2>4 DEF StateOK
    <3>2. OwnedSlot(q, j)
      BY <1>9, <2>1, <2>2, <3>1 DEF OwnedSlot
    <3> QED BY <1>5, <2>1, <2>4, <3>1, <3>2 DEF OneOwner
  <2> QED BY <2>3, <2>4
<1>10. held' \cup lost' \subseteq Live' /\ held' \cap lost' = {}
  BY <1>1, <1>4, <1>7 DEF OneOwner
<1>11. ASSUME NEW o \in Obj, NEW i \in Idx, OwnedSlot(o, i)'
       PROVE  elem'[o][i] \in Live' \ (held' \cup lost')
  BY <1>1, <1>4, <1>7, <1>9, <1>11 DEF OneOwner
<1>12. ASSUME NEW o \in Obj, NEW q \in Obj, NEW i \in Idx, NEW j \in Idx,
              OwnedSlot(o, i)', OwnedSlot(q, j)', elem'[o][i] = elem'[q][j]
       PROVE  o = q /\ i = j
  BY <1>9, <1>12 DEF OneOwner
<1> QED BY <1>8, <1>10, <1>11, <1>12 DEF OneOwner

\* coDelete of a held object; one that is lost with it goes to lost.
LEMMA DeleteOneOwner ==
  ASSUME Inv, NEW d \in held, Free(Tree({d}), elem, cnt, flags),
         NEW L \in SUBSET (held \ {d}), held' = held \ ({d} \cup L),
         lost' = lost \cup L
  PROVE  OneOwner' /\ FreeIsBlank'
<1> DEFINE T == Tree({d})
<1> USE DEF Inv
<1>1. d \in Obj /\ {d} \in SUBSET Obj /\ held \cup lost \subseteq Live
  BY DEF OneOwner, Live
<1>2. \A x \in (held \cup lost) \ {d} : x \notin T
  BY <1>1, TreeSparesHeld
<1>3. ASSUME NEW q \in Obj \ T, NEW j \in Idx, OwnedSlot(q, j)
      PROVE  elem[q][j] \notin T
  <2>1. elem[q][j] \notin {d}
    BY <1>3 DEF OneOwner
  <2> QED BY <1>1, <1>3, <2>1, TreeSparesOwned
<1>4. /\ kind'  = [o \in Obj |-> IF o \in T THEN "free" ELSE kind[o]]
      /\ flags' = [o \in Obj |-> IF o \in T THEN {} ELSE flags[o]]
      /\ elem'  = [o \in Obj |-> IF o \in T THEN NoSlots ELSE elem[o]]
  BY DEF Free
<1>5. Live' = Live \ T
  BY <1>4 DEF Live
<1>6. FreeIsBlank'
  BY <1>4 DEF FreeIsBlank
<1>7. ASSUME NEW q \in Obj, NEW j \in Idx, OwnedSlot(q, j)'
      PROVE  /\ q \in Live \ T /\ OwnedSlot(q, j) /\ elem'[q][j] = elem[q][j]
             /\ elem[q][j] \in Live \ (T \cup held \cup lost)
  <2>1. q \in Live \ T
    BY <1>5, <1>7 DEF OwnedSlot
  <2>2. OwnedSlot(q, j) /\ elem'[q] = elem[q]
    BY <1>4, <1>7, <2>1 DEF OwnedSlot, Owns
  <2> QED BY <1>3, <2>1, <2>2 DEF OneOwner
<1>8. d \notin held' \cup lost' /\ held' \cup lost' \subseteq Live'
  BY <1>1, <1>2, <1>5 DEF OneOwner
<1>9. held' \cap lost' = {}
  BY DEF OneOwner
<1>10. ASSUME NEW o \in Obj, NEW i \in Idx, OwnedSlot(o, i)'
       PROVE  elem'[o][i] \in Live' \ (held' \cup lost')
  BY <1>5, <1>7, <1>10
<1>11. ASSUME NEW o \in Obj, NEW q \in Obj, NEW i \in Idx, NEW j \in Idx,
              OwnedSlot(o, i)', OwnedSlot(q, j)', elem'[o][i] = elem'[q][j]
       PROVE  o = q /\ i = j
  BY <1>7, <1>11 DEF OneOwner
<1> QED BY <1>6, <1>8, <1>9, <1>10, <1>11 DEF OneOwner

\* A new object is empty, and owned by a local variable or lost.
LEMMA AllocOneOwner ==
  ASSUME Inv, NEW o \in Obj, NEW k \in Kinds \ {"free"}, NEW f \in SUBSET Flags,
         Alloc(o, k, f),
         \/ held' = held \cup {o} /\ lost' = lost
         \/ held' = held /\ lost' = lost \cup {o}
  PROVE  OneOwner' /\ FreeIsBlank'
<1> USE DEF Inv
<1>1. /\ kind'  = [kind EXCEPT ![o] = k]
      /\ flags' = [flags EXCEPT ![o] = f]
      /\ elem'  = elem /\ kind[o] = "free"
  BY DEF Alloc
<1>2. Live' = Live \cup {o} /\ o \notin Live
  BY <1>1 DEF Live, StateOK
<1>3. FreeIsBlank'
  BY <1>1 DEF FreeIsBlank, StateOK
<1>4. elem[o] = NoSlots
  BY <1>1 DEF FreeIsBlank
<1>5. ASSUME NEW q \in Obj, NEW j \in Idx, OwnedSlot(q, j)'
      PROVE  OwnedSlot(q, j)
  <2>1. q # o
    BY <1>1, <1>4, <1>5 DEF OwnedSlot, NoSlots
  <2> QED BY <1>1, <1>2, <1>5, <2>1 DEF OwnedSlot, Owns, StateOK
<1> QED BY <1>1, <1>2, <1>3, <1>5 DEF OneOwner

-----------------------------------------------------------------------------
(* Frames *)

Ops == {"coVectorMap", "coMapClone", "coVectorAppendVector", "coNewVectorByMap"}

Dst == Obj \cup {NULL}

\* The frame on top.
LEMMA TopType ==
  ASSUME StateOK, call # <<>>
  PROVE  /\ Len(call) \in 1 .. Len(call)
         /\ Top \in Frame /\ Top.src \in Obj /\ Top.dst \in Obj \cup {NULL}
         /\ Top.todo \subseteq Idx /\ Top.old \in 0 .. MaxCnt /\ Top.root \in Idx
<1>1. Len(call) \in 1 .. Len(call) /\ Top \in Frame
  BY DEF StateOK, Top
<1> QED BY <1>1 DEF Frame

\* Pushing a frame.
LEMMA PushType ==
  ASSUME StateOK, NEW op \in Ops, NEW src \in Obj, NEW dst \in Dst,
         NEW old \in 0 .. MaxCnt, NEW root \in Idx
  PROVE  /\ Push(op, src, dst, old, root) \in Seq(Frame)
         /\ Len(Push(op, src, dst, old, root)) = Len(call) + 1
         /\ \A n \in 1 .. Len(call) : Push(op, src, dst, old, root)[n] = call[n]
         /\ Push(op, src, dst, old, root)[Len(call) + 1].dst = dst
         /\ Push(op, src, dst, old, root)[Len(call) + 1].op = op
<1> DEFINE fr == [op |-> op, src |-> src, dst |-> dst, todo |-> DOMAIN elem[src],
                  old |-> old, root |-> root]
<1>1. DOMAIN elem[src] \subseteq Idx
  BY SlotsOut DEF StateOK
<1>2. fr \in Frame /\ fr.dst = dst /\ fr.op = op
  BY <1>1 DEF Frame, Ops, Dst
<1> HIDE DEF fr
<1>3. call \in Seq(Frame)
  BY DEF StateOK
<1>4. Append(call, fr) \in Seq(Frame) /\ Len(Append(call, fr)) = Len(call) + 1
  BY <1>2, <1>3
<1>5. /\ \A n \in 1 .. Len(call) : Append(call, fr)[n] = call[n]
      /\ Append(call, fr)[Len(call) + 1] = fr
  BY <1>2, <1>3
<1>6. Push(op, src, dst, old, root) = Append(call, fr)
  BY DEF Push, fr
<1> QED BY <1>2, <1>4, <1>5, <1>6

\* Removing handled slots from the frame on top, and removing that frame.
LEMMA HandledType ==
  ASSUME StateOK, call # <<>>, NEW D
  PROVE  /\ Handled(D) \in Seq(Frame) /\ Len(Handled(D)) = Len(call)
         /\ \A n \in 1 .. Len(call) : /\ Handled(D)[n].dst = call[n].dst
                                      /\ Handled(D)[n].op = call[n].op
<1> DEFINE top == [Top EXCEPT !.todo = @ \ D]
<1>1. call \in Seq(Frame) /\ Len(call) \in 1 .. Len(call) /\ Top \in Frame
  BY TopType DEF StateOK
<1>2. top \in Frame /\ top.dst = Top.dst /\ top.op = Top.op
  BY <1>1 DEF Frame
<1>3. Handled(D) = [call EXCEPT ![Len(call)] = top]
  BY DEF Handled, Top
<1> HIDE DEF top
<1> QED BY <1>1, <1>2, <1>3 DEF Top

LEMMA BelowType ==
  ASSUME StateOK, call # <<>>
  PROVE  /\ Below \in Seq(Frame) /\ Len(Below) = Len(call) - 1
         /\ \A n \in 1 .. Len(Below) : Below[n] = call[n]
<1>1. call \in Seq(Frame) /\ Len(call) \in Nat \ {0}
  BY DEF StateOK
<1>2. \A i \in 1 .. Len(call) - 1 : call[i] \in Frame
  BY <1>1
<1> DEFINE k == Len(call) - 1
<1>3. k \in Int /\ k \in Nat /\ 1 \in Int /\ \A i \in 1 .. k : call[i] \in Frame
  BY <1>1, <1>2
<1> HIDE DEF k
<1>4. /\ SubSeq(call, 1, k) \in Seq(Frame)
      /\ Len(SubSeq(call, 1, k)) = IF 1 <= k THEN k - 1 + 1 ELSE 0
      /\ \A i \in 1 .. k - 1 + 1 : SubSeq(call, 1, k)[i] = call[1 + i - 1]
  BY <1>3, SubSeqProperties
<1>5. Len(SubSeq(call, 1, k)) = k /\ \A i \in 1 .. k : SubSeq(call, 1, k)[i] = call[i]
  BY <1>3, <1>4
<1> QED BY <1>4, <1>5 DEF Below, k

\* The frames stay right when none is added and what they build stays held.
LEMMA FramesKept ==
  ASSUME StateOK, FramesOK, call' \in Seq(Frame), Len(call') <= Len(call),
         \A n \in 1 .. Len(call') : /\ call'[n].dst = call[n].dst
                                    /\ call'[n].op = call[n].op,
         \A n \in 1 .. Len(call') : call[n].dst \in held => call[n].dst \in held',
         ret' \in held' \cup {NULL, Pending},
         ret' # NULL => \A n \in 1 .. Len(call') : call[n].dst # ret'
  PROVE  FramesOK'
<1>1. \A n \in 1 .. Len(call') : n \in 1 .. Len(call)
  BY DEF StateOK
<1>2. ASSUME NEW n \in 1 .. Len(call')
      PROVE  /\ call'[n].dst \in held' \cup {NULL}
             /\ call'[n].dst = NULL => call'[n].op # "coVectorAppendVector"
             /\ ret' # NULL => call'[n].dst # ret'
             /\ \A m \in 1 .. Len(call') :
                  call'[n].dst # NULL /\ call'[m].dst = call'[n].dst => m = n
  BY <1>1 DEF FramesOK
<1> QED BY <1>2 DEF FramesOK

\* No function is running.
LEMMA FramesEmpty ==
  ASSUME call' = <<>>, ret' = Pending
  PROVE  FramesOK' /\ call' \in Seq(Frame)
  BY DEF FramesOK

-----------------------------------------------------------------------------
(* The steps of the application *)

LEMMA InvParts ==
  ASSUME HeapOK', held' \subseteq Obj, call' \in Seq(Frame),
         ret' \in Obj \cup {NULL, Pending}, lost' \subseteq Obj, halted' \in BOOLEAN,
         FreeIsBlank', FramesOK', OneOwner'
  PROVE  Inv'
  BY DEF Inv, StateOK, HeapOK

\* The application replaces slots of a container it holds; M is moved.
LEMMA AppReplace ==
  ASSUME Inv, Idle, NEW v \in held, NEW D \in SUBSET Idx, NEW new \in Slots,
         NEW n \in 0 .. MaxCnt, NEW f \in [Obj -> SUBSET Flags],
         \A o \in Obj : f[o] \subseteq flags[o],
         NEW M, \A i, j \in DOMAIN new : i = j,
         \A i \in DOMAIN new : Owns(v, i) => new[i] \in (M \cap held) \cup {NULL},
         ReplaceF(v, D, new, n, f), held' = held \ M,
         UNCHANGED <<call, ret, lost, halted>>
  PROVE  Inv'
<1>1. HeapOK /\ v \in Obj /\ held \subseteq Obj
  BY DEF Inv, StateOK, HeapOK
<1>2. HeapOK'
  BY <1>1, ReplaceType
<1>3. OneOwner' /\ FreeIsBlank'
  <2> DEFINE N == M \cap held
             K == {x \in N : FALSE}
  <2>1. N \ K = N /\ Leave(N, K)
    BY DEF Leave
  <2> HIDE DEF N, K
  <2>2. \A i \in DOMAIN new : Owns(v, i) => new[i] \in (N \ K) \cup {NULL}
    BY <2>1 DEF N
  <2> QED BY <2>1, <2>2, ReplaceOneOwner
<1>4. FramesOK' /\ call' \in Seq(Frame)
  BY FramesEmpty DEF Idle
<1> QED BY <1>1, <1>2, <1>3, <1>4, InvParts DEF Inv, StateOK

\* What the application may store is NULL or exists; what is moved is held.
LEMMA StoreType ==
  ASSUME Inv, NEW v, NEW i \in Idx, NEW p, MayStore(v, i, p)
  PROVE  /\ p \in Obj \cup {NULL}
         /\ Slot(i, p) \in Slots
         /\ \A j, k \in DOMAIN Slot(i, p) : j = k
         /\ \A j \in DOMAIN Slot(i, p) : Owns(v, j) =>
              Slot(i, p)[j] \in (Moved(v, i, p) \cap held) \cup {NULL}
<1>1. p \in Obj \cup {NULL}
  BY DEF MayStore, Live, Inv, StateOK
<1>2. Owns(v, i) => p \in (Moved(v, i, p) \cap held) \cup {NULL}
  BY DEF MayStore, Moved
<1>3. Slot(i, p) \in Slots /\ DOMAIN Slot(i, p) = {i} /\ Slot(i, p)[i] = p
  BY <1>1, SlotType
<1>4. \A j \in DOMAIN Slot(i, p) : j = i
  BY <1>3
<1> QED BY <1>1, <1>2, <1>3, <1>4

LEMMA AppStore ==
  ASSUME Inv, Idle, NEW v \in held, NEW D \in SUBSET Idx, NEW i \in Idx, NEW p,
         NEW n \in 0 .. MaxCnt, MayStore(v, i, p), Replace(v, D, Slot(i, p), n),
         held' = held \ Moved(v, i, p), UNCHANGED <<call, ret, lost, halted>>
  PROVE  Inv'
<1>1. ReplaceF(v, D, Slot(i, p), n, flags) /\ flags \in [Obj -> SUBSET Flags]
  BY DEF Replace, Inv, StateOK
<1> DEFINE new == Slot(i, p)
           M == Moved(v, i, p)
<1>2. /\ new \in Slots /\ \A j, k \in DOMAIN new : j = k
      /\ \A j \in DOMAIN new : Owns(v, j) => new[j] \in (M \cap held) \cup {NULL}
  BY StoreType
<1>3. ReplaceF(v, D, new, n, flags) /\ held' = held \ M
  BY <1>1
<1> HIDE DEF new, M
<1> QED BY <1>1, <1>2, <1>3, AppReplace

LEMMA AppRemove ==
  ASSUME Inv, Idle, NEW v \in held, NEW D \in SUBSET Idx, NEW n \in 0 .. MaxCnt,
         NEW f \in [Obj -> SUBSET Flags], \A o \in Obj : f[o] \subseteq flags[o],
         ReplaceF(v, D, NoSlots, n, f), UNCHANGED <<held, call, ret, lost, halted>>
  PROVE  Inv'
<1>1. held' = held \ {} 
  OBVIOUS
<1> QED BY <1>1, NoSlotsType, AppReplace

LEMMA CntType ==
  ASSUME Inv, NEW v \in Obj
  PROVE  cnt[v] \in 0 .. MaxCnt /\ cnt[v] \in Nat /\ MaxCnt \in Nat
  BY BoundAssumption DEF Inv, StateOK

LEMMA NewInv ==
  ASSUME Inv, Idle, NEW o \in Obj, NEW k \in Kinds \ {"free"}, NEW f \in SUBSET Flags,
         Alloc(o, k, f), held' = held \cup {o}, UNCHANGED <<call, ret, lost, halted>>
  PROVE  Inv'
<1>1. HeapOK'
  BY AllocType DEF Inv, StateOK, HeapOK
<1>2. OneOwner' /\ FreeIsBlank'
  BY AllocOneOwner
<1>3. FramesOK' /\ call' \in Seq(Frame)
  BY FramesEmpty DEF Idle
<1> QED BY <1>1, <1>2, <1>3, InvParts DEF Inv, StateOK

LEMMA DeleteInv == ASSUME Inv, NEW o \in Obj, coDelete(o) PROVE Inv'
<1> USE DEF coDelete
<1>1. HeapOK'
  BY FreeType DEF Inv, StateOK, HeapOK
<1>2. OneOwner' /\ FreeIsBlank'
  <2>1. {} \in SUBSET (held \ {o}) /\ held' = held \ ({o} \cup {}) /\ lost' = lost \cup {}
    OBVIOUS
  <2> QED BY <2>1, DeleteOneOwner
<1>3. FramesOK' /\ call' \in Seq(Frame)
  BY FramesEmpty DEF Idle
<1> QED BY <1>1, <1>2, <1>3, InvParts DEF Inv, StateOK

LEMMA VectorAddInv ==
  ASSUME Inv, NEW v \in Obj, NEW p, coVectorAdd(v, p) PROVE Inv'
<1>1. cnt[v] \in Idx /\ cnt[v] + 1 \in 0 .. MaxCnt
  BY CntType, IdxNat DEF coVectorAdd
<1> QED BY <1>1, AppStore DEF coVectorAdd, Mutable

LEMMA VectorSetInv ==
  ASSUME Inv, NEW v \in Obj, NEW p, NEW i \in Idx, coVectorSet(v, i, p) PROVE Inv'
<1>1. cnt[v] \in 0 .. MaxCnt
  BY CntType
<1> QED BY <1>1, AppStore DEF coVectorSet, Mutable

LEMMA MapAddInv ==
  ASSUME Inv, NEW m \in Obj, NEW p, NEW k \in Key, coMapAdd(m, k, p) PROVE Inv'
<1>1. 0 \in 0 .. MaxCnt /\ k \in Idx
  BY BoundAssumption, IdxNat
<1> QED BY <1>1, AppStore DEF coMapAdd, Mutable

LEMMA VectorEraseLastInv == ASSUME Inv, NEW v \in Obj, coVectorEraseLast(v) PROVE Inv'
<1> DEFINE i == cnt[v] - 1
           f == IF "CO_FREE_VALS" \notin flags[v] /\ i = 0
                  THEN [flags EXCEPT ![v] = @ \ {"CO_FREE_FIRST"}] ELSE flags
<1>1. i \in 0 .. MaxCnt /\ {i} \in SUBSET Idx
  BY CntType, IdxNat DEF coVectorEraseLast
<1>2. f \in [Obj -> SUBSET Flags] /\ \A o \in Obj : f[o] \subseteq flags[o]
  BY DEF Inv, StateOK
<1>3. ReplaceF(v, {i}, NoSlots, i, f)
  BY DEF coVectorEraseLast
<1> HIDE DEF i, f
<1> QED BY <1>1, <1>2, <1>3, AppRemove DEF coVectorEraseLast, Mutable

\* coVectorClear, coMapClear and coMapErase.
LEMMA RemoveInv ==
  ASSUME Inv, Idle, NEW v \in held, NEW D \in SUBSET Idx, Replace(v, D, NoSlots, 0),
         UNCHANGED <<held, call, ret, lost, halted>>
  PROVE  Inv'
<1>1. 0 \in 0 .. MaxCnt /\ flags \in [Obj -> SUBSET Flags]
  BY BoundAssumption DEF Inv, StateOK
<1> QED BY <1>1, AppRemove DEF Replace

LEMMA AppendStartInv ==
  ASSUME Inv, NEW v \in Obj, NEW src \in Obj, coVectorAppendVector(v, src)
  PROVE  Inv'
<1> USE DEF coVectorAppendVector
<1>1. "coVectorAppendVector" \in Ops /\ 0 \in Idx /\ cnt[v] \in 0 .. MaxCnt
      /\ v \in Dst /\ call = <<>> /\ ret = Pending /\ v \in held
  BY IdxNat, BoundAssumption, CntType DEF Ops, Idle, Mutable, Dst
<1>2. /\ call' \in Seq(Frame) /\ Len(call') = Len(call) + 1
      /\ call'[Len(call) + 1].dst = v
  BY <1>1, PushType DEF Inv
<1>3. Len(call) = 0
  BY <1>1
<1>4. FramesOK'
  BY <1>1, <1>2, <1>3, ObjAssumption DEF FramesOK, Inv, StateOK
<1>5. HeapOK' /\ OneOwner' /\ FreeIsBlank'
  BY DEF Inv, StateOK, HeapOK, OneOwner, FreeIsBlank, heap, OwnedSlot, Owns, Live
<1> QED BY <1>2, <1>4, <1>5, InvParts DEF Inv, StateOK

-----------------------------------------------------------------------------
(* The steps of the library *)

\* A container, or a NULL, for a new frame.
LEMMA EnterInv ==
  ASSUME Inv, ret = Pending, NEW op \in Ops \ {"coVectorAppendVector"}, NEW src \in Obj,
         NEW k \in {"vector", "map"}, NEW f \in SUBSET Flags, Enter(op, src, k, f)
  PROVE  Inv'
<1>1. k \in Kinds \ {"free"}
  BY DEF Kinds
<1>2. PICK root \in Roots(src) :
        \/ \E o \in Obj : /\ Alloc(o, k, f)
                          /\ held' = held \cup {o}
                          /\ call' = Push(op, src, o, 0, root)
        \/ /\ UNCHANGED <<heap, held>>
           /\ call' = Push(op, src, NULL, 0, root)
  BY DEF Enter
<1>3. root \in Idx /\ 0 \in 0 .. MaxCnt /\ ret' = Pending /\ lost' = lost /\ halted' = halted
  <2>1. elem[src] \in Slots
    BY DEF Inv, StateOK
  <2> QED BY <1>2, <2>1, SlotsOut, IdxNat, BoundAssumption DEF Roots, Enter
<1>4. held \subseteq Live /\ call \in Seq(Frame) /\ Len(call) \in Nat
  BY DEF Inv, OneOwner, StateOK
<1>5. CASE \E o \in Obj : /\ Alloc(o, k, f)
                          /\ held' = held \cup {o}
                          /\ call' = Push(op, src, o, 0, root)
  <2>1. PICK o \in Obj : /\ Alloc(o, k, f)
                         /\ held' = held \cup {o}
                         /\ call' = Push(op, src, o, 0, root)
    BY <1>5
  <2>2. o \notin held
    BY <1>4, <2>1 DEF Alloc, Live
  <2>3. /\ call' \in Seq(Frame) /\ Len(call') = Len(call) + 1
        /\ \A n \in 1 .. Len(call) : call'[n] = call[n]
        /\ call'[Len(call) + 1].dst = o
    BY <1>3, <2>1, PushType DEF Inv, Dst
  <2>4. FramesOK'
    <3>1. \A n \in 1 .. Len(call) : call[n].dst \in held \cup {NULL}
      BY DEF Inv, FramesOK
    <3>2. \A n \in 1 .. Len(call) + 1 : n \in 1 .. Len(call) \/ n = Len(call) + 1
      BY <1>4
    <3>3. ret' \in held' \cup {NULL, Pending} /\ ret' \notin Obj
      BY <1>3, ObjAssumption
    <3>4. \A n \in 1 .. Len(call') :
            /\ call'[n].dst \in held' \cup {NULL}
            /\ call'[n].dst = NULL => call'[n].op # "coVectorAppendVector"
            /\ call'[n].dst # Pending
      BY <2>1, <2>3, <3>1, <3>2, ObjAssumption DEF Inv, FramesOK, StateOK
    <3>5. \A n, m \in 1 .. Len(call') :
            call'[n].dst # NULL /\ call'[m].dst = call'[n].dst => m = n
      BY <2>1, <2>2, <2>3, <3>1, <3>2, ObjAssumption DEF Inv, FramesOK
    <3> QED BY <1>3, <3>3, <3>4, <3>5 DEF FramesOK
  <2>5. OneOwner' /\ FreeIsBlank'
    BY <1>1, <1>3, <2>1, AllocOneOwner
  <2>6. HeapOK'
    BY <1>1, <2>1, AllocType DEF Inv, StateOK, HeapOK
  <2> QED BY <1>3, <2>1, <2>3, <2>4, <2>5, <2>6, InvParts DEF Inv, StateOK
<1>6. CASE UNCHANGED <<heap, held>> /\ call' = Push(op, src, NULL, 0, root)
  <2>1. /\ call' \in Seq(Frame) /\ Len(call') = Len(call) + 1
        /\ \A n \in 1 .. Len(call) : call'[n] = call[n]
        /\ call'[Len(call) + 1].dst = NULL /\ call'[Len(call) + 1].op = op
    <3>1. StateOK /\ op \in Ops /\ NULL \in Dst /\ 0 \in 0 .. MaxCnt
      BY <1>3 DEF Inv, Dst
    <3> QED BY <1>3, <1>6, <3>1, PushType
  <2>2. FramesOK'
    <3>1. \A n \in 1 .. Len(call) + 1 : n \in 1 .. Len(call) \/ n = Len(call) + 1
      BY <1>4
    <3> QED BY <1>3, <1>6, <2>1, <3>1, ObjAssumption DEF Inv, FramesOK
  <2>3. HeapOK' /\ OneOwner' /\ FreeIsBlank'
    BY <1>3, <1>6 DEF Inv, StateOK, HeapOK, OneOwner, FreeIsBlank, heap, OwnedSlot, Owns, Live
  <2> QED BY <1>3, <1>6, <2>1, <2>2, <2>3, InvParts DEF Inv, StateOK
<1> QED BY <1>2, <1>5, <1>6

\* A leaf, or a NULL, is returned to the frame on top.
LEMMA CloneLeafInv ==
  ASSUME Inv, ret = Pending, NEW e \in Obj, kind[e] \in Leaves, CloneLeaf(e)
  PROVE  Inv'
<1>1. kind[e] \in Kinds \ {"free"} /\ {} \in SUBSET Flags
  BY DEF Leaves, Kinds
<1>2. call' = call /\ halted' = halted /\ call \in Seq(Frame)
  BY DEF CloneLeaf, Inv, StateOK
<1>3. CASE \E o \in Obj : /\ Alloc(o, kind[e], {})
                          /\ \/ held' = held \cup {o} /\ ret' = o /\ lost' = lost
                             \/ held' = held /\ ret' = NULL /\ lost' = lost \cup {o}
  <2>1. PICK o \in Obj : /\ Alloc(o, kind[e], {})
                         /\ \/ held' = held \cup {o} /\ ret' = o /\ lost' = lost
                            \/ held' = held /\ ret' = NULL /\ lost' = lost \cup {o}
    BY <1>3
  <2>2. o \notin held
    BY <2>1 DEF Alloc, Live, Inv, OneOwner
  <2>3. \A n \in 1 .. Len(call) : call[n].dst # o
    BY <2>2, ObjAssumption DEF Inv, FramesOK
  <2>4. FramesOK'
    BY <1>2, <2>1, <2>3, ObjAssumption, FramesKept DEF Inv, FramesOK, StateOK
  <2>5. OneOwner' /\ FreeIsBlank'
    BY <1>1, <2>1, AllocOneOwner
  <2>6. HeapOK'
    BY <1>1, <2>1, AllocType DEF Inv, StateOK, HeapOK
  <2> QED BY <1>2, <2>1, <2>4, <2>5, <2>6, InvParts DEF Inv, StateOK
<1>4. CASE ret' = NULL /\ UNCHANGED <<heap, held, lost>>
  <2>1. FramesOK'
    BY <1>2, <1>4, ObjAssumption DEF Inv, FramesOK
  <2>2. HeapOK' /\ OneOwner' /\ FreeIsBlank'
    BY <1>4 DEF Inv, StateOK, HeapOK, OneOwner, FreeIsBlank, heap, OwnedSlot, Owns, Live
  <2> QED BY <1>2, <1>4, <2>1, <2>2, InvParts DEF Inv, StateOK
<1> QED BY <1>3, <1>4 DEF CloneLeaf

LEMMA CloneInv == ASSUME Inv, ret = Pending, NEW e \in Obj, coClone(e) PROVE Inv'
<1>1. CASE kind[e] \in Leaves /\ CloneLeaf(e)
  BY <1>1, CloneLeafInv
<1>2. CASE Enter("coVectorMap", e, "vector", {"CO_FREE_VALS"})
  <2>1. {"CO_FREE_VALS"} \in SUBSET Flags
        /\ "coVectorMap" \in Ops \ {"coVectorAppendVector"}
    BY DEF Flags, Ops
  <2> QED BY <1>2, <2>1, EnterInv
<1>3. CASE Enter("coMapClone", e, "map", flags[e] \cup {"CO_FREE_VALS"})
  <2>1. flags[e] \cup {"CO_FREE_VALS"} \in SUBSET Flags
        /\ "coMapClone" \in Ops \ {"coVectorAppendVector"}
    BY DEF Flags, Ops, Inv, StateOK
  <2> QED BY <1>3, <2>1, EnterInv
<1> QED BY <1>1, <1>2, <1>3 DEF coClone

\* What the frame on top builds.
LEMMA TopHeld ==
  ASSUME Inv, call # <<>>, Top.dst # NULL
  PROVE  /\ Top.dst \in held /\ Top.dst \in Obj
         /\ \A n \in 1 .. Len(call) : n # Len(call) => call[n].dst # Top.dst
         /\ ret # Pending => Dropped \in SUBSET (held \ {Top.dst})
<1>1. Len(call) \in 1 .. Len(call) /\ held \subseteq Obj
  BY TopType DEF Inv, StateOK
<1>2. Top.dst \in held /\ \A n \in 1 .. Len(call) : n # Len(call) => call[n].dst # Top.dst
  BY <1>1 DEF Inv, FramesOK, Top
<1>3. ret # Pending => Dropped \in SUBSET (held \ {Top.dst})
  BY <1>1, <1>2 DEF Inv, FramesOK, Top, Dropped
<1> QED BY <1>1, <1>2, <1>3

\* Frames that do not lose what they build, with nothing or NULL returned.
LEMMA FramesRest ==
  ASSUME Inv, call' \in Seq(Frame), Len(call') <= Len(call),
         \A n \in 1 .. Len(call') : /\ call'[n].dst = call[n].dst
                                    /\ call'[n].op = call[n].op,
         \A n \in 1 .. Len(call') : call[n].dst \in held => call[n].dst \in held',
         ret' \in {NULL, Pending}
  PROVE  FramesOK'
<1>1. \A n \in 1 .. Len(call') : call[n].dst # Pending
  <2>1. \A n \in 1 .. Len(call') : n \in 1 .. Len(call)
    BY DEF Inv, StateOK
  <2> QED BY <2>1, ObjAssumption DEF Inv, FramesOK, StateOK
<1> QED BY <1>1, FramesKept DEF Inv

\* The clone leaves the local variable and goes into the new container.
LEMMA StoreInv ==
  ASSUME Inv, call # <<>>, Top.dst # NULL, ret # Pending, NEW i \in Idx,
         NEW n \in 0 .. MaxCnt, Store(i, ret, n), NEW D, call' = Handled(D),
         ret' = Pending, UNCHANGED halted
  PROVE  Inv'
<1> DEFINE v == Top.dst
           new == Slot(i, ret)
           M == Dropped
           L == {x \in M : FALSE}
           E == {x \in Idx : FALSE}
           f == flags
<1>1. v \in held /\ v \in Obj /\ M \in SUBSET (held \ {v})
  BY TopHeld
<1>2. ret \in Obj \cup {NULL}
  BY DEF Inv, StateOK
<1>3. new \in Slots /\ DOMAIN new = {i} /\ new[i] = ret
  BY <1>2, SlotType
<1>4. /\ \A j, k \in DOMAIN new : j = k
      /\ \A j \in DOMAIN new : Owns(v, j) => new[j] \in (M \ L) \cup {NULL}
  BY <1>3 DEF Dropped
<1>5. /\ ReplaceF(v, E, new, n, f)
      /\ held' = held \ M /\ lost' = lost /\ Leave(M, L)
  <2>1. NULL \notin held /\ E = {}
    BY ObjAssumption DEF Inv, StateOK
  <2> QED BY <1>1, <2>1 DEF Store, Replace, Dropped, Leave
<1>6. /\ f \in [Obj -> SUBSET Flags] /\ \A o \in Obj : f[o] \subseteq flags[o]
      /\ HeapOK /\ E \in SUBSET Idx
  BY <1>1 DEF Inv, StateOK, HeapOK
<1>7. \A k \in 1 .. Len(call) : call[k].dst \notin M
  BY DEF Inv, FramesOK, Dropped
<1>8. /\ Handled(D) \in Seq(Frame) /\ Len(Handled(D)) = Len(call) /\ Len(call) \in Nat
      /\ \A k \in 1 .. Len(call) : /\ Handled(D)[k].dst = call[k].dst
                                   /\ Handled(D)[k].op = call[k].op
  BY HandledType DEF Inv, StateOK
<1>9. FramesOK'
  <2> HIDE DEF M
  <2> QED BY <1>5, <1>7, <1>8, FramesRest
<1> HIDE DEF v, new, M, L, E, f
<1>10. OneOwner' /\ FreeIsBlank'
  <2>1. \A i1, i2 \in DOMAIN new : i1 = i2
    BY <1>4
  <2> QED BY <1>1, <1>3, <1>4, <1>5, <1>6, <2>1, ReplaceOneOwner
<1>11. HeapOK'
  BY <1>1, <1>3, <1>5, <1>6, ReplaceType
<1> QED BY <1>5, <1>6, <1>8, <1>9, <1>10, <1>11, InvParts DEF Inv, StateOK

\* Slots of the new container are emptied; M is dropped and lost.
LEMMA UndoInv ==
  ASSUME Inv, call # <<>>, Top.dst # NULL, NEW D \in SUBSET Idx, NEW n \in 0 .. MaxCnt,
         Replace(Top.dst, D, NoSlots, n), NEW M \in SUBSET held,
         \A k \in 1 .. Len(call) - 1 : call[k].dst \notin M,
         held' = held \ M, lost' = lost \cup M, call' = Below,
         ret' \in {NULL, Pending}, UNCHANGED halted
  PROVE  Inv'
<1>1. Top.dst \in held /\ Top.dst \in Obj
  BY TopHeld
<1>2. /\ ReplaceF(Top.dst, D, NoSlots, n, flags) /\ HeapOK
      /\ flags \in [Obj -> SUBSET Flags] /\ \A o \in Obj : flags[o] \subseteq flags[o]
  BY DEF Replace, Inv, StateOK, HeapOK
<1>3. HeapOK'
  BY <1>1, <1>2, NoSlotsType, ReplaceType
<1>4. OneOwner' /\ FreeIsBlank'
  <2>1. /\ \A i, j \in DOMAIN NoSlots : i = j
        /\ \A i \in DOMAIN NoSlots : Owns(Top.dst, i) => NoSlots[i] \in (M \ M) \cup {NULL}
        /\ Leave(M, M)
    BY NoSlotsType DEF Leave
  <2> QED BY <1>1, <1>2, <2>1, NoSlotsType, ReplaceOneOwner
<1>5. /\ Below \in Seq(Frame) /\ Len(Below) = Len(call) - 1 /\ Len(call) \in Nat
      /\ \A k \in 1 .. Len(Below) : Below[k] = call[k]
  BY BelowType DEF Inv, StateOK
<1>6. FramesOK'
  BY <1>5, FramesRest
<1> QED BY <1>3, <1>4, <1>5, <1>6, InvParts DEF Inv, StateOK

\* The new container is deleted; L is lost.
LEMMA DropInv ==
  ASSUME Inv, call # <<>>, Top.dst # NULL, Free(Tree({Top.dst}), elem, cnt, flags),
         NEW L \in SUBSET (held \ {Top.dst}),
         \A k \in 1 .. Len(call) : call[k].dst \notin L,
         held' = held \ ({Top.dst} \cup L), lost' = lost \cup L, call' = Below,
         ret' = NULL, UNCHANGED halted
  PROVE  Inv'
<1>1. Top.dst \in held
  BY TopHeld
<1>2. OneOwner' /\ FreeIsBlank'
  BY <1>1, DeleteOneOwner
<1>3. HeapOK'
  BY FreeType DEF Inv, StateOK, HeapOK
<1>4. /\ Below \in Seq(Frame) /\ Len(Below) = Len(call) - 1 /\ Len(call) \in Nat
      /\ \A k \in 1 .. Len(Below) : Below[k] = call[k]
  BY BelowType DEF Inv, StateOK
<1>5. \A k \in 1 .. Len(Below) : call[k].dst \notin {Top.dst} \cup L
  BY <1>4, TopHeld
<1>6. FramesOK'
  <2> DEFINE M == {Top.dst} \cup L
  <2>1. held' = held \ M /\ \A k \in 1 .. Len(Below) : call[k].dst \notin M
    BY <1>5
  <2> HIDE DEF M
  <2> QED BY <1>4, <2>1, FramesRest
<1> QED BY <1>2, <1>3, <1>4, <1>6, InvParts DEF Inv, StateOK

\* The heap does not change; L is lost.
LEMMA KeepInv ==
  ASSUME Inv, UNCHANGED heap, NEW L, Leave(L, L), call' \in Seq(Frame), Len(call') <= Len(call),
         \A n \in 1 .. Len(call') : /\ call'[n].dst = call[n].dst
                                    /\ call'[n].op = call[n].op,
         \A n \in 1 .. Len(call') : call[n].dst \notin L,
         ret' \in {NULL, Pending}, halted' \in BOOLEAN
  PROVE  Inv'
<1> USE DEF Leave
<1>1. FramesOK'
  BY FramesRest
<1>2. HeapOK' /\ FreeIsBlank'
  BY DEF Inv, StateOK, HeapOK, FreeIsBlank, heap
<1>3. OneOwner'
  BY DEF Inv, OneOwner, heap, OwnedSlot, Owns, Live
<1> QED BY <1>1, <1>2, <1>3, InvParts DEF Inv, StateOK

LEMMA CloneElemInv == ASSUME Inv, CloneElem PROVE Inv'
<1>1. call # <<>> /\ ret = Pending
  BY DEF CloneElem, Running
<1>2. PICK e \in Obj \cup {NULL} :
          \/ e # NULL /\ coClone(e)
          \/ e = NULL /\ ret' = NULL /\ UNCHANGED <<heap, held, call, lost, halted>>
  BY DEF CloneElem
<1>3. CASE e # NULL /\ coClone(e)
  BY <1>1, <1>3, CloneInv
<1>4. CASE ret' = NULL /\ UNCHANGED <<heap, held, call, lost, halted>>
  <2>1. Leave({}, {})
    BY <1>4 DEF Leave
  <2>2. call' = call /\ call' \in Seq(Frame) /\ Len(call') \in Nat
    BY <1>4 DEF Inv, StateOK
  <2> QED BY <1>4, <2>1, <2>2, KeepInv DEF Inv, StateOK
<1> QED BY <1>2, <1>3, <1>4

\* An action that runs on the frame on top.
LEMMA TopFacts ==
  ASSUME Inv, call # <<>>
  PROVE  /\ Top.dst \in Obj \cup {NULL} /\ Top.todo \subseteq Idx
         /\ Top.old \in 0 .. MaxCnt
         /\ Top.op = "coVectorAppendVector" => Top.dst # NULL
         /\ \A k \in 1 .. Len(call) - 1 : call[k].dst # NULL => call[k].dst # Top.dst
         /\ ret # Pending => \A k \in 1 .. Len(call) : call[k].dst \notin Dropped
         /\ ret # Pending => Dropped \subseteq held
<1>1. Len(call) \in 1 .. Len(call) /\ Len(call) \in Nat
  BY TopType DEF Inv, StateOK
<1>2. \A k \in 1 .. Len(call) - 1 : k \in 1 .. Len(call) /\ k # Len(call)
  BY <1>1
<1>3. ret # Pending => Dropped \subseteq held
  BY DEF Inv, FramesOK, Dropped
<1>4. ret # Pending => \A k \in 1 .. Len(call) : call[k].dst \notin Dropped
  BY DEF Inv, FramesOK, Dropped
<1>5. \A k \in 1 .. Len(call) - 1 : call[k].dst # NULL => call[k].dst # Top.dst
  BY <1>1, <1>2 DEF Inv, FramesOK, Top
<1>6. Top.op = "coVectorAppendVector" => Top.dst # NULL
  BY <1>1 DEF Inv, FramesOK, Top
<1> QED BY <1>3, <1>4, <1>5, <1>6, TopType DEF Inv

LEMMA VectorMapAddInv == ASSUME Inv, VectorMapAdd PROVE Inv'
<1> USE DEF VectorMapAdd
<1>1. call # <<>> /\ Top.dst \in Obj
  BY TopFacts DEF Running
<1>2. cnt[Top.dst] \in Idx /\ cnt[Top.dst] + 1 \in 0 .. MaxCnt
  BY <1>1, CntType, IdxNat
<1>3. PICK k \in Top.todo : /\ Store(cnt[Top.dst], ret, cnt[Top.dst] + 1)
                            /\ call' = Handled({k})
  OBVIOUS
<1>4. halted' = halted
  BY <1>3 DEF Store
<1> QED BY <1>1, <1>2, <1>3, <1>4, StoreInv

LEMMA AppendAddInv == ASSUME Inv, AppendAdd PROVE Inv'
<1> USE DEF AppendAdd
<1>1. call # <<>> /\ Top.dst \in Obj /\ Top.dst # NULL
  BY TopFacts DEF Running
<1>2. cnt[Top.dst] \in Idx /\ cnt[Top.dst] + 1 \in 0 .. MaxCnt
  BY <1>1, CntType, IdxNat
<1>3. PICK k \in Top.todo : /\ Store(cnt[Top.dst], ret, cnt[Top.dst] + 1)
                            /\ call' = Handled({k})
  OBVIOUS
<1>4. halted' = halted
  BY <1>3 DEF Store
<1> QED BY <1>1, <1>2, <1>3, <1>4, StoreInv

LEMMA MapCloneAddInv == ASSUME Inv, MapCloneAdd PROVE Inv'
<1> USE DEF MapCloneAdd
<1>1. call # <<>> /\ Top.todo \subseteq Idx /\ 0 \in 0 .. MaxCnt
  BY TopFacts, BoundAssumption DEF Running
<1>2. PICK k \in Top.todo : Store(k, ret, 0) /\ call' = Handled({k})
  OBVIOUS
<1>3. halted' = halted
  BY <1>2 DEF Store
<1> QED BY <1>1, <1>2, <1>3, StoreInv

LEMMA VectorMapFailInv == ASSUME Inv, VectorMapFail PROVE Inv'
<1> USE DEF VectorMapFail
<1> DEFINE M == {Top.dst} \cup Dropped
<1>1. call # <<>> /\ Top.dst \in held /\ Idx \in SUBSET Idx /\ 0 \in 0 .. MaxCnt
  BY TopHeld, BoundAssumption DEF Running
<1>2. M \in SUBSET held /\ held' = held \ M /\ lost' = lost \cup M
  BY <1>1, TopFacts
<1>3. \A k \in 1 .. Len(call) - 1 : call[k].dst \notin M
  BY <1>1, TopFacts DEF Inv, StateOK
<1> HIDE DEF M
<1>4. call' = Below /\ ret' \in {NULL, Pending}
  BY DEF Return
<1> QED BY <1>1, <1>2, <1>3, <1>4, UndoInv

LEMMA AppendRollbackInv == ASSUME Inv, AppendRollback PROVE Inv'
<1> USE DEF AppendRollback
<1> DEFINE D == {i \in Idx : Top.old <= i}
<1>1. call # <<>> /\ Top.dst # NULL /\ D \in SUBSET Idx /\ Top.old \in 0 .. MaxCnt
  BY TopFacts DEF Running
<1>2. Dropped \in SUBSET held /\ held' = held \ Dropped /\ lost' = lost \cup Dropped
  BY <1>1, TopFacts
<1>3. \A k \in 1 .. Len(call) - 1 : call[k].dst \notin Dropped
  BY <1>1, TopFacts DEF Inv, StateOK
<1>4. call' = Below /\ ret' \in {NULL, Pending}
  BY DEF Return
<1>5. Replace(Top.dst, D, NoSlots, Top.old)
  OBVIOUS
<1> HIDE DEF D
<1> QED BY <1>1, <1>2, <1>3, <1>4, <1>5, UndoInv

LEMMA MapCloneFailInv == ASSUME Inv, MapCloneFail PROVE Inv'
<1> USE DEF MapCloneFail
<1>1. call # <<>> /\ Dropped \in SUBSET (held \ {Top.dst})
  BY TopHeld DEF Running
<1>2. \A k \in 1 .. Len(call) : call[k].dst \notin Dropped
  BY <1>1, TopFacts
<1>3. held' = held \ ({Top.dst} \cup Dropped) /\ call' = Below /\ ret' = NULL
  BY DEF Return
<1> QED BY <1>1, <1>2, <1>3, DropInv

LEMMA MapCloneSkipInv == ASSUME Inv, MapCloneSkip PROVE Inv'
<1> USE DEF MapCloneSkip
<1>1. call # <<>>
  BY DEF Running
<1>2. PICK S : call' = Handled(S)
  OBVIOUS
<1>3. Leave(Dropped, Dropped)
  BY <1>1, TopFacts DEF Leave
<1>4. \A k \in 1 .. Len(call) : call[k].dst \notin Dropped
  BY <1>1, TopFacts
<1>5. ret' \in {NULL, Pending} /\ halted' \in BOOLEAN /\ Len(call) \in Nat
  BY DEF Inv, StateOK
<1> QED BY <1>1, <1>2, <1>3, <1>4, <1>5, HandledType, KeepInv DEF Inv

\* The heap and its owners do not change; a result is held and not built.
LEMMA StillInv ==
  ASSUME Inv, UNCHANGED <<heap, held, lost>>, call' \in Seq(Frame), Len(call') <= Len(call),
         \A n \in 1 .. Len(call') : /\ call'[n].dst = call[n].dst
                                    /\ call'[n].op = call[n].op,
         ret' \in held \cup {NULL, Pending},
         ret' # NULL => \A n \in 1 .. Len(call') : call[n].dst # ret',
         halted' \in BOOLEAN
  PROVE  Inv'
<1>1. FramesOK'
  BY FramesKept DEF Inv
<1>2. HeapOK' /\ FreeIsBlank'
  BY DEF Inv, StateOK, HeapOK, FreeIsBlank, heap
<1>3. OneOwner'
  BY DEF Inv, OneOwner, heap, OwnedSlot, Owns, Live
<1> QED BY <1>1, <1>2, <1>3, InvParts DEF Inv, StateOK

\* Nothing changes but the assertion that failed.
LEMMA HaltInv == ASSUME Inv, Halt PROVE Inv'
<1>1. UNCHANGED <<heap, held, lost, call, ret>> /\ halted' \in BOOLEAN
  BY DEF Halt
<1>2. call \in Seq(Frame) /\ Len(call) \in Nat
  BY DEF Inv, StateOK
<1>3. /\ ret \in held \cup {NULL, Pending}
      /\ ret # NULL => \A n \in 1 .. Len(call) : call[n].dst # ret
  BY DEF Inv, FramesOK
<1> QED BY <1>1, <1>2, <1>3, StillInv

LEMMA ByMapSkipInv == ASSUME Inv, ByMapSkip PROVE Inv'
<1> USE DEF ByMapSkip
<1>1. call # <<>>
  BY DEF Running
<1>2. PICK S : call' = Handled(S)
  OBVIOUS
<1>3. /\ ret \in held \cup {NULL, Pending}
      /\ ret # NULL => \A n \in 1 .. Len(call) : call[n].dst # ret
  BY DEF Inv, FramesOK
<1>4. UNCHANGED <<heap, held, lost, ret>> /\ halted' \in BOOLEAN /\ Len(call) \in Nat
  BY DEF Inv, StateOK
<1> QED BY <1>1, <1>2, <1>3, <1>4, HandledType, StillInv DEF Inv

LEMMA ByMapFailInv == ASSUME Inv, ByMapFail PROVE Inv'
<1> USE DEF ByMapFail
<1>1. call # <<>> /\ call' = Below /\ ret' = NULL /\ UNCHANGED <<lost, halted>>
  BY DEF Running, Return
<1>2. CASE Top.dst # NULL
  <2>1. {} \in SUBSET (held \ {Top.dst}) /\ held' = held \ ({Top.dst} \cup {})
        /\ lost' = lost \cup {}
    BY <1>1, <1>2
  <2> QED BY <1>1, <1>2, <2>1, DropInv
<1>3. CASE Top.dst = NULL
  <2>1. /\ Below \in Seq(Frame) /\ Len(Below) = Len(call) - 1 /\ Len(call) \in Nat
        /\ \A n \in 1 .. Len(Below) : Below[n] = call[n]
    BY <1>1, BelowType DEF Inv, StateOK
  <2> QED BY <1>1, <1>3, <2>1, StillInv DEF Inv, StateOK
<1> QED BY <1>2, <1>3

LEMMA FinishInv == ASSUME Inv, Finish PROVE Inv'
<1>1. call # <<>> /\ call' = Below /\ ret' = Top.dst /\ UNCHANGED <<heap, held, lost, halted>>
  BY DEF Finish, Running, Return
<1>2. /\ Below \in Seq(Frame) /\ Len(Below) = Len(call) - 1 /\ Len(call) \in Nat
      /\ \A n \in 1 .. Len(Below) : Below[n] = call[n]
  BY <1>1, BelowType DEF Inv, StateOK
<1>3. ret' \in held \cup {NULL, Pending}
  BY <1>1, TopHeld
<1>4. ret' # NULL => \A n \in 1 .. Len(Below) : call[n].dst # ret'
  BY <1>1, <1>2, TopHeld
<1> QED BY <1>1, <1>2, <1>3, <1>4, StillInv DEF Inv, StateOK

LEMMA AppendFinishInv == ASSUME Inv, AppendFinish PROVE Inv'
<1>1. call # <<>> /\ call' = Below /\ ret' = Pending /\ UNCHANGED <<heap, held, lost, halted>>
  BY DEF AppendFinish, Running, Return
<1>2. /\ Below \in Seq(Frame) /\ Len(Below) = Len(call) - 1 /\ Len(call) \in Nat
      /\ \A n \in 1 .. Len(Below) : Below[n] = call[n]
  BY <1>1, BelowType DEF Inv, StateOK
<1>3. ret' # NULL => \A n \in 1 .. Len(Below) : call[n].dst # ret'
  <2>1. \A n \in 1 .. Len(Below) : n \in 1 .. Len(call)
    BY <1>2
  <2> QED BY <1>1, <2>1, ObjAssumption DEF Inv, FramesOK, StateOK
<1>4. ret' \in held \cup {NULL, Pending}
  BY <1>1
<1> QED BY <1>1, <1>2, <1>3, <1>4, StillInv DEF Inv, StateOK

LEMMA ReceivedInv == ASSUME Inv, Received PROVE Inv'
<1>1. call = <<>> /\ call' = call /\ ret' = Pending /\ UNCHANGED <<heap, held, lost, halted>>
  BY DEF Received
<1>2. call' \in Seq(Frame) /\ Len(call) = 0
  BY <1>1
<1> QED BY <1>1, <1>2, StillInv DEF Inv, StateOK

\* The pair [s, value] is made and goes into slot c of the vector d.
LEMMA PairOneOwner ==
  ASSUME Inv, NEW d \in held, NEW c \in Idx, NEW p \in Obj, NEW s \in Obj \cup {NULL},
         NEW value \in Obj \cup {NULL}, p # s, kind[p] = "free",
         s # NULL => kind[s] = "free",
         \A o \in Obj : kind'[o] = IF o = p THEN "vector"
                                   ELSE IF o = s THEN "str" ELSE kind[o],
         flags' = [flags EXCEPT ![p] = {"CO_FREE_FIRST"}],
         elem'  = [elem EXCEPT ![p] = Pair(s, value), ![d] = With(elem[d], c, p)],
         UNCHANGED <<held, lost>>
  PROVE  OneOwner' /\ FreeIsBlank'
<1> USE DEF Inv
<1>1. d \in Live /\ d \in Obj /\ d # p /\ d # s /\ p # NULL
  BY ObjAssumption DEF OneOwner, Live
<1>2. Live' = Live \cup {p} \cup ({s} \ {NULL}) /\ p \notin Live /\ s \notin Live
  <2>1. \A o \in Obj : kind'[o] # "free" <=> kind[o] # "free" \/ o = p \/ o = s
    OBVIOUS
  <2> QED BY <2>1, ObjAssumption DEF Live
<1>3. /\ elem'[p] = Pair(s, value)
      /\ elem'[d] = With(elem[d], c, p)
      /\ \A o \in Obj \ {p, d} : elem'[o] = elem[o]
  BY <1>1 DEF StateOK
<1>4. /\ flags'[p] = {"CO_FREE_FIRST"}
      /\ \A o \in Obj \ {p} : flags'[o] = flags[o]
  BY DEF StateOK
<1>5. FreeIsBlank'
  <2>1. ASSUME NEW o \in Obj, kind'[o] = "free" PROVE elem'[o] = NoSlots
    <3>1. o # p /\ o # s /\ kind[o] = "free"
      BY <2>1
    <3>2. o # d
      BY <1>1, <3>1 DEF Live
    <3> QED BY <1>3, <3>1, <3>2 DEF FreeIsBlank
  <2> QED BY <2>1 DEF FreeIsBlank
<1>6. ASSUME NEW q \in Obj, NEW j \in Idx, OwnedSlot(q, j)'
      PROVE  \/ q = p /\ j = 0 /\ elem'[q][j] = s /\ s # NULL
             \/ q = d /\ j = c /\ elem'[q][j] = p
             \/ /\ OwnedSlot(q, j) /\ elem'[q][j] = elem[q][j]
                /\ elem[q][j] \in Live \ (held \cup lost)
                /\ q # p /\ (q = d => j # c)
  <2>1. CASE q = p
    <3>1. j = 0
      BY <1>4, <1>6, <2>1 DEF OwnedSlot, Owns
    <3> QED BY <1>3, <1>6, <2>1, <3>1 DEF OwnedSlot, Pair
  <2>2. CASE q = d /\ j = c
    BY <1>1, <1>3, <2>2 DEF With
  <2>3. CASE q # p /\ ~ (q = d /\ j = c)
    <3>1. j \in DOMAIN elem[q] /\ elem'[q][j] = elem[q][j]
      <4>1. j \in DOMAIN elem'[q]
        BY <1>6 DEF OwnedSlot
      <4>2. CASE q = d
        BY <1>3, <2>3, <4>1, <4>2 DEF With
      <4>3. CASE q # d
        BY <1>3, <2>3, <4>1, <4>3
      <4> QED BY <4>2, <4>3
    <3>2. Owns(q, j)
      BY <1>4, <1>6, <2>3 DEF OwnedSlot, Owns
    <3>3. q # s
      <4>1. CASE s # NULL /\ q = s
        <5>1. elem[q] = NoSlots
          BY <4>1 DEF FreeIsBlank
        <5> QED BY <3>1, <5>1, NoSlotsType
      <4> QED BY <4>1, ObjAssumption
    <3>4. OwnedSlot(q, j)
      BY <1>2, <1>6, <2>3, <3>1, <3>2, <3>3 DEF OwnedSlot
    <3> QED BY <2>3, <3>1, <3>4 DEF OneOwner
  <2> QED BY <2>1, <2>2, <2>3
<1>7. held' \cup lost' \subseteq Live' /\ held' \cap lost' = {}
  BY <1>2 DEF OneOwner
<1>8. ASSUME NEW o \in Obj, NEW i \in Idx, OwnedSlot(o, i)'
      PROVE  elem'[o][i] \in Live' \ (held' \cup lost')
  <2>1. elem'[o][i] \in {p} \cup ({s} \ {NULL}) \cup (Live \ (held \cup lost))
    BY <1>6, <1>8
  <2> QED BY <1>2, <2>1 DEF OneOwner
<1>9. ASSUME NEW o \in Obj, NEW q \in Obj, NEW i \in Idx, NEW j \in Idx,
             OwnedSlot(o, i)', OwnedSlot(q, j)', elem'[o][i] = elem'[q][j]
      PROVE  o = q /\ i = j
  <2>1. \/ o = p /\ i = 0 /\ elem'[o][i] = s
        \/ o = d /\ i = c /\ elem'[o][i] = p
        \/ OwnedSlot(o, i) /\ elem'[o][i] = elem[o][i] /\ elem[o][i] \in Live
    BY <1>6, <1>9
  <2>2. \/ q = p /\ j = 0 /\ elem'[q][j] = s
        \/ q = d /\ j = c /\ elem'[q][j] = p
        \/ OwnedSlot(q, j) /\ elem'[q][j] = elem[q][j] /\ elem[q][j] \in Live
    BY <1>6, <1>9
  <2> QED BY <1>2, <1>9, <2>1, <2>2 DEF OneOwner
<1> QED BY <1>5, <1>7, <1>8, <1>9 DEF OneOwner

LEMMA ByMapAddInv == ASSUME Inv, ByMapAdd PROVE Inv'
<1> USE DEF ByMapAdd
<1> DEFINE d == Top.dst
           c == cnt[d]
<1>1. call # <<>> /\ d \in held /\ d \in Obj
  BY TopHeld DEF Running
<1>2. c \in Idx /\ c + 1 \in 0 .. MaxCnt /\ {0, 1} \in SUBSET Idx /\ 2 \in 0 .. MaxCnt
  BY <1>1, CntType, IdxNat, BoundAssumption
<1>3. PICK k \in Top.todo, p \in Obj, s, value \in Obj \cup {NULL} :
        AddPair(k, p, s, value)
  OBVIOUS
<1>4. /\ p # s /\ kind[p] = "free" /\ (s # NULL => kind[s] = "free")
      /\ kind'  = [o \in Obj |-> IF o = p THEN "vector"
                                 ELSE IF o = s THEN "str" ELSE kind[o]]
      /\ flags' = [flags EXCEPT ![p] = {"CO_FREE_FIRST"}]
      /\ elem'  = [elem EXCEPT ![p] = Pair(s, value), ![d] = With(elem[d], c, p)]
      /\ cnt'   = [cnt EXCEPT ![p] = 2, ![d] = c + 1]
      /\ call'  = Handled({k})
  <2>1. d # p
    BY <1>1, <1>3 DEF AddPair, Inv, OneOwner, Live
  <2> QED BY <1>1, <1>3, <2>1 DEF AddPair, Inv, StateOK
<1> HIDE DEF d, c, ByMapAdd
<1>5. OneOwner' /\ FreeIsBlank'
  <2>1. UNCHANGED <<held, lost>>
    BY DEF ByMapAdd
  <2>2. \A o \in Obj : kind'[o] = IF o = p THEN "vector"
                                  ELSE IF o = s THEN "str" ELSE kind[o]
    BY <1>4
  <2> QED BY <1>1, <1>2, <1>4, <2>1, <2>2, PairOneOwner
<1>6. elem' \in [Obj -> Slots]
  <2>1. Pair(s, value) \in Slots
    <3>1. Pair(s, value) \in [{0, 1} -> Obj \cup {NULL}]
      BY DEF Pair
    <3> QED BY <1>2, <3>1, SlotsIn
  <2>2. With(elem[d], c, p) \in Slots
    <3> DEFINE D == DOMAIN elem[d] \cup {c}
    <3>1. elem[d] \in Slots
      BY <1>1 DEF Inv, StateOK
    <3>2. D \in SUBSET Idx /\ With(elem[d], c, p) \in [D -> Obj \cup {NULL}]
      BY <1>2, <3>1, SlotsOut DEF With
    <3> HIDE DEF D
    <3> QED BY <3>2, SlotsIn
  <2> QED BY <1>4, <2>1, <2>2 DEF Inv, StateOK
<1>7. HeapOK'
  <2>1. kind' \in [Obj -> Kinds]
    BY <1>4 DEF Inv, StateOK, Kinds
  <2>2. flags' \in [Obj -> SUBSET Flags]
    BY <1>4 DEF Inv, StateOK, Flags
  <2>3. cnt' \in [Obj -> 0 .. MaxCnt]
    BY <1>2, <1>4 DEF Inv, StateOK
  <2> QED BY <1>6, <2>1, <2>2, <2>3 DEF HeapOK
<1>8. /\ call' \in Seq(Frame) /\ Len(call') = Len(call) /\ Len(call) \in Nat
       /\ \A n \in 1 .. Len(call) : /\ call'[n].dst = call[n].dst
                                    /\ call'[n].op = call[n].op
  BY <1>1, <1>4, HandledType DEF Inv, StateOK
<1>9. FramesOK'
  <2>1. UNCHANGED <<held, ret>>
    BY DEF ByMapAdd
  <2>2. /\ ret \in held \cup {NULL, Pending}
        /\ ret # NULL => \A n \in 1 .. Len(call) : call[n].dst # ret
    BY DEF Inv, FramesOK
  <2> QED BY <1>8, <2>1, <2>2, FramesKept DEF Inv
<1> QED BY <1>5, <1>7, <1>8, <1>9, InvParts DEF Inv, StateOK, ByMapAdd

-----------------------------------------------------------------------------
(* The theorems *)

LEMMA InitInv == ASSUME Init PROVE Inv
<1>1. StateOK
  <2>1. elem \in [Obj -> Slots]
    BY NoSlotsType DEF Init
  <2>2. cnt \in [Obj -> 0 .. MaxCnt]
    BY BoundAssumption DEF Init
  <2>3. call \in Seq(Frame) /\ flags \in [Obj -> SUBSET Flags]
    BY DEF Init
  <2>4. kind \in [Obj -> Kinds] /\ held \subseteq Obj /\ lost \subseteq Obj
    BY DEF Init, Kinds
  <2>5. ret \in Obj \cup {NULL, Pending} /\ halted \in BOOLEAN
    BY DEF Init
  <2> QED BY <2>1, <2>2, <2>3, <2>4, <2>5 DEF StateOK
<1>2. FreeIsBlank /\ FramesOK
  BY DEF Init, FreeIsBlank, FramesOK
<1>3. OneOwner
  BY DEF Init, OneOwner, OwnedSlot, Live
<1> QED BY <1>1, <1>2, <1>3 DEF Inv

\* One case per action of the application.
LEMMA AppInv == ASSUME Inv, AppStep PROVE Inv'
<1> USE UseAssumption DEF Flags
<1>1. CASE \E o \in Obj, k \in LeafKinds : coNewLeaf(o, k)
  BY <1>1, NewInv DEF coNewLeaf, Leaves, Kinds
<1>2. CASE \E o \in Obj, f \in VectorFlags : coNewVector(o, f)
  BY <1>2, NewInv DEF coNewVector, Kinds
<1>3. CASE \E o \in Obj, f \in MapFlags : coNewMap(o, f)
  BY <1>3, NewInv DEF coNewMap, Kinds
<1>4. CASE \E o \in Obj : coDelete(o)
  BY <1>4, DeleteInv
<1>5. CASE \E v \in Obj, p \in Obj \cup {NULL} : coVectorAdd(v, p)
  BY <1>5, VectorAddInv
<1>6. CASE \E v \in Obj, p \in Obj \cup {NULL}, i \in Idx : coVectorSet(v, i, p)
  BY <1>6, VectorSetInv
<1>7. CASE \E v \in Obj : coVectorEraseLast(v)
  BY <1>7, VectorEraseLastInv
<1>8. CASE \E v \in Obj : coVectorClear(v)
  BY <1>8, RemoveInv DEF coVectorClear, Mutable
<1>9. CASE \E m \in Obj, p \in Obj \cup {NULL}, k \in Key : coMapAdd(m, k, p)
  BY <1>9, MapAddInv
<1>10. CASE \E m \in Obj, k \in Key : coMapErase(m, k)
  <2>1. PICK m \in Obj, k \in Key : coMapErase(m, k)
    BY <1>10
  <2>2. {k} \in SUBSET Idx
    BY IdxNat
  <2> QED BY <2>1, <2>2, RemoveInv DEF coMapErase, Mutable
<1>11. CASE \E m \in Obj : coMapClear(m)
  BY <1>11, RemoveInv DEF coMapClear, Mutable
<1>12. CASE \E e \in Obj : StartClone(e)
  BY <1>12, CloneInv DEF StartClone, Idle
<1>13. CASE \E v, src \in Obj : coVectorAppendVector(v, src)
  BY <1>13, AppendStartInv
<1>14. CASE \E m \in Obj : coNewVectorByMap(m)
  <2>1. "coNewVectorByMap" \in Ops \ {"coVectorAppendVector"}
    BY DEF Ops
  <2> QED BY <1>14, <2>1, EnterInv DEF coNewVectorByMap, Idle
<1> QED BY <1>1, <1>2, <1>3, <1>4, <1>5, <1>6, <1>7, <1>8, <1>9, <1>10, <1>11,
           <1>12, <1>13, <1>14 DEF AppStep

\* One case per step of a library function.
LEMMA LibInv == ASSUME Inv, LibStep PROVE Inv'
<1>1. CASE CloneHalts
  BY <1>1, HaltInv DEF CloneHalts
<1>2. CASE ByMapHalts
  BY <1>2, HaltInv DEF ByMapHalts
<1> QED BY <1>1, <1>2, CloneElemInv, VectorMapAddInv, VectorMapFailInv,
           MapCloneAddInv, MapCloneSkipInv, MapCloneFailInv, AppendAddInv,
           AppendRollbackInv, ByMapAddInv, ByMapSkipInv, ByMapFailInv, FinishInv,
           AppendFinishInv, ReceivedInv DEF LibStep

LEMMA StutterInv == ASSUME Inv, UNCHANGED vars PROVE Inv'
  BY DEF Inv, StateOK, FreeIsBlank, FramesOK, OneOwner, OwnedSlot, Owns, Live,
         vars, heap

\* The invariant is inductive.
THEOREM Invariant == Spec => []Inv
<1>1. Init => Inv
  BY InitInv
<1>2. Inv /\ [Next]_vars => Inv'
  BY AppInv, LibInv, StutterInv DEF Next
<1> QED BY <1>1, <1>2, PTL DEF Spec

\* Every variable of the library keeps its type: no call stores a count, a slot
\* or a flag that its data structure does not have.
THEOREM TypeCorrect == Spec => []TypeOK
<1>1. Inv /\ oom \in BOOLEAN => TypeOK
  BY DEF Inv, TypeOK
<1>2. Init => oom \in BOOLEAN
  BY DEF Init
<1>3. oom \in BOOLEAN /\ [Next]_vars => (oom \in BOOLEAN)'
  BY DEF Next, vars
<1> QED BY <1>1, <1>2, <1>3, Invariant, PTL DEF Spec

\* coDelete (co.c:38-43) frees no object twice and follows no pointer to a freed
\* one, in whatever order the functions of co.h are called and whichever of
\* their allocations fail.
THEOREM NoDoubleFree == Spec => []OneOwner
<1>1. Inv => OneOwner
  BY DEF Inv
<1> QED BY <1>1, Invariant, PTL
=============================================================================
