------------------------------ MODULE CoObject ------------------------------
(***************************************************************************)
(* The objects of the C Object Library (co/co.c, co/co.h) and who deletes  *)
(* them.  An object is a leaf ("str" stands for blank, string, double and  *)
(* bool objects, "mem" for memory blocks), a vector or a map.  A container *)
(* deletes the elements its flags say it owns; everything else in it is a  *)
(* reference.  The application is the environment: it calls the functions  *)
(* of co.h and keeps to the contract written at the top of that file (what *)
(* is stored in an owning container is moved, what is taken out of a       *)
(* container is read only).                                                *)
(*                                                                         *)
(* The functions that allocate object by object (coClone, the vector       *)
(* append, the vector of a map) run step by step on a stack of frames, so  *)
(* that a memory error may hit every allocation, in a behaviour with oom.  *)
(*                                                                         *)
(* Abstracted: the shape of the AVL tree of a map (module CoAvl), its key  *)
(* strings (module CoMapKeys), the list storage of a vector (CoVector) and *)
(* of a memory block (CoMem).  A map is a function from keys to elements,  *)
(* visited in the order of the keys.                                       *)
(***************************************************************************)
EXTENDS Naturals, Sequences

CONSTANTS
  Obj,         \* the addresses malloc may return for a coStruct
  NULL,        \* the NULL pointer
  Pending,     \* no result has been returned to the caller yet
  Key,         \* the keys of a map, in strcmp order
  MaxCnt,      \* bound: the number of elements of a vector
  COV_EXTEND,  \* slots a vector gets per allocation (64 in the code)
  StoreNull,   \* TRUE: the application also stores NULL elements
  LeafKinds,   \* the leaves, and the flags of vectors and maps, that the
  VectorFlags, \* application uses
  MapFlags

Leaves == {"str", "mem"}
Flags  == {"CO_FREE_VALS", "CO_FREE_FIRST"}

ASSUME ObjAssumption == NULL \notin Obj /\ Pending \notin Obj /\ NULL # Pending
ASSUME BoundAssumption ==
  /\ Key \subseteq Nat
  /\ MaxCnt \in Nat \ {0, 1}
  /\ COV_EXTEND \in Nat \ {0}
  /\ StoreNull \in BOOLEAN
ASSUME UseAssumption ==
  /\ LeafKinds \subseteq Leaves
  /\ VectorFlags \subseteq SUBSET Flags
  /\ MapFlags \subseteq SUBSET {"CO_FREE_VALS"}
ASSUME OwnerAssumption == {"nobody", "local", "lost"} \cap Obj = {}

VARIABLES
  kind,    \* kind[o]: the type of o, "free" when o is not allocated
  flags,   \* flags[o]: the CO_FREE_ flags of o
  elem,    \* elem[o]: the slots of a container, each an object or NULL
  cnt,     \* cnt[o]: v.cnt of a vector
  held,    \* objects owned by a local variable, of the application or of a
           \* library function
  call,    \* the stack of the library functions that are running
  ret,     \* what the last of them returned, Pending when nothing
  lost,    \* objects that no pointer will ever delete
  halted,  \* TRUE after a failed assertion (a NULL dereference with NDEBUG)
  oom      \* may an allocation of this behaviour fail?  It never changes.

heap == <<kind, flags, elem, cnt>>
vars == <<heap, held, call, ret, lost, halted, oom>>

-----------------------------------------------------------------------------
(* The heap *)

Kinds  == {"free", "str", "mem", "vector", "map"}
Idx    == Key \cup 0 .. MaxCnt
Slots  == UNION {[D -> Obj \cup {NULL}] : D \in SUBSET Idx}

NoSlots     == [i \in {} |-> NULL]
Slot(i, p)  == [j \in {i} |-> p]
Pair(p, q)  == [j \in {0, 1} |-> IF j = 0 THEN p ELSE q]
With(e, i, p) == [j \in DOMAIN e \cup {i} |-> IF j = i THEN p ELSE e[j]]
Live        == {o \in Obj : kind[o] # "free"}

\* does the object delete what it has in slot i?
Owns(o, i) == \/ "CO_FREE_VALS" \in flags[o]
              \/ "CO_FREE_FIRST" \in flags[o] /\ i = 0

Owned(o, D) == {elem[o][i] : i \in {j \in DOMAIN elem[o] \cap D : Owns(o, j)}}
                 \ {NULL}
Elems(o)    == {elem[o][i] : i \in DOMAIN elem[o]} \ {NULL}

Closed(S)   == \A o \in S : Owned(o, Idx) \subseteq S

\* what coDelete of every object of S frees: the least set that contains S
\* and with a container the elements it owns
Tree(S) == {o \in Obj : \A T \in SUBSET Obj : S \subseteq T /\ Closed(T) => o \in T}

\* free T, and let the other objects have the slots e, the counts c and the
\* flags f
Free(T, e, c, f) ==
  /\ kind'  = [o \in Obj |-> IF o \in T THEN "free"  ELSE kind[o]]
  /\ elem'  = [o \in Obj |-> IF o \in T THEN NoSlots ELSE e[o]]
  /\ cnt'   = [o \in Obj |-> IF o \in T THEN 0       ELSE c[o]]
  /\ flags' = [o \in Obj |-> IF o \in T THEN {}      ELSE f[o]]

\* delete what v owns in its slots D, take these slots away, then fill the
\* slots of new; the vector has n elements afterwards
ReplaceF(v, D, new, n, f) ==
  Free(Tree(Owned(v, D)),
       [elem EXCEPT ![v] =
          [i \in (DOMAIN elem[v] \ D) \cup DOMAIN new |->
             IF i \in DOMAIN new THEN new[i] ELSE elem[v][i]]],
       [cnt EXCEPT ![v] = n],
       f)
Replace(v, D, new, n) == ReplaceF(v, D, new, n, flags)

\* coNewWithData: a new object without elements
Alloc(o, k, f) ==
  /\ kind[o] = "free"
  /\ kind'  = [kind EXCEPT ![o] = k]
  /\ flags' = [flags EXCEPT ![o] = f]
  /\ UNCHANGED <<elem, cnt>>

\* (mutant: the position 0 that coVectorAdd returns is taken for an error)
AddFailsAtStart(v) == cnt[v] = 0 \/ (oom /\ cnt[v] % COV_EXTEND = 0)

\* realloc is called, and may fail, only when all slots allocated are in use
AddFails(v) == oom /\ cnt[v] > 0 /\ cnt[v] % COV_EXTEND = 0

-----------------------------------------------------------------------------
(* What the application does *)

Idle == call = <<>> /\ ret = Pending /\ ~halted

\* the contract of co.h: an element that the container will delete is moved
\* into it, any other element is only referenced and must exist
MayStore(v, i, p) ==
  \/ p = NULL /\ StoreNull
  \/ IF Owns(v, i) THEN p \in held \ {v} ELSE p \in Live \ lost
Moved(v, i, p) == IF Owns(v, i) THEN {p} ELSE {}

Mutable(v, k) == v \in held /\ kind[v] = k

\* coNewBlank, coNewStr, coNewDbl, coNewBool, coNewMem
coNewLeaf(o, k) ==
  /\ Idle
  /\ Alloc(o, k, {})
  /\ held' = held \cup {o}
  /\ UNCHANGED <<call, ret, lost, halted>>

coNewVector(o, f) ==
  /\ Idle
  /\ Alloc(o, "vector", f)
  /\ held' = held \cup {o}
  /\ UNCHANGED <<call, ret, lost, halted>>

coNewMap(o, f) ==
  /\ Idle
  /\ Alloc(o, "map", f)
  /\ held' = held \cup {o}
  /\ UNCHANGED <<call, ret, lost, halted>>

coDelete(o) ==
  /\ Idle
  /\ o \in held
  /\ Free(Tree({o}), elem, cnt, flags)
  /\ held' = held \ {o}
  /\ UNCHANGED <<call, ret, lost, halted>>

coVectorAdd(v, p) ==
  /\ Idle
  /\ Mutable(v, "vector")
  /\ cnt[v] < MaxCnt
  /\ MayStore(v, cnt[v], p)
  /\ Replace(v, {}, Slot(cnt[v], p), cnt[v] + 1)
  /\ held' = held \ Moved(v, cnt[v], p)
  /\ UNCHANGED <<call, ret, lost, halted>>

coVectorSet(v, i, p) ==
  /\ Idle
  /\ Mutable(v, "vector")
  /\ i < cnt[v]
  /\ MayStore(v, i, p)
  /\ Replace(v, {i}, Slot(i, p), cnt[v])
  /\ held' = held \ Moved(v, i, p)
  /\ UNCHANGED <<call, ret, lost, halted>>

\* (mutant: an empty vector is not looked for)
EraseLastUnchecked(v) ==
  /\ Idle
  /\ Mutable(v, "vector")
  /\ Replace(v, {cnt[v] - 1}, NoSlots, cnt[v] - 1)
  /\ UNCHANGED <<held, call, ret, lost, halted>>

\* (mutant: the last element is given back, not deleted)
EraseLastGivesBack(v) ==
  /\ Idle
  /\ Mutable(v, "vector")
  /\ cnt[v] > 0
  /\ LET i == cnt[v] - 1 IN
       /\ elem' = [elem EXCEPT ![v] = [j \in DOMAIN @ \ {i} |-> @[j]]]
       /\ cnt'  = [cnt EXCEPT ![v] = i]
       /\ held' = held \cup Owned(v, {i})
  /\ UNCHANGED <<kind, flags, call, ret, lost, halted>>

\* coVectorErase with the index of the last element.  With any other index
\* its loop does not end and the program has no next state: module CoVector.
coVectorEraseLast(v) ==
  /\ Idle
  /\ Mutable(v, "vector")
  /\ cnt[v] > 0
  /\ LET i == cnt[v] - 1 IN
       ReplaceF(v, {i}, NoSlots, i,
                IF "CO_FREE_VALS" \notin flags[v] /\ i = 0
                  THEN [flags EXCEPT ![v] = @ \ {"CO_FREE_FIRST"}]
                  ELSE flags)
  /\ UNCHANGED <<held, call, ret, lost, halted>>

\* (mutant: the elements are deleted, but stay in the vector)
ClearKeepsCnt(v) ==
  /\ Idle
  /\ Mutable(v, "vector")
  /\ Free(Tree(Owned(v, Idx)), elem, cnt, flags)
  /\ UNCHANGED <<held, call, ret, lost, halted>>

coVectorClear(v) ==
  /\ Idle
  /\ Mutable(v, "vector")
  /\ Replace(v, Idx, NoSlots, 0)
  /\ UNCHANGED <<held, call, ret, lost, halted>>

\* the old value of an existing key is deleted before the new one is stored
coMapAdd(m, k, p) ==
  /\ Idle
  /\ Mutable(m, "map")
  /\ MayStore(m, k, p)
  /\ Replace(m, {k}, Slot(k, p), 0)
  /\ held' = held \ Moved(m, k, p)
  /\ UNCHANGED <<call, ret, lost, halted>>

coMapErase(m, k) ==
  /\ Idle
  /\ Mutable(m, "map")
  /\ k \in DOMAIN elem[m]
  /\ Replace(m, {k}, NoSlots, 0)
  /\ UNCHANGED <<held, call, ret, lost, halted>>

coMapClear(m) ==
  /\ Idle
  /\ Mutable(m, "map")
  /\ Replace(m, Idx, NoSlots, 0)
  /\ UNCHANGED <<held, call, ret, lost, halted>>

-----------------------------------------------------------------------------
(* The functions that allocate object by object *)

\* op: the function;  src, dst: the container read and the one being built
\* (NULL after a memory error);  todo: the slots of src not yet handled;
\* old: oldCnt of coVectorAppendVector;  root: the key at the root of the tree
\* of the map src
Frame == [op   : {"coVectorMap", "coMapClone", "coVectorAppendVector",
                  "coNewVectorByMap"},
          src  : Obj,
          dst  : Obj \cup {NULL},
          todo : SUBSET Idx,
          old  : 0 .. MaxCnt,
          root : Idx]

Top      == call[Len(call)]
Below    == SubSeq(call, 1, Len(call) - 1)
Running(ops) == call # <<>> /\ ~halted /\ Top.op \in ops
First(k) == k \in Top.todo /\ \A j \in Top.todo : k <= j
\* (mutants: the next element is left out; one element too many is read)
HandledTwice(D) ==
  [call EXCEPT ![Len(call)].todo = @ \ (D \cup {k + 1 : k \in D})]
PushTooFar(op, src, dst, old, root) ==
  Append(call, [op |-> op, src |-> src, dst |-> dst,
                todo |-> DOMAIN elem[src] \cup {cnt[src]},
                old |-> old, root |-> root])

Handled(D) == [call EXCEPT ![Len(call)].todo = @ \ D]
Push(op, src, dst, old, root) ==
  Append(call, [op |-> op, src |-> src, dst |-> dst, todo |-> DOMAIN elem[src],
                old |-> old, root |-> root])
Roots(m) == IF DOMAIN elem[m] = {} THEN {0} ELSE DOMAIN elem[m]

\* an assertion that sees a NULL container: the program ends
Halt ==
  /\ halted' = TRUE
  /\ UNCHANGED <<heap, held, call, ret, lost>>

\* a container is made for the frame of op; NULL is its dst after a memory
\* error
Enter(op, src, k, f) ==
  /\ \E root \in Roots(src) :
       \/ \E o \in Obj : /\ Alloc(o, k, f)
                         /\ held' = held \cup {o}
                         /\ call' = Push(op, src, o, 0, root)
       \/ /\ oom
          /\ UNCHANGED <<heap, held>>
          /\ call' = Push(op, src, NULL, 0, root)
  /\ ret' = Pending
  /\ UNCHANGED <<lost, halted>>

\* coClone of a leaf: a memory error after coNewMem loses the new block
CloneLeaf(e) ==
  /\ \/ \E o \in Obj : /\ Alloc(o, kind[e], {})
                       /\ \/ held' = held \cup {o} /\ ret' = o /\ UNCHANGED lost
                          \/ /\ oom /\ kind[e] = "mem"
                             /\ lost' = lost \cup {o} /\ ret' = NULL
                             /\ UNCHANGED held
     \/ oom /\ ret' = NULL /\ UNCHANGED <<heap, held, lost>>
  /\ UNCHANGED <<call, halted>>

coClone(e) ==
  \/ kind[e] \in Leaves  /\ CloneLeaf(e)
  \/ kind[e] = "vector"  /\ Enter("coVectorMap", e, "vector", {"CO_FREE_VALS"})
  \/ kind[e] = "map"     /\ Enter("coMapClone", e, "map",
                                  flags[e] \cup {"CO_FREE_VALS"})

\* coClone of the next element: NULL clones to NULL
CloneElem ==
  /\ Running({"coVectorMap", "coMapClone", "coVectorAppendVector"})
  /\ ret = Pending
  /\ \E k \in Top.todo, e \in Obj \cup {NULL} :
       /\ First(k) /\ e = elem[Top.src][k]
       /\ \/ e # NULL /\ coClone(e)
          \/ e = NULL /\ ret' = NULL
                      /\ UNCHANGED <<heap, held, call, lost, halted>>

\* the new container, or the clone of the element, is handed to the caller
Return(r) == call' = Below /\ ret' = r

\* p, which a local variable owns, goes into slot i of dst, whose new count is n
Store(i, p, n) ==
  /\ Replace(Top.dst, {}, Slot(i, p), n)
  /\ held' = held \ {p}
  /\ UNCHANGED <<lost, halted>>

\* a clone that could not be stored is not deleted
Dropped == {ret} \ {NULL}

\* coVectorMap: store the clone
VectorMapAdd ==
  /\ Running({"coVectorMap"})
  /\ ret \notin {Pending, NULL}
  /\ Top.dst # NULL
  /\ cnt[Top.dst] < MaxCnt
  /\ \E k \in Top.todo :
       First(k) /\ Store(cnt[Top.dst], ret, cnt[Top.dst] + 1) /\ call' = Handled({k})
  /\ ret' = Pending

\* coVectorMap: a NULL from the callback, or from coVectorAdd, is an error;
\* coVectorDestroy deletes the elements of the new vector, not the vector
VectorMapFail ==
  /\ Running({"coVectorMap"})
  /\ ret # Pending
  /\ Top.dst # NULL
  /\ ret = NULL \/ AddFails(Top.dst)
  /\ Replace(Top.dst, Idx, NoSlots, 0)
  /\ held' = held \ ({Top.dst} \cup Dropped)
  /\ lost' = lost \cup {Top.dst} \cup Dropped
  /\ Return(NULL)
  /\ UNCHANGED halted

\* coMapClone: coMapAdd of the clone, which may be NULL
MapCloneAdd ==
  /\ Running({"coMapClone"})
  /\ ret # Pending
  /\ Top.dst # NULL
  /\ \E k \in Top.todo : First(k) /\ Store(k, ret, 0) /\ call' = Handled({k})
  /\ ret' = Pending

\* avl_for_each when the callback returns 0 at key k: the right subtree of k,
\* a run of the keys that follow, is skipped.  Only at the root of the tree
\* (then all keys that follow are skipped) does the traversal return 0.
Skipped(k, S) ==
  /\ k \in S /\ k # Top.root
  /\ \A i \in S : k < Top.root => i < Top.root
  /\ \A i \in S, j \in Top.todo : j <= i => j \in S

\* coMapClone: coMapAdd fails below the root, the rest is cloned
MapCloneSkip ==
  /\ Running({"coMapClone"})
  /\ ret # Pending
  /\ Top.dst # NULL
  /\ oom
  /\ \E k \in Top.todo, S \in SUBSET Top.todo :
       First(k) /\ Skipped(k, S) /\ call' = Handled(S)
  /\ held' = held \ Dropped
  /\ lost' = lost \cup Dropped
  /\ ret' = Pending
  /\ UNCHANGED <<heap, halted>>

\* (mutant: the new map is cleared, not deleted)
MapCloneFailClears ==
  /\ Running({"coMapClone"})
  /\ ret # Pending
  /\ Top.dst # NULL
  /\ oom
  /\ First(Top.root)
  /\ Replace(Top.dst, Idx, NoSlots, 0)
  /\ held' = held \ ({Top.dst} \cup Dropped)
  /\ lost' = lost \cup Dropped
  /\ Return(NULL)
  /\ UNCHANGED halted

\* coMapClone: coMapAdd fails at the root
MapCloneFail ==
  /\ Running({"coMapClone"})
  /\ ret # Pending
  /\ Top.dst # NULL
  /\ oom
  /\ First(Top.root)
  /\ Free(Tree({Top.dst}), elem, cnt, flags)
  /\ held' = held \ ({Top.dst} \cup Dropped)
  /\ lost' = lost \cup Dropped
  /\ Return(NULL)
  /\ UNCHANGED halted

\* coVectorAdd and coMapAdd assert that they are given a container, and so
\* does coVectorDestroy
CloneHalts ==
  /\ Running({"coVectorMap", "coMapClone"})
  /\ ret # Pending
  /\ Top.dst = NULL
  /\ Halt

\* coVectorAppendVector: add the clone
AppendAdd ==
  /\ Running({"coVectorAppendVector"})
  /\ ret \notin {Pending, NULL}
  /\ cnt[Top.dst] < MaxCnt
  /\ \E k \in Top.todo :
       First(k) /\ Store(cnt[Top.dst], ret, cnt[Top.dst] + 1) /\ call' = Handled({k})
  /\ ret' = Pending

\* (mutants: the clones are not deleted; the first clone is not erased)
RollbackForgets ==
  /\ Running({"coVectorAppendVector"})
  /\ ret # Pending
  /\ ret = NULL \/ AddFails(Top.dst)
  /\ elem' = [elem EXCEPT ![Top.dst] =
                [i \in {j \in DOMAIN @ : j < Top.old} |-> @[i]]]
  /\ cnt' = [cnt EXCEPT ![Top.dst] = Top.old]
  /\ held' = held \ Dropped
  /\ lost' = lost \cup Dropped
  /\ Return(Pending)
  /\ UNCHANGED <<kind, flags, halted>>
RollbackLeavesOne ==
  /\ Running({"coVectorAppendVector"})
  /\ ret # Pending
  /\ ret = NULL \/ AddFails(Top.dst)
  /\ Replace(Top.dst, {i \in Idx : Top.old < i}, NoSlots,
             IF cnt[Top.dst] = Top.old THEN Top.old ELSE Top.old + 1)
  /\ held' = held \ Dropped
  /\ lost' = lost \cup Dropped
  /\ Return(Pending)
  /\ UNCHANGED halted

\* coVectorAppendVector: on an error the clones added before are erased
AppendRollback ==
  /\ Running({"coVectorAppendVector"})
  /\ ret # Pending
  /\ ret = NULL \/ AddFails(Top.dst)
  /\ Replace(Top.dst, {i \in Idx : Top.old <= i}, NoSlots, Top.old)
  /\ held' = held \ Dropped
  /\ lost' = lost \cup Dropped
  /\ Return(Pending)
  /\ UNCHANGED halted

\* coVectorByMapCB at key k: the pair p of the key string s and the value,
\* which deletes its key and refers to the value, is added to the vector; s is
\* NULL when coNewStr fails
AddPair(k, p, s, value) ==
  /\ First(k) /\ value = elem[Top.src][k]
  /\ p # s /\ kind[p] = "free"
  /\ IF s = NULL THEN oom ELSE kind[s] = "free"
  /\ kind'  = [o \in Obj |-> IF o = p THEN "vector"
                             ELSE IF o = s THEN "str" ELSE kind[o]]
  /\ flags' = [flags EXCEPT ![p] = {"CO_FREE_FIRST"}]
  /\ elem'  = [elem EXCEPT ![p] = Pair(s, value),
                           ![Top.dst] = With(@, cnt[Top.dst], p)]
  /\ cnt'   = [cnt EXCEPT ![p] = 2, ![Top.dst] = @ + 1]
  /\ call'  = Handled({k})

ByMapAdd ==
  /\ Running({"coNewVectorByMap"})
  /\ Top.dst # NULL
  /\ cnt[Top.dst] < MaxCnt
  /\ \E k \in Top.todo, p \in Obj, s, value \in Obj \cup {NULL} :
       AddPair(k, p, s, value)
  /\ UNCHANGED <<held, ret, lost, halted>>

\* coVectorByMapCB returns 0 after a memory error, having deleted what it made
ByMapSkip ==
  /\ Running({"coNewVectorByMap"})
  /\ oom
  /\ \E k \in Top.todo, S \in SUBSET Top.todo :
       First(k) /\ Skipped(k, S) /\ call' = Handled(S)
  /\ UNCHANGED <<heap, held, ret, lost, halted>>

\* the same at the root of the tree: coNewVectorByMap deletes its vector
ByMapFail ==
  /\ Running({"coNewVectorByMap"})
  /\ oom
  /\ First(Top.root)
  /\ IF Top.dst = NULL
       THEN UNCHANGED <<heap, held>>
       ELSE /\ Free(Tree({Top.dst}), elem, cnt, flags)
            /\ held' = held \ {Top.dst}
  /\ Return(NULL)
  /\ UNCHANGED <<lost, halted>>

\* coVectorAdd asserts that the parent is a vector
ByMapHalts ==
  /\ Running({"coNewVectorByMap"})
  /\ Top.dst = NULL
  /\ Top.todo # {}
  /\ Halt

\* all elements are handled: the new container is returned
Finish ==
  /\ Running({"coVectorMap", "coMapClone", "coNewVectorByMap"})
  /\ ret = Pending
  /\ Top.todo = {}
  /\ Return(Top.dst)
  /\ UNCHANGED <<heap, held, lost, halted>>

AppendFinish ==
  /\ Running({"coVectorAppendVector"})
  /\ ret = Pending
  /\ Top.todo = {}
  /\ Return(Pending)
  /\ UNCHANGED <<heap, held, lost, halted>>

\* the application has the result of its call in a variable
Received ==
  /\ call = <<>>
  /\ ret # Pending
  /\ ~halted
  /\ ret' = Pending
  /\ UNCHANGED <<heap, held, call, lost, halted>>

LibStep ==
  \/ CloneElem
  \/ VectorMapAdd
  \/ VectorMapFail
  \/ MapCloneAdd
  \/ MapCloneSkip
  \/ MapCloneFail
  \/ CloneHalts
  \/ AppendAdd
  \/ AppendRollback
  \/ ByMapAdd
  \/ ByMapSkip
  \/ ByMapFail
  \/ ByMapHalts
  \/ Finish
  \/ AppendFinish
  \/ Received

-----------------------------------------------------------------------------
(* The specification *)

\* what can be reached from o by reading
Reach(o) == {x \in Obj : \A T \in SUBSET Obj :
               o \in T /\ (\A y \in T : Elems(y) \subseteq T) => x \in T}

\* the application reads an element only while the object referred to exists;
\* a container that refers to itself has no finite clone
Readable(o) == \A x \in Reach(o) : /\ x \in Live \ lost
                                   /\ \A y \in Elems(x) : x \notin Reach(y)

StartClone(e) ==
  /\ Idle
  /\ e \in Live
  /\ Readable(e)
  /\ coClone(e)

coVectorAppendVector(v, src) ==
  /\ Idle
  /\ Mutable(v, "vector")
  /\ "CO_FREE_VALS" \in flags[v]
  /\ kind[src] = "vector"
  /\ Readable(src)
  /\ cnt[v] + cnt[src] <= MaxCnt
  /\ call' = Push("coVectorAppendVector", src, v, cnt[v], 0)
  /\ UNCHANGED <<heap, held, ret, lost, halted>>

coNewVectorByMap(m) ==
  /\ Idle
  /\ kind[m] = "map"
  /\ Readable(m)
  /\ Enter("coNewVectorByMap", m, "vector", {"CO_FREE_VALS"})

AppStep ==
  \/ \E o \in Obj, k \in LeafKinds   : coNewLeaf(o, k)
  \/ \E o \in Obj, f \in VectorFlags : coNewVector(o, f)
  \/ \E o \in Obj, f \in MapFlags    : coNewMap(o, f)
  \/ \E o \in Obj : coDelete(o)
  \/ \E v \in Obj, p \in Obj \cup {NULL} : coVectorAdd(v, p)
  \/ \E v \in Obj, p \in Obj \cup {NULL}, i \in Idx : coVectorSet(v, i, p)
  \/ \E v \in Obj : coVectorEraseLast(v)
  \/ \E v \in Obj : coVectorClear(v)
  \/ \E m \in Obj, p \in Obj \cup {NULL}, k \in Key : coMapAdd(m, k, p)
  \/ \E m \in Obj, k \in Key : coMapErase(m, k)
  \/ \E m \in Obj : coMapClear(m)
  \/ \E e \in Obj : StartClone(e)
  \/ \E v, src \in Obj : coVectorAppendVector(v, src)
  \/ \E m \in Obj : coNewVectorByMap(m)

Init ==
  /\ kind  = [o \in Obj |-> "free"]
  /\ flags = [o \in Obj |-> {}]
  /\ elem  = [o \in Obj |-> NoSlots]
  /\ cnt   = [o \in Obj |-> 0]
  /\ held  = {}
  /\ call  = <<>>
  /\ ret   = Pending
  /\ lost  = {}
  /\ halted = FALSE
  /\ oom \in BOOLEAN

Next ==
  /\ AppStep \/ LibStep
  /\ UNCHANGED oom

Spec == Init /\ [][Next]_vars

-----------------------------------------------------------------------------
(* Properties *)

\* what the steps of the library and of the application change has its type
StateOK ==
  /\ kind  \in [Obj -> Kinds]
  /\ flags \in [Obj -> SUBSET Flags]
  /\ elem  \in [Obj -> Slots]
  /\ cnt   \in [Obj -> 0 .. MaxCnt]
  /\ held  \subseteq Obj
  /\ call  \in Seq(Frame)
  /\ ret   \in Obj \cup {NULL, Pending}
  /\ lost  \subseteq Obj
  /\ halted \in BOOLEAN

\* Every variable has its type.
TypeOK == StateOK /\ oom \in BOOLEAN

\* A free address has no slots.
FreeIsBlank == \A o \in Obj : kind[o] = "free" => elem[o] = NoSlots

\* The library functions that are running own what they build: the containers
\* of the frames and the result under way are held, and all different.
FramesOK ==
  /\ ret \in held \cup {NULL, Pending}
  /\ \A n \in 1 .. Len(call) :
       /\ call[n].dst \in held \cup {NULL}
       /\ call[n].dst = NULL => call[n].op # "coVectorAppendVector"
       /\ ret # NULL => call[n].dst # ret
       /\ \A m \in 1 .. Len(call) :
            call[n].dst # NULL /\ call[m].dst = call[n].dst => m = n

\* slot i of o holds an object that coDelete(o) deletes
OwnedSlot(o, i) ==
  o \in Live /\ i \in DOMAIN elem[o] /\ Owns(o, i) /\ elem[o][i] # NULL

\* coDelete never frees an object twice and never follows a pointer to a freed
\* object: what an existing container owns exists, is owned by no other slot
\* and by no local variable.
OneOwner ==
  /\ held \cup lost \subseteq Live
  /\ held \cap lost = {}
  /\ \A o \in Obj, i \in Idx :
       OwnedSlot(o, i) => elem[o][i] \in Live \ (held \cup lost)
  /\ \A o, q \in Obj, i, j \in Idx :
       OwnedSlot(o, i) /\ OwnedSlot(q, j) /\ elem[o][i] = elem[q][j]
         => o = q /\ i = j

\* No memory leak beyond what an error path is known to drop: whatever exists
\* is freed when the local variables are deleted, or belongs to an object in
\* lost.
Accounted == Live \subseteq Tree(held \cup lost)

\* Without memory errors nothing is lost, in particular not by coClone,
\* coVectorAppendVector and coNewVectorByMap.
NothingLost == ~oom => lost = {}

\* b is a deep copy of a: what coDelete(b) frees can be mapped to a and to what is
\* reached from it, slot by slot and kind by kind, and shares no object with it.
DeepCopy(a, b) ==
  \E m \in [Tree({b}) -> Obj \ Tree({b})] :
    /\ m[b] = a
    /\ \A x \in Tree({b}) :
         /\ kind[x] = kind[m[x]] /\ DOMAIN elem[x] = DOMAIN elem[m[x]]
         /\ \A i \in DOMAIN elem[x] :
              IF elem[x][i] = NULL THEN elem[m[x]][i] = NULL
              ELSE elem[x][i] \in Tree({b}) /\ elem[m[x]][i] = m[elem[x][i]]

\* coClone of an object, and of each element of a container, returns a deep copy
\* when no allocation fails: never NULL, and when all elements are handled the
\* container that is returned equals the one it was made from and owns all that
\* it refers to; so does each clone that is about to be stored, also by
\* coVectorAppendVector, equal the element that is handled.  That a clone owns
\* its elements is what the code does, and what coDelete of a clone needs; the
\* comment on coClone has it otherwise: CloneFlagsNone.
CloneEqual ==
  ~oom =>
    /\ ret # NULL
    /\ /\ call # <<>> /\ Top.op \in {"coVectorMap", "coMapClone"}
       /\ Top.todo = {} /\ ret = Pending
       => Top.dst # NULL /\ DeepCopy(Top.src, Top.dst)
    /\ call # <<>> /\ ret # Pending =>
         \A k \in Top.todo : First(k) => DeepCopy(elem[Top.src][k], ret)

\* "Do a deep clone of the object and return the new objects. Flags are set to
\* CO_NONE for the new object tree" (co.c:45): no object that coClone returns
\* has a flag.  (Of the flags only the two that say what a container owns are
\* modelled; CO_STRDUP and CO_STRFREE, which coMapClone adds, are in CoMapKeys.)
CloneFlagsNone ==
  /\ call # <<>> /\ Top.op \in {"coVectorMap", "coMapClone"}
  /\ Top.todo = {} /\ ret = Pending /\ Top.dst # NULL
  => flags[Top.dst] = {}

\* A function reads a container only while it exists, also when it erases the
\* clones it has made and when a vector is appended to itself.
SourceLives ==
  \A i \in 1 .. Len(call) :
    /\ call[i].src \in Live
    /\ call[i].todo \subseteq DOMAIN elem[call[i].src]

\* coVectorAppendVector leaves the vector with all the clones or, after an
\* error, with the elements it had before; these never change.
AppendAllOrNothing ==
  [][\A v \in Obj :
       /\ call # <<>> /\ call[1].op = "coVectorAppendVector" /\ call[1].dst = v =>
            /\ \A i \in 0 .. call[1].old - 1 : elem'[v][i] = elem[v][i]
            /\ call' = <<>> => \/ cnt'[v] = call[1].old
                               \/ call[1].todo = {} ]_vars

\* The library implements the ownership rules of co.h: the owner of an object
\* is the local variable that holds it or the container that will delete it.
OwnerOf(o) ==
  CASE o \in held -> "local"
    [] o \in lost -> "lost"
    [] kind[o] = "free" -> "nobody"
    [] OTHER -> CHOOSE c \in Live : o \in Owned(c, Idx)
Ownership == INSTANCE CoOwnership WITH
               Nobody <- "nobody", Local <- "local", Lost <- "lost",
               owner <- [o \in Obj |-> OwnerOf(o)]
ImplementsOwnership == Ownership!Spec

=============================================================================
