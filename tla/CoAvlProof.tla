----------------------------- MODULE CoAvlProof -----------------------------
(***************************************************************************)
(* Proofs about CoAvl, for any number of keys: after every call the tree   *)
(* is an AVL search tree that holds all its nodes (TreeIsAvl), a traversal *)
(* meets the keys in order and its stack always has room                   *)
(* (TraversalIsInOrder), and the tree is a dictionary to its users         *)
(* (DictionaryImplemented).                                                *)
(*                                                                         *)
(* The tree is a set of linked nodes.  Its proofs need no induction over   *)
(* trees: a pair of bounds lo[n], hi[n] for every node says which keys     *)
(* belong below it (Placed), so that a subtree is an interval of the keys  *)
(* (SubtreeIs).  A call knows its path from the map down to where it is    *)
(* (PathOK), and for every node of the path the height that the subtree it *)
(* is in had when the height of the node was stored (Rising, Sinking).     *)
(***************************************************************************)
EXTENDS CoAvl, WellFoundedInduction, SequenceTheorems, TLAPS

\* A pair of numbers in order, as NatLessThanWellFounded has it.
Less == {ss \in Nat \X Nat : ss[1] < ss[2]}

\* A set of numbers has a least element.
LEMMA LeastOfSet ==
  ASSUME NEW T, T \subseteq Nat, T # {}
  PROVE  \E x \in T : \A y \in T : x <= y
<1>1. IsWellFoundedOn(Less, Nat)
  BY NatLessThanWellFounded DEF Less, OpToRel
<1>2. PICK x \in T : \A y \in T : ~ (<<y, x>> \in Less)
  BY <1>1, WFMin
<1>3. SUFFICES ASSUME NEW y \in T PROVE x <= y
  BY <1>2
<1>4. <<y, x>> \in Nat \X Nat /\ ~ (<<y, x>> \in Less)
  BY <1>2
<1>5. <<y, x>>[1] = y /\ <<y, x>>[2] = x
  OBVIOUS
<1>6. ~ (y < x)
  BY <1>4, <1>5 DEF Less
<1> QED BY <1>6

-----------------------------------------------------------------------------
(***************************************************************************)
(* The numbers Least                                                       *)
(***************************************************************************)

\* g is Least up to n.
UpTo(n, g) ==
  /\ g \in [0 .. n -> Nat]
  /\ \A h \in 0 .. n : g[h] = IF h < 2 THEN h + 1 ELSE g[h - 1] + g[h - 2]

LEMMA UpToExists == \A n \in Nat : \E g : UpTo(n, g)
<1> DEFINE T == {n \in Nat : ~ \E g : UpTo(n, g)}
<1> SUFFICES ASSUME T # {} PROVE FALSE
  OBVIOUS
<1>1. PICK n \in T : \A m \in T : n <= m
  BY LeastOfSet
<1>2. n \in Nat /\ ~ \E g : UpTo(n, g)
  OBVIOUS
<1>3. CASE n = 0
  <2>1. UpTo(0, [h \in 0 .. 0 |-> 1])
    BY DEF UpTo
  <2> QED BY <1>2, <1>3, <2>1
<1>4. CASE n # 0
  <2>1. n - 1 \in Nat /\ n - 1 \notin T
    BY <1>1, <1>2, <1>4
  <2>2. PICK g : UpTo(n - 1, g)
    BY <2>1
  <2> DEFINE f == [h \in 0 .. n |-> IF h = n THEN IF n < 2 THEN n + 1 ELSE g[n - 1] + g[n - 2]
                                    ELSE g[h]]
  <2>3. \A h \in 0 .. n - 1 : g[h] \in Nat
    BY <2>2 DEF UpTo
  <2>4. \A h \in 0 .. n : f[h] = IF h = n THEN IF n < 2 THEN n + 1 ELSE g[n - 1] + g[n - 2]
                                 ELSE g[h]
    OBVIOUS
  <2> HIDE DEF f
  <2>5. \A h \in 0 .. n : h < 2 \/ (h - 1 \in 0 .. n - 1 /\ h - 2 \in 0 .. n - 1)
    BY <1>2
  <2>6. \A h \in 0 .. n : f[h] \in Nat
    <3> TAKE h \in 0 .. n
    <3>1. CASE h = n
      BY <1>2, <2>3, <2>4, <2>5, <3>1
    <3>2. CASE h # n
      <4>1. h \in 0 .. n - 1
        BY <1>2, <3>2
      <4> QED BY <2>3, <2>4, <3>2, <4>1
    <3> QED BY <3>1, <3>2
  <2>7. f \in [0 .. n -> Nat]
    BY <2>6 DEF f
  <2>8. \A h \in 0 .. n : f[h] = IF h < 2 THEN h + 1 ELSE f[h - 1] + f[h - 2]
    <3> TAKE h \in 0 .. n
    <3>1. h < 2 \/ (h - 1 \in 0 .. n /\ h - 2 \in 0 .. n /\ f[h - 1] = g[h - 1] /\ f[h - 2] = g[h - 2])
      BY <1>2, <2>4, <2>5
    <3>2. CASE h = n
      BY <2>4, <3>1, <3>2
    <3>3. CASE h # n
      <4>1. h \in 0 .. n - 1
        BY <1>2, <3>3
      <4>2. g[h] = IF h < 2 THEN h + 1 ELSE g[h - 1] + g[h - 2]
        BY <2>2, <4>1 DEF UpTo
      <4> QED BY <2>4, <3>1, <3>3, <4>2
    <3> QED BY <3>2, <3>3
  <2>9. UpTo(n, f)
    BY <2>7, <2>8 DEF UpTo
  <2> QED BY <1>2, <2>9
<1> QED BY <1>3, <1>4

LEMMA UpToUnique ==
  ASSUME NEW n \in Nat, NEW m \in Nat, n <= m, NEW g, NEW f, UpTo(n, g), UpTo(m, f)
  PROVE  \A h \in 0 .. n : g[h] = f[h]
<1> DEFINE T == {h \in 0 .. n : g[h] # f[h]}
<1> SUFFICES ASSUME T # {} PROVE FALSE
  OBVIOUS
<1>1. T \subseteq Nat
  OBVIOUS
<1>2. PICK h \in T : \A l \in T : h <= l
  BY <1>1, LeastOfSet
<1>3. h \in 0 .. n /\ h \in 0 .. m /\ g[h] # f[h]
  OBVIOUS
<1>4. /\ g[h] = IF h < 2 THEN h + 1 ELSE g[h - 1] + g[h - 2]
      /\ f[h] = IF h < 2 THEN h + 1 ELSE f[h - 1] + f[h - 2]
  BY <1>3 DEF UpTo
<1>5. ~ (h < 2)
  BY <1>3, <1>4
<1>6. h - 1 \in 0 .. n /\ h - 2 \in 0 .. n
  BY <1>3, <1>5
<1>7. h - 1 \notin T /\ h - 2 \notin T
  BY <1>2, <1>3, <1>5
<1>8. g[h - 1] = f[h - 1] /\ g[h - 2] = f[h - 2]
  BY <1>6, <1>7
<1> QED BY <1>3, <1>4, <1>5, <1>8

\* Least is what its definition says.
LEMMA LeastIs ==
  Least = [h \in Nat |-> IF h < 2 THEN h + 1 ELSE Least[h - 1] + Least[h - 2]]
<1> DEFINE G(n) == CHOOSE g : UpTo(n, g)
           F == [h \in Nat |-> G(h)[h]]
<1>1. \A n \in Nat : UpTo(n, G(n))
  <2> TAKE n \in Nat
  <2>1. \E g : UpTo(n, g)
    BY UpToExists
  <2> QED BY <2>1
<1> HIDE DEF G
<1>2. ASSUME NEW h \in Nat
      PROVE  F[h] = IF h < 2 THEN h + 1 ELSE F[h - 1] + F[h - 2]
  <2>1. G(h)[h] = IF h < 2 THEN h + 1 ELSE G(h)[h - 1] + G(h)[h - 2]
    BY <1>1 DEF UpTo
  <2>2. CASE h < 2
    BY <2>1, <2>2
  <2>3. CASE ~ (h < 2)
    <3>1. h - 1 \in Nat /\ h - 2 \in Nat /\ h - 1 \in 0 .. h - 1 /\ h - 2 \in 0 .. h - 2
          /\ h - 1 <= h /\ h - 2 <= h
      BY <2>3
    <3>2. UpTo(h, G(h)) /\ UpTo(h - 1, G(h - 1)) /\ UpTo(h - 2, G(h - 2))
      BY <1>1, <3>1
    <3>3. \A l \in 0 .. h - 1 : G(h - 1)[l] = G(h)[l]
      BY <3>1, <3>2, UpToUnique
    <3>4. \A l \in 0 .. h - 2 : G(h - 2)[l] = G(h)[l]
      BY <3>1, <3>2, UpToUnique
    <3>5. G(h - 1)[h - 1] = G(h)[h - 1] /\ G(h - 2)[h - 2] = G(h)[h - 2]
      BY <3>1, <3>3, <3>4
    <3>6. F[h - 1] = G(h - 1)[h - 1] /\ F[h - 2] = G(h - 2)[h - 2] /\ F[h] = G(h)[h]
      BY <3>1
    <3> QED BY <2>1, <2>3, <3>5, <3>6
  <2> QED BY <2>2, <2>3
<1>3. F = [h \in Nat |-> IF h < 2 THEN h + 1 ELSE F[h - 1] + F[h - 2]]
  <2> HIDE DEF F
  <2>1. F = [h \in Nat |-> F[h]]
    BY DEF F
  <2> QED BY <1>2, <2>1
<1>4. \E f : f = [h \in Nat |-> IF h < 2 THEN h + 1 ELSE f[h - 1] + f[h - 2]]
  <2> HIDE DEF F
  <2> QED BY <1>3
<1> QED BY <1>4 DEF Least

LEMMA LeastValues ==
  /\ Least[0] = 1 /\ Least[1] = 2
  /\ \A h \in Nat : Least[h + 2] = Least[h + 1] + Least[h]
<1>1. \A h \in Nat : Least[h] = IF h < 2 THEN h + 1 ELSE Least[h - 1] + Least[h - 2]
  BY LeastIs
<1>2. ASSUME NEW h \in Nat PROVE Least[h + 2] = Least[h + 1] + Least[h]
  <2>1. h + 2 \in Nat /\ ~ (h + 2 < 2) /\ (h + 2) - 1 = h + 1 /\ (h + 2) - 2 = h
    OBVIOUS
  <2> QED BY <1>1, <2>1
<1> QED BY <1>1, <1>2

\* Least grows.
LEMMA LeastGrows ==
  /\ \A h \in Nat : Least[h] \in Nat /\ Least[h] > 0
  /\ \A h, l \in Nat : h <= l => Least[h] <= Least[l]
<1>1. \A h \in Nat : Least[h] \in Nat /\ Least[h] > 0
  <2> DEFINE T == {h \in Nat : ~ (Least[h] \in Nat /\ Least[h] > 0)}
  <2> SUFFICES ASSUME T # {} PROVE FALSE
    OBVIOUS
  <2>1. PICK h \in T : \A l \in T : h <= l
    BY LeastOfSet
  <2>2. h \in Nat /\ ~ (Least[h] \in Nat /\ Least[h] > 0)
    OBVIOUS
  <2>3. h # 0 /\ h # 1
    BY <2>2, LeastValues
  <2>4. h - 1 \in Nat /\ h - 2 \in Nat /\ h - 1 \notin T /\ h - 2 \notin T
    BY <2>1, <2>2, <2>3
  <2>5. Least[h] = Least[h - 1] + Least[h - 2]
    BY <2>4, LeastIs, <2>2, <2>3
  <2> QED BY <2>2, <2>4, <2>5
<1>2. \A h \in Nat : Least[h] <= Least[h + 1]
  <2> TAKE h \in Nat
  <2>1. CASE h = 0
    BY <2>1, LeastValues
  <2>2. CASE h # 0
    <3>1. h - 1 \in Nat /\ (h - 1) + 2 = h + 1 /\ (h - 1) + 1 = h
      BY <2>2
    <3>2. Least[h + 1] = Least[h] + Least[h - 1]
      BY <3>1, LeastValues
    <3> QED BY <1>1, <3>1, <3>2
  <2> QED BY <2>1, <2>2
<1>3. ASSUME NEW h \in Nat, NEW l \in Nat, h <= l PROVE Least[h] <= Least[l]
  <2> DEFINE T == {m \in Nat : h <= m /\ ~ (Least[h] <= Least[m])}
  <2> SUFFICES ASSUME T # {} PROVE FALSE
    BY <1>3
  <2>1. PICK m \in T : \A k \in T : m <= k
    BY LeastOfSet
  <2>2. m \in Nat /\ h <= m /\ ~ (Least[h] <= Least[m])
    OBVIOUS
  <2>3. m # h
    BY <1>1, <2>2
  <2>4. m - 1 \in Nat /\ h <= m - 1 /\ m - 1 \notin T /\ (m - 1) + 1 = m
    BY <2>1, <2>2, <2>3
  <2>5. Least[h] <= Least[m - 1] /\ Least[m - 1] <= Least[m]
    BY <1>2, <2>4
  <2> QED BY <1>1, <2>2, <2>4, <2>5
<1> QED BY <1>1, <1>3

-----------------------------------------------------------------------------
(***************************************************************************)
(* Trees                                                                   *)
(***************************************************************************)

\* The nodes with kids that are in use.
Owner(t) == Nodes(t) \cup {MapO}

TreeRecord(t) == t = [kid |-> t.kid, height |-> t.height, value |-> t.value]

\* A tree has its type: the nodes of EmptyTree and the values of those that are
\* allocated, which have a height.
TreeType(t) ==
  /\ TreeRecord(t)
  /\ t.kid \in [0 .. MapO -> [{0, 1} -> 0 .. MaxKey]]
  /\ t.height \in [0 .. MaxKey -> Nat]
  /\ t.value \in [Nodes(t) -> Value]
  /\ Nodes(t) \subseteq Key
  /\ t.height[0] = 0
  /\ \A n \in Nodes(t) : t.height[n] > 0

\* u is t after the kid c = kid[r][dir] of r, itself the kid s of p, became the
\* kid s of p.
Rotated(t, u, p, s, dir) ==
  LET r == t.kid[p][s]
      c == t.kid[r][dir]
  IN /\ u.kid[p][s] = c
     /\ u.kid[r][dir] = t.kid[c][1 - dir]
     /\ u.kid[c][1 - dir] = r
     /\ \A q \in 0 .. MapO, e \in {0, 1} :
          ~ (q = p /\ e = s) /\ ~ (q = r /\ e = dir) /\ ~ (q = c /\ e = 1 - dir)
            => u.kid[q][e] = t.kid[q][e]
     /\ u.kid[r][0] # r /\ u.kid[r][1] # r =>
          u.height[r] = 1 + Larger(u.height[u.kid[r][0]], u.height[u.kid[r][1]])
     /\ \A n \in 0 .. MaxKey : n # r => u.height[n] = t.height[n]
     /\ u.value = t.value

LEMMA Constants == MaxKey \in Nat /\ MapO = MaxKey + 1 /\ MapO \in Nat /\ Key = 1 .. MaxKey
  BY KeyAssumption DEF MapO, Key

LEMMA LargerIs ==
  \A a, b \in Int : Larger(a, b) \in Int /\ Larger(a, b) >= a /\ Larger(a, b) >= b
                    /\ (Larger(a, b) = a \/ Larger(a, b) = b)
  BY DEF Larger


LEMMA KidType ==
  ASSUME NEW t, TreeType(t), NEW p \in 0 .. MapO
  PROVE  /\ t.kid[p] \in [{0, 1} -> 0 .. MaxKey]
         /\ t.kid[p][0] \in 0 .. MaxKey /\ t.kid[p][1] \in 0 .. MaxKey
         /\ \A s \in {0, 1} : t.kid[p][s] \in 0 .. MaxKey
  BY ZenonT(30) DEF TreeType

LEMMA NodeType ==
  ASSUME NEW t, TreeType(t)
  PROVE  /\ \A n \in Nodes(t) : /\ n \in Key /\ n \in Int /\ n \in 0 .. MaxKey
                                /\ n \in 0 .. MapO /\ n # 0 /\ n < MapO
                                /\ t.height[n] \in Nat /\ t.height[n] > 0
         /\ \A n \in Owner(t) : n \in 0 .. MapO /\ n # 0 /\ n \in Int
         /\ t.height[0] = 0 /\ 0 \notin Nodes(t) /\ MapO \notin Nodes(t)
         /\ \A n \in 0 .. MaxKey : t.height[n] \in Nat
<1>1. \A n \in Key : /\ n \in Int /\ n \in 0 .. MaxKey /\ n \in 0 .. MapO /\ n # 0
                     /\ n < MapO
  BY Constants
<1>2. \A n \in Nodes(t) : n \in Key
  BY DEF TreeType
<1>3. t.height \in [0 .. MaxKey -> Nat] /\ t.height[0] = 0
      /\ \A n \in Nodes(t) : t.height[n] > 0
  BY DEF TreeType
<1>4. MapO \in 0 .. MapO /\ MapO # 0 /\ MapO \in Int
  BY Constants
<1>5. \A n \in 0 .. MaxKey : t.height[n] \in Nat
  BY <1>3
<1> HIDE DEF Nodes
<1> QED BY <1>1, <1>2, <1>3, <1>4, <1>5 DEF Owner

\* Linked sets one kid.
IsLinked(t, u, p, s, n) ==
  /\ TreeType(u)
  /\ u.height = t.height /\ u.value = t.value
  /\ u.kid[p][s] = n
  /\ \A q \in 0 .. MapO, e \in {0, 1} : ~ (q = p /\ e = s) => u.kid[q][e] = t.kid[q][e]

LEMMA LinkedIs ==
  ASSUME NEW t, TreeType(t), NEW p \in 0 .. MapO, NEW s \in {0, 1}, NEW n \in 0 .. MaxKey
  PROVE  IsLinked(t, Linked(t, p, s, n), p, s, n)
<1> DEFINE k == [t.kid EXCEPT ![p] = [t.kid[p] EXCEPT ![s] = n]]
           u == Linked(t, p, s, n)
<1>1. t.kid[p] \in [{0, 1} -> 0 .. MaxKey]
  BY KidType
<1>2. [t.kid[p] EXCEPT ![s] = n] \in [{0, 1} -> 0 .. MaxKey]
  BY <1>1
<1>3. t.kid \in [0 .. MapO -> [{0, 1} -> 0 .. MaxKey]]
  BY DEF TreeType
<1>4. k \in [0 .. MapO -> [{0, 1} -> 0 .. MaxKey]]
  BY <1>2, <1>3
<1>5. k[p] = [t.kid[p] EXCEPT ![s] = n] /\ \A q \in 0 .. MapO : q # p => k[q] = t.kid[q]
  BY <1>3
<1>6. k[p][s] = n /\ \A e \in {0, 1} : e # s => k[p][e] = t.kid[p][e]
  BY <1>1, <1>5
<1> HIDE DEF k
<1>7. u = [kid |-> k, height |-> t.height, value |-> t.value]
  BY DEF TreeType, TreeRecord, Linked, k
<1> HIDE DEF u
<1>8. u.kid = k /\ u.height = t.height /\ u.value = t.value
  BY <1>7
<1>9. TreeType(u)
  BY <1>4, <1>7, <1>8 DEF TreeType, TreeRecord, Nodes
<1>10. IsLinked(t, u, p, s, n)
  BY <1>5, <1>6, <1>8, <1>9 DEF IsLinked
<1> QED BY <1>10 DEF u

\* avl_set_height sets the height of one node.
HeightSet(t, u, n) ==
  /\ TreeType(u)
  /\ u.kid = t.kid /\ u.value = t.value
  /\ u.height[n] = 1 + Larger(t.height[t.kid[n][0]], t.height[t.kid[n][1]])
  /\ \A m \in 0 .. MaxKey : m # n => u.height[m] = t.height[m]

LEMMA SetHeightIs ==
  ASSUME NEW t, TreeType(t), NEW n \in Key
  PROVE  HeightSet(t, avl_set_height(t, n), n)
<1> DEFINE h == 1 + Larger(t.height[t.kid[n][0]], t.height[t.kid[n][1]])
           u == avl_set_height(t, n)
<1>1. n \in 0 .. MaxKey /\ n \in 0 .. MapO /\ n # 0
  BY Constants
<1>2. t.kid[n][0] \in 0 .. MaxKey /\ t.kid[n][1] \in 0 .. MaxKey
  BY <1>1, KidType
<1>3. t.height[t.kid[n][0]] \in Nat /\ t.height[t.kid[n][1]] \in Nat
  BY <1>2 DEF TreeType
<1>4. h \in Nat /\ h > 0
  BY <1>3 DEF Larger
<1>5. u = [kid |-> t.kid, height |-> [t.height EXCEPT ![n] = h], value |-> t.value]
  <2> HIDE DEF h
  <2>1. u = [t EXCEPT !.height[n] = h]
    BY DEF avl_set_height, h
  <2> HIDE DEF u
  <2> QED BY <2>1 DEF TreeType, TreeRecord
<1> HIDE DEF h
<1> HIDE DEF u
<1>6. u.kid = t.kid /\ u.value = t.value /\ u.height = [t.height EXCEPT ![n] = h]
  BY <1>5
<1>7. t.height \in [0 .. MaxKey -> Nat]
  BY DEF TreeType
<1>8. u.height \in [0 .. MaxKey -> Nat] /\ u.height[n] = h
      /\ \A m \in 0 .. MaxKey : m # n => u.height[m] = t.height[m]
  BY <1>1, <1>4, <1>6, <1>7
<1>9. \A m \in Nodes(u) : u.height[m] > 0
  <2>1. Nodes(u) = Nodes(t)
    BY <1>6 DEF Nodes
  <2>2. \A m \in Nodes(t) : m \in 0 .. MaxKey /\ t.height[m] > 0
    BY NodeType
  <2> QED BY <1>4, <1>8, <2>1, <2>2
<1>10. u.height[0] = 0
  BY <1>1, <1>8, Constants DEF TreeType
<1>11. TreeType(u)
  BY <1>5, <1>6, <1>8, <1>9, <1>10 DEF TreeType, TreeRecord, Nodes
<1>12. HeightSet(t, u, n)
  BY <1>6, <1>8, <1>11 DEF h, HeightSet
<1> QED BY <1>12 DEF u

\* avl_rotate of a node with a kid in direction dir.
LEMMA RotateIs ==
  ASSUME NEW t, TreeType(t), NEW p \in Owner(t), NEW s \in {0, 1}, NEW dir \in {0, 1},
         NEW r \in Nodes(t), NEW c \in Nodes(t),
         r = t.kid[p][s], c = t.kid[r][dir], p # r, p # c, r # c
  PROVE  LET u == avl_rotate(t, p, s, dir) IN TreeType(u) /\ Rotated(t, u, p, s, dir)
<1> DEFINE g == t.kid[c][1 - dir]
           t1 == Linked(t, p, s, c)
           t2 == Linked(t1, r, dir, g)
           t3 == avl_set_height(t2, r)
           u == Linked(t3, c, 1 - dir, r)
<1>1. /\ p \in 0 .. MapO /\ r \in 0 .. MapO /\ c \in 0 .. MapO /\ c # 0
      /\ r \in Key /\ r \in 0 .. MaxKey /\ c \in 0 .. MaxKey /\ 1 - dir \in {0, 1}
      /\ 1 - dir # dir
  BY NodeType
<1>2. g \in 0 .. MaxKey
  BY <1>1, KidType
<1>3. avl_rotate(t, p, s, dir) = u
  BY <1>1 DEF avl_rotate, avl_nnil
<1> HIDE DEF g
<1>4. IsLinked(t, t1, p, s, c)
  BY <1>1, LinkedIs
<1> HIDE DEF t1
<1>5. IsLinked(t1, t2, r, dir, g)
  <2>1. TreeType(t1)
    BY <1>4 DEF IsLinked
  <2> QED BY <1>1, <1>2, <2>1, LinkedIs
<1> HIDE DEF t2
<1>6. HeightSet(t2, t3, r)
  <2>1. TreeType(t2)
    BY <1>5 DEF IsLinked
  <2> QED BY <1>1, <2>1, SetHeightIs
<1> HIDE DEF t3
<1>7. IsLinked(t3, u, c, 1 - dir, r)
  <2>1. TreeType(t3)
    BY <1>6, Zenon DEF HeightSet
  <2> QED BY <1>1, <2>1, LinkedIs
<1> HIDE DEF u
<1>8. /\ t1.kid[p][s] = c
      /\ \A q \in 0 .. MapO, e \in {0, 1} : ~ (q = p /\ e = s) => t1.kid[q][e] = t.kid[q][e]
      /\ t2.kid[r][dir] = g
      /\ \A q \in 0 .. MapO, e \in {0, 1} : ~ (q = r /\ e = dir) => t2.kid[q][e] = t1.kid[q][e]
      /\ t3.kid = t2.kid
      /\ u.kid[c][1 - dir] = r
      /\ \A q \in 0 .. MapO, e \in {0, 1} : ~ (q = c /\ e = 1 - dir) => u.kid[q][e] = t3.kid[q][e]
  BY <1>4, <1>5, <1>6, <1>7, Zenon DEF IsLinked, HeightSet
<1>9. u.kid[p][s] = c /\ u.kid[r][dir] = g
  <2>1. t2.kid[p][s] = t1.kid[p][s] /\ u.kid[p][s] = t3.kid[p][s]
    BY <1>1, <1>8, Zenon
  <2>2. u.kid[r][dir] = t3.kid[r][dir]
    BY <1>1, <1>8, ZenonT(30)
  <2> QED BY <1>8, <2>1, <2>2, Zenon
<1>10. \A q \in 0 .. MapO, e \in {0, 1} :
         ~ (q = p /\ e = s) /\ ~ (q = r /\ e = dir) /\ ~ (q = c /\ e = 1 - dir)
           => u.kid[q][e] = t.kid[q][e]
  BY <1>8
<1>11. u.kid[r][0] = t2.kid[r][0] /\ u.kid[r][1] = t2.kid[r][1]
  <2>1. \A e \in {0, 1} : u.kid[r][e] = t3.kid[r][e]
    BY <1>1, <1>8, Zenon
  <2>2. 0 \in {0, 1} /\ 1 \in {0, 1}
    OBVIOUS
  <2> QED BY <1>8, <2>1, <2>2, Zenon
<1>13. /\ TreeType(u) /\ u.height = t3.height /\ u.value = t3.value
  BY <1>7 DEF IsLinked
<1>14. t2.height = t.height /\ t2.value = t.value
  <2>1. t1.height = t.height /\ t1.value = t.value
    BY <1>4 DEF IsLinked
  <2>2. t2.height = t1.height /\ t2.value = t1.value
    BY <1>5, Zenon DEF IsLinked
  <2> QED BY <2>1, <2>2
<1>15. u.value = t.value /\ \A n \in 0 .. MaxKey : n # r => u.height[n] = t.height[n]
  BY <1>6, <1>13, <1>14, Zenon DEF HeightSet
<1>12. u.kid[r][0] # r /\ u.kid[r][1] # r => u.height[r] = 1 + Larger(u.height[u.kid[r][0]], u.height[u.kid[r][1]])
  <2>1. t2.kid[r][0] \in 0 .. MaxKey /\ t2.kid[r][1] \in 0 .. MaxKey
    BY <1>1, <1>5, KidType, Zenon DEF IsLinked
  <2>2. /\ u.height = t3.height
        /\ t3.height[r] = 1 + Larger(t2.height[t2.kid[r][0]], t2.height[t2.kid[r][1]])
        /\ \A m \in 0 .. MaxKey : m # r => t3.height[m] = t2.height[m]
    BY <1>6, <1>13, Zenon DEF HeightSet
  <2> QED BY <1>11, <2>1, <2>2, Zenon
<1>16. Rotated(t, u, p, s, dir)
  <2> HIDE DEF g
  <2>1. t.kid[p][s] = r /\ t.kid[r][dir] = c /\ t.kid[c][1 - dir] = g
    BY DEF g
  <2> QED BY <1>8, <1>9, <1>10, <1>12, <1>15, <2>1, ZenonT(30) DEF Rotated
<1> QED BY <1>3, <1>13, <1>16

-----------------------------------------------------------------------------
(***************************************************************************)
(* Where the nodes may be: a node n holds the keys between lo[n] and hi[n] *)
(***************************************************************************)

\* the bound above every key and the map
Top == MapO + 1

BoundsType(lo, hi) == lo \in [1 .. MapO -> 0 .. Top] /\ hi \in [1 .. MapO -> 0 .. Top]

\* the keys that belong to the kid s of p
SlotLo(lo, p, s) == IF s = 0 THEN lo[p] ELSE p
SlotHi(hi, p, s) == IF s = 0 THEN p ELSE hi[p]

\* The keys of a node are around it, and their bounds are nodes.
Wide(t, lo, hi) ==
  /\ lo[MapO] = 0 /\ hi[MapO] = Top
  /\ \A n \in Nodes(t) : /\ lo[n] < n /\ n < hi[n]
                         /\ lo[n] \in Nodes(t) \cup {0}
                         /\ hi[n] \in Nodes(t) \cup {MapO}

\* A kid has the keys of its place; where no kid is, there are no keys.
Kids(t, lo, hi) ==
  \A p \in Owner(t), s \in {0, 1} :
    /\ t.kid[p][s] # 0 => /\ t.kid[p][s] \in Nodes(t)
                          /\ lo[t.kid[p][s]] = SlotLo(lo, p, s)
                          /\ hi[t.kid[p][s]] = SlotHi(hi, p, s)
    /\ t.kid[p][s] = 0 =>
         \A m \in Nodes(t) : ~ (SlotLo(lo, p, s) < m /\ m < SlotHi(hi, p, s))

\* The keys of two nodes are nested or apart.
Nest(t, lo, hi) ==
  \A n \in Owner(t), m \in Nodes(t) :
    /\ lo[n] < m /\ m < n => lo[n] <= lo[m] /\ hi[m] <= n
    /\ n < m /\ m < hi[n] => n <= lo[m] /\ hi[m] <= hi[n]

\* The bounds of a node are above it.
Above(t, lo, hi) ==
  \A n \in Nodes(t) :
    /\ lo[n] # 0 => n < hi[lo[n]]
    /\ lo[hi[n]] < n

\* t is a search tree in which every node is where its bounds say.
Placed(t, lo, hi) ==
  /\ BoundsType(lo, hi)
  /\ Wide(t, lo, hi)
  /\ Kids(t, lo, hi)
  /\ Nest(t, lo, hi)
  /\ Above(t, lo, hi)

LEMMA BoundsAre ==
  ASSUME NEW t, TreeType(t), NEW lo, NEW hi, BoundsType(lo, hi)
  PROVE  /\ \A n \in Owner(t) : n \in 1 .. MapO /\ lo[n] \in Int /\ hi[n] \in Int
                                /\ lo[n] \in 0 .. Top /\ hi[n] \in 0 .. Top
         /\ \A n \in Nodes(t) : n \in Owner(t)
         /\ MapO \in Owner(t)
         /\ Top = MapO + 1
<1>1. \A n \in Owner(t) : n \in 1 .. MapO
  BY NodeType, Constants DEF Owner
<1>2. \A n \in 1 .. MapO : lo[n] \in 0 .. Top /\ hi[n] \in 0 .. Top
  BY DEF BoundsType
<1>3. 0 .. Top \subseteq Int
  BY Constants DEF Top
<1> QED BY <1>1, <1>2, <1>3 DEF Owner, Top

\* A kid is strictly between the ends of its place, of which its parent is one.
KidAt(t, lo, hi, p, s, r) ==
  /\ r \in Nodes(t) /\ r \in Owner(t) /\ r # p
  /\ lo[r] < r /\ r < hi[r]
  /\ s = 0 => hi[r] = p /\ lo[r] = lo[p] /\ r < p
  /\ s = 1 => lo[r] = p /\ hi[r] = hi[p] /\ p < r

LEMMA KidPlace ==
  ASSUME NEW t, TreeType(t), NEW lo, NEW hi, Placed(t, lo, hi)
  PROVE  \A p \in Owner(t), s \in {0, 1} :
           t.kid[p][s] # 0 => KidAt(t, lo, hi, p, s, t.kid[p][s])
<1> SUFFICES ASSUME NEW p \in Owner(t), NEW s \in {0, 1}, t.kid[p][s] # 0
             PROVE  KidAt(t, lo, hi, p, s, t.kid[p][s])
  OBVIOUS
<1> DEFINE r == t.kid[p][s]
<1>1. r \in Nodes(t) /\ lo[r] = SlotLo(lo, p, s) /\ hi[r] = SlotHi(hi, p, s)
  BY DEF Placed, Kids
<1>2. lo[r] < r /\ r < hi[r]
  BY <1>1 DEF Placed, Wide
<1>3. r \in Owner(t)
  BY <1>1 DEF Owner
<1>4. p \in Int /\ r \in Int
  BY <1>3, NodeType
<1> HIDE DEF r
<1> QED BY <1>1, <1>2, <1>3, <1>4 DEF SlotLo, SlotHi, KidAt, r

\* A node has one parent.
LEMMA OneParent ==
  ASSUME NEW t, TreeType(t), NEW lo, NEW hi, Placed(t, lo, hi),
         NEW p \in Owner(t), NEW s \in {0, 1}, NEW q \in Owner(t), NEW e \in {0, 1},
         NEW r, r # 0, r = t.kid[p][s], r = t.kid[q][e]
  PROVE  p = q /\ s = e
<1>0. KidAt(t, lo, hi, p, s, r) /\ KidAt(t, lo, hi, q, e, r)
  BY KidPlace
<1>1. /\ s = 0 => hi[r] = p /\ lo[r] = lo[p] /\ r < p
      /\ s = 1 => lo[r] = p /\ hi[r] = hi[p] /\ p < r
  BY <1>0 DEF KidAt
<1>2. /\ e = 0 => hi[r] = q /\ lo[r] = lo[q] /\ r < q
      /\ e = 1 => lo[r] = q /\ hi[r] = hi[q] /\ q < r
  BY <1>0 DEF KidAt
<1>3. p \in Int /\ q \in Int /\ p # 0 /\ q # 0 /\ r \in Int
  <2>1. r \in Owner(t)
    BY <1>0 DEF KidAt
  <2> QED BY <2>1, NodeType
<1>4. \A n \in Owner(t) : lo[n] # 0 => n < hi[lo[n]]
  BY DEF Owner, Placed, Above, Wide
<1>5. lo[p] \in Int /\ hi[p] \in Int /\ lo[q] \in Int /\ hi[q] \in Int
  BY BoundsAre DEF Placed
<1>6. CASE s = 0 /\ e = 1
  <2>1. lo[p] = q /\ hi[q] = p
    BY <1>1, <1>2, <1>6
  <2> QED BY <1>3, <1>4, <2>1
<1>7. CASE s = 1 /\ e = 0
  <2>1. lo[q] = p /\ hi[p] = q
    BY <1>1, <1>2, <1>7, Zenon
  <2> QED BY <1>3, <1>4, <2>1
<1> QED BY <1>1, <1>2, <1>6, <1>7

-----------------------------------------------------------------------------
(***************************************************************************)
(* A rotation                                                              *)
(***************************************************************************)

\* The bounds after a rotation of r with its kid c: the one that is below has the
\* other one for a bound.
RotLo(lo, r, c, dir) == IF dir = 1 THEN [lo EXCEPT ![c] = lo[r]] ELSE [lo EXCEPT ![r] = c]
RotHi(hi, r, c, dir) == IF dir = 1 THEN [hi EXCEPT ![r] = c] ELSE [hi EXCEPT ![c] = hi[r]]

LEMMA RotatePlaced1 ==
  ASSUME NEW t, TreeType(t), NEW u, TreeType(u), NEW lo, NEW hi, Placed(t, lo, hi),
         NEW p \in Owner(t), NEW s \in {0, 1}, NEW r \in Nodes(t), NEW c \in Nodes(t),
         r = t.kid[p][s], c = t.kid[r][1], Rotated(t, u, p, s, 1)
  PROVE  Placed(u, RotLo(lo, r, c, 1), RotHi(hi, r, c, 1))
<1> DEFINE lo2 == RotLo(lo, r, c, 1)
           hi2 == RotHi(hi, r, c, 1)
<1>1. /\ r \in Owner(t) /\ c \in Owner(t) /\ r # 0 /\ c # 0
      /\ \A n \in Owner(t) : n \in 1 .. MapO /\ n \in Int /\ n # 0 /\ lo[n] \in Int /\ hi[n] \in Int
      /\ \A n \in Nodes(t) : n \in Owner(t) /\ n < MapO
      /\ MapO \in Owner(t)
  BY BoundsAre, NodeType DEF Placed
<1>2. /\ lo \in [1 .. MapO -> 0 .. Top] /\ hi \in [1 .. MapO -> 0 .. Top]
      /\ lo[r] \in 0 .. Top /\ c \in 0 .. Top
  <2>1. lo \in [1 .. MapO -> 0 .. Top] /\ hi \in [1 .. MapO -> 0 .. Top]
    BY DEF Placed, BoundsType
  <2>2. c \in 0 .. Top
    BY <1>1, Constants DEF Top
  <2> QED BY <1>1, <2>1, <2>2
<1>3. lo2 = [lo EXCEPT ![c] = lo[r]] /\ hi2 = [hi EXCEPT ![r] = c]
  BY DEF RotLo, RotHi
<1>4. BoundsType(lo2, hi2)
  BY <1>1, <1>2, <1>3, ZenonT(30) DEF BoundsType
<1>5. /\ \A n \in Owner(t) : n # c => lo2[n] = lo[n]
      /\ \A n \in Owner(t) : n # r => hi2[n] = hi[n]
      /\ lo2[c] = lo[r] /\ hi2[r] = c
  BY <1>1, <1>2, <1>3, Zenon
<1> HIDE DEF lo2, hi2
<1>6. lo[c] = r /\ hi[c] = hi[r] /\ lo[r] < r /\ r < c /\ c < hi[r]
  BY <1>1, KidPlace DEF KidAt
<1>6a. /\ r \in Int /\ lo[r] \in Int /\ hi[r] \in Int
       /\ c \in Int /\ lo[c] \in Int /\ hi[c] \in Int
  BY <1>1, Zenon
<1>7. /\ lo[MapO] = 0 /\ hi[MapO] = Top
      /\ \A n \in Nodes(t) : /\ lo[n] < n /\ n < hi[n]
                             /\ lo[n] \in Nodes(t) \cup {0}
                             /\ hi[n] \in Nodes(t) \cup {MapO}
  BY DEF Placed, Wide
<1>8. \A n \in Owner(t), m \in Nodes(t) :
        /\ lo[n] < m /\ m < n => lo[n] <= lo[m] /\ hi[m] <= n
        /\ n < m /\ m < hi[n] => n <= lo[m] /\ hi[m] <= hi[n]
  BY DEF Placed, Nest
<1>9. \A n \in Nodes(t) : /\ lo[n] # 0 => n < hi[lo[n]]
                          /\ lo[hi[n]] < n
  BY Zenon DEF Placed, Above
<1>10. Nodes(u) = Nodes(t) /\ Owner(u) = Owner(t)
  BY Zenon DEF Rotated, Nodes, Owner
<1>11. Wide(u, lo2, hi2)
  BY <1>1, <1>5, <1>6, <1>7, <1>10 DEF Wide
<1>12. ASSUME NEW n \in Owner(t), NEW m \in Nodes(t)
       PROVE  /\ lo2[n] < m /\ m < n => lo2[n] <= lo2[m] /\ hi2[m] <= n
              /\ n < m /\ m < hi2[n] => n <= lo2[m] /\ hi2[m] <= hi2[n]
  <2>1. /\ lo[n] < m /\ m < n => lo[n] <= lo[m] /\ hi[m] <= n
        /\ n < m /\ m < hi[n] => n <= lo[m] /\ hi[m] <= hi[n]
    BY <1>8
  <2>a. /\ lo[r] < m /\ m < r => lo[r] <= lo[m] /\ hi[m] <= r
        /\ r < m /\ m < hi[r] => r <= lo[m] /\ hi[m] <= hi[r]
        /\ lo[c] < m /\ m < c => lo[c] <= lo[m] /\ hi[m] <= c
        /\ c < m /\ m < hi[c] => c <= lo[m] /\ hi[m] <= hi[c]
    BY <1>1, <1>8, Zenon
  <2>b. /\ m # c => lo2[m] = lo[m]
        /\ m # r => hi2[m] = hi[m]
        /\ n # c => lo2[n] = lo[n]
        /\ n # r => hi2[n] = hi[n]
        /\ lo2[c] = lo[r] /\ hi2[r] = c
    BY <1>1, <1>5, Zenon
  <2>c. /\ n \in Int /\ lo[n] \in Int /\ hi[n] \in Int
        /\ m \in Int /\ lo[m] \in Int /\ hi[m] \in Int
    BY <1>1, Zenon
  <2>2. CASE n = r
    BY <2>2, <2>a, <2>b, <2>c, <1>6, <1>6a
  <2>3. CASE n = c
    BY <2>3, <2>a, <2>b, <2>c, <1>6, <1>6a
  <2>4. CASE n # r /\ n # c /\ m = r
    <3>1. lo2[n] = lo[n] /\ hi2[n] = hi[n] /\ lo2[m] = lo[r] /\ hi2[m] = c
      BY <2>4, <2>b, <1>6, Zenon
    <3>2. /\ lo[n] < r /\ r < n => lo[n] <= lo[r] /\ hi[r] <= n
          /\ n < r /\ r < hi[n] => n <= lo[r] /\ hi[r] <= hi[n]
      BY <2>1, <2>4, ZenonT(30)
    <3> QED BY <2>4, <3>1, <3>2, <2>c, <1>6, <1>6a
  <2>5. CASE n # r /\ n # c /\ m = c
    BY <2>1, <2>5, <1>1, <1>5, <1>6, <1>7, <1>8, <1>9
  <2>6. CASE n # r /\ n # c /\ m # r /\ m # c
    BY <2>1, <2>6, <2>b, Zenon
  <2> QED BY <2>2, <2>3, <2>4, <2>5, <2>6
<1>13. Nest(u, lo2, hi2)
  BY <1>10, <1>12 DEF Nest
<1>14. Above(u, lo2, hi2)
  <2>0. SUFFICES ASSUME NEW n \in Nodes(t)
                 PROVE  /\ lo2[n] # 0 => n < hi2[lo2[n]]
                        /\ lo2[hi2[n]] < n
    BY <1>10 DEF Above
  <2>1. /\ n \in Owner(t) /\ n \in Int /\ hi[n] \in Owner(t)
        /\ lo[n] # 0 => lo[n] \in Owner(t)
        /\ lo[n] # 0 => n < hi[lo[n]]
        /\ lo[hi[n]] < n
    <3>1. n \in Owner(t) /\ n \in Int
      BY <1>1, Zenon
    <3>2. hi[n] \in Owner(t) /\ (lo[n] # 0 => lo[n] \in Owner(t))
      BY <1>1, <1>7, Zenon DEF Owner
    <3> QED BY <3>1, <3>2, <1>9, Zenon
  <2>2. CASE n = r
    <3>1. lo2[n] = lo[r] /\ hi2[n] = c /\ lo2[c] = lo[r] /\ lo[r] # r
      BY <2>2, <1>1, <1>5, <1>6
    <3>2. lo[r] # 0 => hi2[lo[r]] = hi[lo[r]]
      BY <2>1, <2>2, <3>1, <1>5, Zenon
    <3> QED BY <2>1, <2>2, <3>1, <3>2, <1>6
  <2>3. CASE n = c
    <3>1. lo2[n] = lo[r] /\ hi2[n] = hi[r]
      BY <2>3, <1>1, <1>5, <1>6
    <3>2. hi[r] \in Owner(t) /\ lo[hi[r]] < r /\ hi[r] # c /\ lo2[hi[r]] = lo[hi[r]]
      <4>1. hi[r] \in Owner(t) /\ lo[hi[r]] < r
        BY <1>1, <1>7, <1>9, Zenon DEF Owner
      <4>2. hi[r] # c
        BY <1>6, <1>6a
      <4> QED BY <4>1, <4>2, <1>5, Zenon
    <3>3. lo2[hi2[n]] < n
      BY <2>3, <3>1, <3>2, <1>1, <1>6
    <3>4. ASSUME lo[r] # 0 PROVE c < hi2[lo[r]]
      <4>1. lo[r] \in Owner(t) /\ r < hi[lo[r]] /\ lo[r] # r
        BY <3>4, <1>1, <1>6, <1>7, <1>9
      <4>2. hi[r] <= hi[lo[r]]
        BY <4>1, <1>6, <1>8, Zenon
      <4>3. hi2[lo[r]] = hi[lo[r]]
        BY <4>1, <1>5, Zenon
      <4>4. hi[lo[r]] \in Int /\ hi[r] \in Int /\ c \in Int
        BY <4>1, <1>1, Zenon
      <4> QED BY <4>2, <4>3, <4>4, <1>6
    <3> QED BY <2>3, <3>1, <3>3, <3>4
  <2>4. CASE n # r /\ n # c
    <3>1. lo2[n] = lo[n] /\ hi2[n] = hi[n]
      BY <2>1, <2>4, <1>5, Zenon
    <3>2. lo2[hi2[n]] < n
      <4>1. CASE hi[n] = c
        <5>1. r < n /\ lo2[hi2[n]] = lo[r]
          BY <2>1, <3>1, <4>1, <1>5, <1>6
        <5> QED BY <2>1, <5>1, <1>6, <1>6a
      <4>2. CASE hi[n] # c
        BY <2>1, <3>1, <4>2, <1>5
      <4> QED BY <4>1, <4>2
    <3>3. ASSUME lo[n] = r, c < n PROVE FALSE
      <4>1. lo[n] < c /\ n < hi[r]
        BY <2>1, <3>3, <1>1, <1>6
      <4>2. hi[c] <= n
        BY <2>1, <3>3, <4>1, <1>8, Zenon
      <4> QED BY <2>1, <4>1, <4>2, <1>6, <1>6a
    <3>4. lo2[n] # 0 => n < hi2[lo2[n]]
      <4>1. CASE lo[n] = r
        <5>1. n < c
          BY <2>1, <2>4, <3>3, <4>1, <1>6a
        <5> QED BY <3>1, <4>1, <5>1, <1>5
      <4>2. CASE lo[n] # r
        BY <2>1, <3>1, <4>2, <1>5
      <4> QED BY <4>1, <4>2
    <3> QED BY <3>2, <3>4
  <2> QED BY <2>2, <2>3, <2>4
<1>15. /\ r # p /\ c # p /\ r # c
       /\ s = 0 => hi[r] = p /\ lo[r] = lo[p] /\ r < p
       /\ s = 1 => lo[r] = p /\ hi[r] = hi[p] /\ p < r
  <2>1. KidAt(t, lo, hi, p, s, r)
    BY <1>1, KidPlace, Zenon
  <2> QED BY <1>1, <1>6, <2>1 DEF KidAt
<1>16. /\ u.kid[p][s] = c
       /\ u.kid[r][1] = t.kid[c][0]
       /\ u.kid[c][0] = r
       /\ \A q \in 0 .. MapO, e \in {0, 1} :
            ~ (q = p /\ e = s) /\ ~ (q = r /\ e = 1) /\ ~ (q = c /\ e = 0)
              => u.kid[q][e] = t.kid[q][e]
  <2>1. 1 - 1 = 0
    OBVIOUS
  <2> QED BY <2>1, ZenonT(30) DEF Rotated
<1>17. ASSUME NEW q \in Owner(t), NEW e \in {0, 1}
       PROVE  /\ u.kid[q][e] # 0 => /\ u.kid[q][e] \in Nodes(t)
                                    /\ lo2[u.kid[q][e]] = SlotLo(lo2, q, e)
                                    /\ hi2[u.kid[q][e]] = SlotHi(hi2, q, e)
              /\ u.kid[q][e] = 0 =>
                   \A m \in Nodes(t) : ~ (SlotLo(lo2, q, e) < m /\ m < SlotHi(hi2, q, e))
  <2>1. CASE q = p /\ e = s
    BY <1>1, <1>5, <1>6, <1>15, <1>16, <2>1, ZenonT(30) DEF SlotLo, SlotHi
  <2>2. CASE q = c /\ e = 0
    BY <1>1, <1>5, <1>6, <1>16, <2>2, ZenonT(30) DEF SlotLo, SlotHi
  <2>3. CASE q = r /\ e = 1
    <3>1. SlotLo(lo2, q, e) = r /\ SlotHi(hi2, q, e) = c
      BY <1>5, <2>3 DEF SlotLo, SlotHi
    <3>2. SlotLo(lo, c, 0) = r /\ SlotHi(hi, c, 0) = c
      BY <1>6, Zenon DEF SlotLo, SlotHi
    <3>3. /\ t.kid[c][0] # 0 => /\ t.kid[c][0] \in Nodes(t)
                                /\ lo[t.kid[c][0]] = r /\ hi[t.kid[c][0]] = c
                                /\ t.kid[c][0] # c /\ t.kid[c][0] # r
          /\ t.kid[c][0] = 0 => \A m \in Nodes(t) : ~ (r < m /\ m < c)
      <4>1. t.kid[c][0] # 0 => KidAt(t, lo, hi, c, 0, t.kid[c][0])
        BY <1>1, KidPlace
      <4>2. t.kid[c][0] = 0 => \A m \in Nodes(t) : ~ (r < m /\ m < c)
        BY <1>1, <3>2 DEF Placed, Kids
      <4>3. t.kid[c][0] # 0 => /\ t.kid[c][0] \in Nodes(t)
                               /\ lo[t.kid[c][0]] = r /\ hi[t.kid[c][0]] = c
                               /\ t.kid[c][0] # c /\ t.kid[c][0] # r
        <5> DEFINE g == t.kid[c][0]
        <5> HIDE DEF g
        <5>1. g # 0 => g \in Nodes(t) /\ lo[g] = r /\ hi[g] = c /\ r < g /\ g # c
          BY <1>6, <4>1, Zenon DEF KidAt, g
        <5>2. r \in Int
          BY <1>1
        <5>3. g # 0 => g # r
          BY <5>1, <5>2
        <5> QED BY <5>1, <5>3, ZenonT(30) DEF g
      <4> QED BY <4>2, <4>3, Zenon
    <3>4. u.kid[q][e] = t.kid[c][0]
      BY <1>16, <2>3, Zenon
    <3>5. t.kid[c][0] # 0 => lo2[t.kid[c][0]] = r /\ hi2[t.kid[c][0]] = c
      BY <1>1, <1>5, <3>3, Zenon
    <3> QED BY <3>1, <3>3, <3>4, <3>5, Zenon
  <2>4. CASE ~ (q = p /\ e = s) /\ ~ (q = r /\ e = 1) /\ ~ (q = c /\ e = 0)
    <3>1. u.kid[q][e] = t.kid[q][e]
      BY <1>16, <2>4, NodeType
    <3>2. /\ t.kid[q][e] # 0 => /\ t.kid[q][e] \in Nodes(t)
                                /\ lo[t.kid[q][e]] = SlotLo(lo, q, e)
                                /\ hi[t.kid[q][e]] = SlotHi(hi, q, e)
          /\ t.kid[q][e] = 0 =>
               \A m \in Nodes(t) : ~ (SlotLo(lo, q, e) < m /\ m < SlotHi(hi, q, e))
      BY DEF Placed, Kids
    <3>3. SlotLo(lo2, q, e) = SlotLo(lo, q, e) /\ SlotHi(hi2, q, e) = SlotHi(hi, q, e)
      BY <1>5, <2>4 DEF SlotLo, SlotHi
    <3>4. t.kid[q][e] # r
      BY <1>1, <2>4, OneParent
    <3>5. t.kid[q][e] # c
      BY <1>1, <2>4, OneParent
    <3> QED BY <1>1, <1>5, <3>1, <3>2, <3>3, <3>4, <3>5, ZenonT(30)
  <2> QED BY <2>1, <2>2, <2>3, <2>4
<1>18. Kids(u, lo2, hi2)
  BY <1>10, <1>17, Zenon DEF Kids
<1> QED BY <1>4, <1>11, <1>13, <1>14, <1>18, Zenon DEF Placed, lo2, hi2
LEMMA RotatePlaced0 ==
  ASSUME NEW t, TreeType(t), NEW u, TreeType(u), NEW lo, NEW hi, Placed(t, lo, hi),
         NEW p \in Owner(t), NEW s \in {0, 1}, NEW r \in Nodes(t), NEW c \in Nodes(t),
         r = t.kid[p][s], c = t.kid[r][0], Rotated(t, u, p, s, 0)
  PROVE  Placed(u, RotLo(lo, r, c, 0), RotHi(hi, r, c, 0))
<1> DEFINE lo2 == RotLo(lo, r, c, 0)
           hi2 == RotHi(hi, r, c, 0)
<1>1. /\ r \in Owner(t) /\ c \in Owner(t) /\ r # 0 /\ c # 0
      /\ \A n \in Owner(t) : n \in 1 .. MapO /\ n \in Int /\ n # 0 /\ lo[n] \in Int /\ hi[n] \in Int
      /\ \A n \in Nodes(t) : n \in Owner(t) /\ n < MapO
      /\ MapO \in Owner(t)
  BY BoundsAre, NodeType DEF Placed
<1>2. /\ lo \in [1 .. MapO -> 0 .. Top] /\ hi \in [1 .. MapO -> 0 .. Top]
      /\ hi[r] \in 0 .. Top /\ c \in 0 .. Top
  <2>1. lo \in [1 .. MapO -> 0 .. Top] /\ hi \in [1 .. MapO -> 0 .. Top]
    BY DEF Placed, BoundsType
  <2>2. c \in 0 .. Top
    BY <1>1, Constants DEF Top
  <2> QED BY <1>1, <2>1, <2>2
<1>3. lo2 = [lo EXCEPT ![r] = c] /\ hi2 = [hi EXCEPT ![c] = hi[r]]
  BY DEF RotLo, RotHi
<1>4. BoundsType(lo2, hi2)
  BY <1>1, <1>2, <1>3, ZenonT(30) DEF BoundsType
<1>5. /\ \A n \in Owner(t) : n # r => lo2[n] = lo[n]
      /\ \A n \in Owner(t) : n # c => hi2[n] = hi[n]
      /\ hi2[c] = hi[r] /\ lo2[r] = c
  BY <1>1, <1>2, <1>3, Zenon
<1> HIDE DEF lo2, hi2
<1>6. hi[c] = r /\ lo[c] = lo[r] /\ r < hi[r] /\ c < r /\ lo[r] < c /\ c # r
  BY <1>1, KidPlace DEF KidAt
<1>6a. /\ r \in Int /\ lo[r] \in Int /\ hi[r] \in Int
       /\ c \in Int /\ lo[c] \in Int /\ hi[c] \in Int
  BY <1>1, Zenon
<1>7. /\ lo[MapO] = 0 /\ hi[MapO] = Top
      /\ \A n \in Nodes(t) : /\ lo[n] < n /\ n < hi[n]
                             /\ lo[n] \in Nodes(t) \cup {0}
                             /\ hi[n] \in Nodes(t) \cup {MapO}
  BY DEF Placed, Wide
<1>8. \A n \in Owner(t), m \in Nodes(t) :
        /\ lo[n] < m /\ m < n => lo[n] <= lo[m] /\ hi[m] <= n
        /\ n < m /\ m < hi[n] => n <= lo[m] /\ hi[m] <= hi[n]
  BY DEF Placed, Nest
<1>9. \A n \in Nodes(t) : /\ lo[n] # 0 => n < hi[lo[n]]
                          /\ lo[hi[n]] < n
  BY Zenon DEF Placed, Above
<1>10. Nodes(u) = Nodes(t) /\ Owner(u) = Owner(t)
  BY ZenonT(30) DEF Rotated, Nodes, Owner
<1>11. Wide(u, lo2, hi2)
  BY <1>1, <1>5, <1>6, <1>7, <1>10 DEF Wide
<1>12. ASSUME NEW n \in Owner(t), NEW m \in Nodes(t)
       PROVE  /\ lo2[n] < m /\ m < n => lo2[n] <= lo2[m] /\ hi2[m] <= n
              /\ n < m /\ m < hi2[n] => n <= lo2[m] /\ hi2[m] <= hi2[n]
  <2>1. /\ lo[n] < m /\ m < n => lo[n] <= lo[m] /\ hi[m] <= n
        /\ n < m /\ m < hi[n] => n <= lo[m] /\ hi[m] <= hi[n]
    BY <1>8
  <2>a. /\ lo[r] < m /\ m < r => lo[r] <= lo[m] /\ hi[m] <= r
        /\ r < m /\ m < hi[r] => r <= lo[m] /\ hi[m] <= hi[r]
        /\ lo[c] < m /\ m < c => lo[c] <= lo[m] /\ hi[m] <= c
        /\ c < m /\ m < hi[c] => c <= lo[m] /\ hi[m] <= hi[c]
    BY <1>1, <1>8, Zenon
  <2>b. /\ m # r => lo2[m] = lo[m]
        /\ m # c => hi2[m] = hi[m]
        /\ n # r => lo2[n] = lo[n]
        /\ n # c => hi2[n] = hi[n]
        /\ lo2[r] = c /\ hi2[c] = hi[r]
    BY <1>1, <1>5, Zenon
  <2>c. /\ n \in Int /\ lo[n] \in Int /\ hi[n] \in Int
        /\ m \in Int /\ lo[m] \in Int /\ hi[m] \in Int
    BY <1>1, Zenon
  <2>2. CASE n = r
    BY <2>2, <2>a, <2>b, <2>c, <1>6, <1>6a
  <2>3. CASE n = c
    BY <2>3, <2>a, <2>b, <2>c, <1>6, <1>6a
  <2>4. CASE n # r /\ n # c /\ m = r
    <3>1. lo2[n] = lo[n] /\ hi2[n] = hi[n] /\ lo2[m] = c /\ hi2[m] = hi[r]
      BY <2>4, <2>b, <1>6, Zenon
    <3>2. /\ lo[n] < r /\ r < n => lo[n] <= lo[r] /\ hi[r] <= n
          /\ n < r /\ r < hi[n] => n <= lo[r] /\ hi[r] <= hi[n]
      BY <2>1, <2>4, ZenonT(30)
    <3> QED BY <2>4, <3>1, <3>2, <2>c, <1>6, <1>6a
  <2>5. CASE n # r /\ n # c /\ m = c
    <3>1. lo2[m] = lo[m] /\ hi2[m] = hi[r] /\ lo2[n] = lo[n] /\ hi2[n] = hi[n]
      BY <2>5, <1>1, <1>5, <1>6
    <3>2. lo[n] < c /\ c < n => hi2[m] <= n
      <4>1. SUFFICES ASSUME lo[n] < c, c < n PROVE hi[r] <= n
        BY <3>1
      <4>2. r <= n
        BY <2>1, <2>5, <4>1, <1>6
      <4>3. lo[n] < r /\ r < n
        BY <4>1, <4>2, <2>5, <1>1, <1>6
      <4> QED BY <4>3, <1>8
    <3>3. n < c /\ c < hi[n] => hi2[m] <= hi2[n]
      <4>1. SUFFICES ASSUME n < c, c < hi[n] PROVE hi[r] <= hi[n]
        BY <3>1
      <4>2. r <= hi[n] /\ n < r
        BY <2>1, <2>5, <4>1, <1>1, <1>6
      <4>3. n \in Nodes(t)
        BY <4>1, <1>1 DEF Owner
      <4>4. r # hi[n]
        <5>1. SUFFICES ASSUME r = hi[n] PROVE FALSE
          OBVIOUS
        <5>2. lo[r] < n
          BY <4>3, <5>1, <1>9
        <5>3. hi[n] <= c
          BY <1>1, <1>6, <1>8, <4>1, <4>3, <5>2
        <5> QED BY <5>1, <5>3, <1>1, <1>6
      <4>5. r < hi[n]
        BY <4>2, <4>4, <1>1
      <4> QED BY <4>2, <4>5, <1>8
    <3> QED BY <2>1, <2>5, <3>1, <3>2, <3>3
  <2>6. CASE n # r /\ n # c /\ m # r /\ m # c
    BY <2>1, <2>6, <2>b, Zenon
  <2> QED BY <2>2, <2>3, <2>4, <2>5, <2>6
<1>13. Nest(u, lo2, hi2)
  BY <1>10, <1>12 DEF Nest
<1>14. Above(u, lo2, hi2)
  <2>0. SUFFICES ASSUME NEW n \in Nodes(t)
                 PROVE  /\ lo2[n] # 0 => n < hi2[lo2[n]]
                        /\ lo2[hi2[n]] < n
    BY <1>10 DEF Above
  <2>1. /\ n \in Owner(t) /\ n \in Int /\ hi[n] \in Owner(t)
        /\ lo[n] # 0 => lo[n] \in Owner(t)
        /\ lo[n] # 0 => n < hi[lo[n]]
        /\ lo[hi[n]] < n
    <3>1. n \in Owner(t) /\ n \in Int
      BY <1>1, Zenon
    <3>2. hi[n] \in Owner(t) /\ (lo[n] # 0 => lo[n] \in Owner(t))
      BY <1>1, <1>7, ZenonT(30) DEF Owner
    <3> QED BY <3>1, <3>2, <1>9, Zenon
  <2>2. CASE n = r
    BY <2>1, <2>2, <1>1, <1>5, <1>6
  <2>3. CASE n = c
    <3>1. hi[r] \in Owner(t) /\ lo[hi[r]] < r /\ r < hi[r] /\ hi[r] # r
      BY <1>1, <1>6, <1>7, <1>9
    <3>2. lo[hi[r]] <= lo[r]
      BY <3>1, <1>8, ZenonT(30)
    <3>3. lo2[hi2[n]] < n
      BY <2>3, <3>1, <3>2, <1>1, <1>5, <1>6
    <3>4. lo[r] # 0 => lo[r] \in Owner(t) /\ r < hi[lo[r]] /\ lo[r] # c
      BY <1>1, <1>6, <1>7, <1>9
    <3>5. lo2[n] # 0 => n < hi2[lo2[n]]
      <4>1. lo2[n] = lo[r]
        BY <2>3, <2>1, <1>1, <1>5, <1>6
      <4>2. ASSUME lo[r] # 0 PROVE n < hi2[lo[r]]
        <5>1. hi[lo[r]] \in Int /\ r < hi[lo[r]] /\ hi2[lo[r]] = hi[lo[r]]
          BY <3>4, <4>2, <1>1, <1>5, Zenon
        <5>2. n < r /\ n \in Int
          BY <2>1, <2>3, <1>6
        <5> QED BY <5>1, <5>2, <1>6a
      <4> QED BY <4>1, <4>2, ZenonT(30)
    <3> QED BY <3>3, <3>5
  <2>4. CASE n # r /\ n # c
    <3>1. lo2[n] = lo[n] /\ hi2[n] = hi[n]
      BY <2>1, <2>4, <1>5
    <3>2. lo2[n] # 0 => n < hi2[lo2[n]]
      BY <3>1, <2>1, <1>1, <1>5, <1>6
    <3>3. hi[n] = r => c < n
      <4>1. SUFFICES ASSUME hi[n] = r, n < c PROVE FALSE
        <5>1. c \in Int /\ n \in Int /\ n # c
          BY <2>1, <2>4, <1>1
        <5> QED BY <5>1
      <4>2. lo[c] < n
        BY <4>1, <2>1, <1>6
      <4>3. hi[n] <= c
        BY <4>1, <4>2, <1>1, <1>8
      <4> QED BY <4>1, <4>3, <1>1, <1>6
    <3>4. lo2[hi2[n]] < n
      BY <3>1, <3>3, <2>1, <1>1, <1>5, <1>6
    <3> QED BY <3>2, <3>4
  <2> QED BY <2>2, <2>3, <2>4
<1>15. /\ r # p /\ c # p /\ r # c
       /\ s = 0 => hi[r] = p /\ lo[r] = lo[p] /\ r < p
       /\ s = 1 => lo[r] = p /\ hi[r] = hi[p] /\ p < r
  <2>1. KidAt(t, lo, hi, p, s, r)
    BY <1>1, KidPlace
  <2>2. /\ r # p
        /\ s = 0 => hi[r] = p /\ lo[r] = lo[p] /\ r < p
        /\ s = 1 => lo[r] = p /\ hi[r] = hi[p] /\ p < r
    BY <2>1 DEF KidAt
  <2>3. c # p
    BY <2>2, <1>1, <1>6
  <2> QED BY <1>6, <2>2, <2>3
<1>16. /\ u.kid[p][s] = c
       /\ u.kid[r][0] = t.kid[c][1]
       /\ u.kid[c][1] = r
       /\ \A q \in 0 .. MapO, e \in {0, 1} :
            ~ (q = p /\ e = s) /\ ~ (q = r /\ e = 0) /\ ~ (q = c /\ e = 1)
              => u.kid[q][e] = t.kid[q][e]
  <2>1. 1 - 0 = 1
    OBVIOUS
  <2> QED BY <2>1, Zenon DEF Rotated
<1>17. ASSUME NEW q \in Owner(t), NEW e \in {0, 1}
       PROVE  /\ u.kid[q][e] # 0 => /\ u.kid[q][e] \in Nodes(t)
                                    /\ lo2[u.kid[q][e]] = SlotLo(lo2, q, e)
                                    /\ hi2[u.kid[q][e]] = SlotHi(hi2, q, e)
              /\ u.kid[q][e] = 0 =>
                   \A m \in Nodes(t) : ~ (SlotLo(lo2, q, e) < m /\ m < SlotHi(hi2, q, e))
  <2>1. CASE q = p /\ e = s
    <3>1. u.kid[q][e] = c /\ c # 0 /\ lo2[c] = lo[r] /\ hi2[c] = hi[r]
      BY <1>1, <1>5, <1>6, <1>16, <2>1, Zenon
    <3>2. lo2[p] = lo[p] /\ hi2[p] = hi[p]
      BY <1>1, <1>5, <1>15
    <3>3. SlotLo(lo2, q, e) = lo[r] /\ SlotHi(hi2, q, e) = hi[r]
      BY <1>15, <2>1, <3>2 DEF SlotLo, SlotHi
    <3> QED BY <3>1, <3>3, Zenon
  <2>2. CASE q = c /\ e = 1
    <3>1. u.kid[q][e] = r /\ r # 0 /\ lo2[r] = c /\ hi2[r] = hi[r] /\ hi2[c] = hi[r]
      BY <1>1, <1>5, <1>6, <1>16, <2>2, Zenon
    <3>2. SlotLo(lo2, q, e) = c /\ SlotHi(hi2, q, e) = hi[r]
      BY <2>2, <3>1 DEF SlotLo, SlotHi
    <3> QED BY <3>1, <3>2, Zenon
  <2>3. CASE q = r /\ e = 0
    <3>1. SlotLo(lo2, q, e) = c /\ SlotHi(hi2, q, e) = r
      BY <1>5, <2>3 DEF SlotLo, SlotHi
    <3>2. SlotLo(lo, c, 1) = c /\ SlotHi(hi, c, 1) = r
      BY <1>6 DEF SlotLo, SlotHi
    <3>3. /\ t.kid[c][1] # 0 => /\ t.kid[c][1] \in Nodes(t)
                                /\ lo[t.kid[c][1]] = c /\ hi[t.kid[c][1]] = r
                                /\ t.kid[c][1] # c /\ t.kid[c][1] # r
          /\ t.kid[c][1] = 0 => \A m \in Nodes(t) : ~ (c < m /\ m < r)
      <4>1. t.kid[c][1] # 0 => KidAt(t, lo, hi, c, 1, t.kid[c][1])
        BY <1>1, KidPlace
      <4>2. t.kid[c][1] = 0 => \A m \in Nodes(t) : ~ (c < m /\ m < r)
        BY <1>1, <3>2 DEF Placed, Kids
      <4>3. t.kid[c][1] # 0 => /\ t.kid[c][1] \in Nodes(t)
                               /\ lo[t.kid[c][1]] = c /\ hi[t.kid[c][1]] = r
                               /\ t.kid[c][1] # c /\ t.kid[c][1] # r
        <5> DEFINE g == t.kid[c][1]
        <5> HIDE DEF g
        <5>1. g # 0 => g \in Nodes(t) /\ lo[g] = c /\ hi[g] = r /\ g < r /\ g # c
          BY <1>6, <4>1, Zenon DEF KidAt, g
        <5>2. r \in Int
          BY <1>1
        <5>3. g # 0 => g # r
          BY <5>1, <5>2
        <5> QED BY <5>1, <5>3, ZenonT(30) DEF g
      <4> QED BY <4>2, <4>3, Zenon
    <3>4. u.kid[q][e] = t.kid[c][1]
      BY <1>16, <2>3, Zenon
    <3>5. t.kid[c][1] # 0 => lo2[t.kid[c][1]] = c /\ hi2[t.kid[c][1]] = r
      BY <1>1, <1>5, <3>3, Zenon
    <3> QED BY <3>1, <3>3, <3>4, <3>5, Zenon
  <2>4. CASE ~ (q = p /\ e = s) /\ ~ (q = r /\ e = 0) /\ ~ (q = c /\ e = 1)
    <3>1. u.kid[q][e] = t.kid[q][e]
      BY <1>16, <2>4, NodeType
    <3>2. /\ t.kid[q][e] # 0 => /\ t.kid[q][e] \in Nodes(t)
                                /\ lo[t.kid[q][e]] = SlotLo(lo, q, e)
                                /\ hi[t.kid[q][e]] = SlotHi(hi, q, e)
          /\ t.kid[q][e] = 0 =>
               \A m \in Nodes(t) : ~ (SlotLo(lo, q, e) < m /\ m < SlotHi(hi, q, e))
      BY DEF Placed, Kids
    <3>3. SlotLo(lo2, q, e) = SlotLo(lo, q, e) /\ SlotHi(hi2, q, e) = SlotHi(hi, q, e)
      BY <1>5, <2>4 DEF SlotLo, SlotHi
    <3>4. t.kid[q][e] # r
      BY <1>1, <2>4, OneParent
    <3>5. t.kid[q][e] # c
      BY <1>1, <2>4, OneParent
    <3> QED BY <1>1, <1>5, <3>1, <3>2, <3>3, <3>4, <3>5, ZenonT(30)
  <2> QED BY <2>1, <2>2, <2>3, <2>4
<1>18. Kids(u, lo2, hi2)
  BY <1>10, <1>17 DEF Kids
<1> QED BY <1>4, <1>11, <1>13, <1>14, <1>18, Zenon DEF Placed, lo2, hi2

LEMMA RotatePlaced ==
  ASSUME NEW t, TreeType(t), NEW u, TreeType(u), NEW lo, NEW hi, Placed(t, lo, hi),
         NEW p \in Owner(t), NEW s \in {0, 1}, NEW dir \in {0, 1},
         NEW r \in Nodes(t), NEW c \in Nodes(t),
         r = t.kid[p][s], c = t.kid[r][dir], Rotated(t, u, p, s, dir)
  PROVE  Placed(u, RotLo(lo, r, c, dir), RotHi(hi, r, c, dir))
<1>1. CASE dir = 0
  <2>1. c = t.kid[r][0] /\ Rotated(t, u, p, s, 0)
    BY <1>1
  <2> QED BY <1>1, <2>1, RotatePlaced0
<1>2. CASE dir = 1
  <2>1. c = t.kid[r][1] /\ Rotated(t, u, p, s, 1)
    BY <1>2
  <2> QED BY <1>2, <2>1, RotatePlaced1
<1> QED BY <1>1, <1>2

-----------------------------------------------------------------------------
(***************************************************************************)
(* A new node and a node that goes                                         *)
(***************************************************************************)

\* u is t with a new node k, the kid s of p.
IsNew(t, u, p, s, k, v) ==
  /\ TreeType(u)
  /\ Nodes(u) = Nodes(t) \cup {k}
  /\ u.kid[p][s] = k /\ u.kid[k][0] = 0 /\ u.kid[k][1] = 0
  /\ \A q \in Owner(t), e \in {0, 1} : ~ (q = p /\ e = s) => u.kid[q][e] = t.kid[q][e]
  /\ u.height[k] = 1
  /\ \A n \in 0 .. MaxKey : n # k => u.height[n] = t.height[n]
  /\ u.value = [n \in Nodes(t) \cup {k} |-> IF n = k THEN v ELSE t.value[n]]

LEMMA NewNodeIs ==
  ASSUME NEW t, TreeType(t), NEW p \in Owner(t), NEW s \in {0, 1},
         NEW k \in Key, k \notin Nodes(t), NEW v \in Value
  PROVE  IsNew(t, avl_new_node(t, p, s, k, v), p, s, k, v)
<1> DEFINE nil == [d \in {0, 1} |-> avl_nnil]
           pk == [t.kid[p] EXCEPT ![s] = k]
           k1 == [t.kid EXCEPT ![p] = pk]
           k2 == [k1 EXCEPT ![k] = nil]
           h == [t.height EXCEPT ![k] = 1]
           w == [n \in Nodes(t) \cup {k} |-> IF n = k THEN v ELSE t.value[n]]
           u == avl_new_node(t, p, s, k, v)
<1>1. p \in 0 .. MapO /\ k \in 0 .. MapO /\ k \in 0 .. MaxKey /\ p # k /\ k # 0 /\ k # MapO
  BY NodeType, Constants DEF Owner
<1>2. t.kid[p] \in [{0, 1} -> 0 .. MaxKey]
  BY <1>1, KidType
<1>3. t.kid \in [0 .. MapO -> [{0, 1} -> 0 .. MaxKey]] /\ t.height \in [0 .. MaxKey -> Nat]
      /\ t.value \in [Nodes(t) -> Value] /\ Nodes(t) \subseteq Key
  BY DEF TreeType
<1>4. pk \in [{0, 1} -> 0 .. MaxKey] /\ pk[s] = k /\ \A e \in {0, 1} : e # s => pk[e] = t.kid[p][e]
  BY <1>1, <1>2
<1>5. nil \in [{0, 1} -> 0 .. MaxKey] /\ nil[0] = 0 /\ nil[1] = 0
  BY Constants DEF avl_nnil
<1>6. u = [kid |-> k2, height |-> h, value |-> w]
  BY DEF avl_new_node
<1> HIDE DEF pk, nil
<1>7. k1 \in [0 .. MapO -> [{0, 1} -> 0 .. MaxKey]] /\ k1[p] = pk
      /\ \A q \in 0 .. MapO : q # p => k1[q] = t.kid[q]
  BY <1>1, <1>3, <1>4
<1> HIDE DEF k1
<1>8. k2 \in [0 .. MapO -> [{0, 1} -> 0 .. MaxKey]] /\ k2[k] = nil /\ k2[p] = pk
      /\ \A q \in 0 .. MapO : q # p /\ q # k => k2[q] = t.kid[q]
  BY <1>1, <1>5, <1>7
<1> HIDE DEF k2
<1>9. h \in [0 .. MaxKey -> Nat] /\ h[k] = 1 /\ \A n \in 0 .. MaxKey : n # k => h[n] = t.height[n]
  BY <1>1, <1>3
<1> HIDE DEF h
<1>10. w \in [Nodes(t) \cup {k} -> Value] /\ DOMAIN w = Nodes(t) \cup {k}
  BY <1>3
<1> HIDE DEF w
<1> HIDE DEF u
<1>11. u.kid = k2 /\ u.height = h /\ u.value = w /\ TreeRecord(u)
  BY <1>6 DEF TreeRecord
<1>12. Nodes(u) = Nodes(t) \cup {k}
  BY <1>10, <1>11 DEF Nodes
<1>13. Nodes(u) \subseteq Key
  BY <1>3, <1>12
<1>14. u.height[0] = 0 /\ \A n \in Nodes(u) : u.height[n] > 0
  <2>1. t.height[0] = 0 /\ 0 \in 0 .. MaxKey /\ \A n \in Nodes(t) : t.height[n] > 0 /\ n \in 0 .. MaxKey
    BY NodeType, Constants
  <2>2. u.height[0] = 0
    BY <1>1, <1>9, <1>11, <2>1
  <2>3. ASSUME NEW n \in Nodes(u) PROVE u.height[n] > 0
    <3>1. CASE n = k
      BY <1>9, <1>11, <3>1
    <3>2. CASE n # k
      BY <1>9, <1>11, <1>12, <2>1, <3>2
    <3> QED BY <3>1, <3>2
  <2> QED BY <2>2, <2>3
<1>15. TreeType(u)
  BY <1>8, <1>9, <1>10, <1>11, <1>12, <1>13, <1>14 DEF TreeType
<1>16. \A q \in Owner(t), e \in {0, 1} : ~ (q = p /\ e = s) => u.kid[q][e] = t.kid[q][e]
  <2> TAKE q \in Owner(t), e \in {0, 1}
  <2>1. q \in 0 .. MapO /\ q # k
    BY <1>1, NodeType DEF Owner
  <2> QED BY <1>4, <1>8, <1>11, <2>1
<1>17. u.kid[p][s] = k /\ u.kid[k][0] = 0 /\ u.kid[k][1] = 0
  BY <1>4, <1>5, <1>8, <1>11
<1>18. u.value = [n \in Nodes(t) \cup {k} |-> IF n = k THEN v ELSE t.value[n]]
  BY <1>11 DEF w
<1>19. IsNew(t, u, p, s, k, v)
  BY <1>9, <1>11, <1>12, <1>15, <1>16, <1>17, <1>18 DEF IsNew
<1> QED BY <1>19 DEF u

LEMMA SlotEnds ==
  ASSUME NEW t, TreeType(t), NEW lo, NEW hi, Placed(t, lo, hi), NEW k \in Key
  PROVE  \A p \in Owner(t), s \in {0, 1} :
           SlotLo(lo, p, s) < k /\ k < SlotHi(hi, p, s) =>
             /\ SlotLo(lo, p, s) \in Nodes(t) \cup {0}
             /\ SlotHi(hi, p, s) \in Nodes(t) \cup {MapO}
             /\ SlotLo(lo, p, s) \in Int /\ SlotHi(hi, p, s) \in Int
<1> SUFFICES ASSUME NEW p \in Owner(t), NEW s \in {0, 1}, SlotLo(lo, p, s) < k, k < SlotHi(hi, p, s)
             PROVE  /\ SlotLo(lo, p, s) \in Nodes(t) \cup {0}
                    /\ SlotHi(hi, p, s) \in Nodes(t) \cup {MapO}
                    /\ SlotLo(lo, p, s) \in Int /\ SlotHi(hi, p, s) \in Int
  OBVIOUS
<1>1. k \in Int /\ k < MapO /\ MapO \in Int
  BY Constants
<1>2. \A n \in Owner(t) : n \in Int /\ lo[n] \in Int /\ hi[n] \in Int
  BY BoundsAre, NodeType DEF Placed
<1>3. /\ \A n \in Nodes(t) : lo[n] \in Nodes(t) \cup {0} /\ hi[n] \in Nodes(t) \cup {MapO}
      /\ lo[MapO] = 0
  BY DEF Placed, Wide
<1>4. s = 1 => p # MapO
  <2>1. s = 1 => p < k
    BY DEF SlotLo
  <2>2. ~ (MapO < k)
    BY <1>1
  <2> QED BY <2>1, <2>2
<1>5. CASE s = 0
  BY <1>2, <1>3, <1>5 DEF SlotLo, SlotHi, Owner
<1>6. CASE s = 1
  BY <1>2, <1>3, <1>4, <1>6 DEF SlotLo, SlotHi, Owner
<1> QED BY <1>5, <1>6

LEMMA NewPlaced ==
  ASSUME NEW t, TreeType(t), NEW lo, NEW hi, Placed(t, lo, hi),
         NEW p \in Owner(t), NEW s \in {0, 1}, t.kid[p][s] = 0,
         NEW k \in Key, k \notin Nodes(t), SlotLo(lo, p, s) < k, k < SlotHi(hi, p, s),
         NEW v, NEW u, IsNew(t, u, p, s, k, v)
  PROVE  Placed(u, [lo EXCEPT ![k] = SlotLo(lo, p, s)], [hi EXCEPT ![k] = SlotHi(hi, p, s)])
<1> DEFINE a == SlotLo(lo, p, s)
           b == SlotHi(hi, p, s)
           lo2 == [lo EXCEPT ![k] = a]
           hi2 == [hi EXCEPT ![k] = b]
<1>1. /\ \A n \in Owner(t) : n \in 1 .. MapO /\ n \in Int /\ n # 0 /\ lo[n] \in Int /\ hi[n] \in Int
                             /\ n # k
      /\ \A n \in Nodes(t) : n \in Owner(t) /\ n < MapO
      /\ MapO \in Owner(t) /\ k \in 1 .. MapO /\ k \in Int /\ k # 0 /\ k < MapO
  <2>1. k \in 1 .. MapO /\ k \in Int /\ k # 0 /\ k < MapO /\ k # MapO
    BY Constants
  <2> QED BY <2>1, BoundsAre, NodeType DEF Placed, Owner
<1>2. /\ lo \in [1 .. MapO -> 0 .. Top] /\ hi \in [1 .. MapO -> 0 .. Top]
  BY DEF Placed, BoundsType
<1>3. a \in Int /\ b \in Int /\ a \in 0 .. Top /\ b \in 0 .. Top
  <2>1. lo[p] \in 0 .. Top /\ hi[p] \in 0 .. Top /\ p \in 0 .. Top
    <3>1. p \in 1 .. MapO
      BY <1>1
    <3>2. lo[p] \in 0 .. Top /\ hi[p] \in 0 .. Top
      BY <1>2, <3>1
    <3> QED BY <3>1, <3>2, Constants DEF Top
  <2> QED BY <1>1, <2>1 DEF SlotLo, SlotHi
<1>4. BoundsType(lo2, hi2)
  BY <1>1, <1>2, <1>3 DEF BoundsType
<1>5. /\ \A n \in Owner(t) : lo2[n] = lo[n] /\ hi2[n] = hi[n]
      /\ lo2[k] = a /\ hi2[k] = b
  BY <1>1, <1>2
<1> HIDE DEF lo2, hi2
<1>6. /\ a \in Nodes(t) \cup {0} /\ b \in Nodes(t) \cup {MapO}
      /\ a < k /\ k < b
      /\ s = 0 => a = lo[p] /\ b = p
      /\ s = 1 => a = p /\ b = hi[p]
  <2>1. a \in Nodes(t) \cup {0} /\ b \in Nodes(t) \cup {MapO}
    BY SlotEnds
  <2> QED BY <2>1 DEF SlotLo, SlotHi
<1>7. \A m \in Nodes(t) : ~ (a < m /\ m < b)
  BY DEF Placed, Kids
<1> HIDE DEF a, b
<1>8. /\ lo[MapO] = 0 /\ hi[MapO] = Top
      /\ \A n \in Nodes(t) : /\ lo[n] < n /\ n < hi[n]
                             /\ lo[n] \in Nodes(t) \cup {0}
                             /\ hi[n] \in Nodes(t) \cup {MapO}
  BY DEF Placed, Wide
<1>9. \A n \in Owner(t), m \in Nodes(t) :
        /\ lo[n] < m /\ m < n => lo[n] <= lo[m] /\ hi[m] <= n
        /\ n < m /\ m < hi[n] => n <= lo[m] /\ hi[m] <= hi[n]
  BY DEF Placed, Nest
<1>10. \A n \in Nodes(t) : /\ lo[n] # 0 => n < hi[lo[n]]
                           /\ lo[hi[n]] < n
  BY DEF Placed, Above
<1>11. Nodes(u) = Nodes(t) \cup {k} /\ Owner(u) = Owner(t) \cup {k}
  BY DEF IsNew, Owner
<1>12. Wide(u, lo2, hi2)
  BY <1>1, <1>5, <1>6, <1>8, <1>11 DEF Wide
<1>13. ASSUME NEW n \in Owner(t)
       PROVE  /\ lo[n] < k /\ k < n => lo[n] <= a /\ b <= n
              /\ n < k /\ k < hi[n] => n <= a /\ b <= hi[n]
  <2>1. ~ (a < n /\ n < b)
    BY <1>1, <1>3, <1>6, <1>7, <1>8 DEF Owner
  <2>2. ~ (a < lo[n] /\ lo[n] < b)
    BY <1>1, <1>3, <1>6, <1>7, <1>8 DEF Owner
  <2>3. hi[n] # Top => ~ (a < hi[n] /\ hi[n] < b)
    BY <1>1, <1>3, <1>6, <1>7, <1>8 DEF Owner
  <2>4. b <= MapO /\ MapO < Top
    BY <1>1, <1>6, Constants DEF Top
  <2> QED BY <1>1, <1>3, <1>6, <2>1, <2>2, <2>3, <2>4
<1>14. ASSUME NEW n \in Owner(u), NEW m \in Nodes(u)
       PROVE  /\ lo2[n] < m /\ m < n => lo2[n] <= lo2[m] /\ hi2[m] <= n
              /\ n < m /\ m < hi2[n] => n <= lo2[m] /\ hi2[m] <= hi2[n]
  <2>1. CASE n \in Owner(t) /\ m \in Nodes(t)
    BY <2>1, <1>1, <1>5, <1>9
  <2>2. CASE n \in Owner(t) /\ m = k
    BY <2>2, <1>1, <1>5, <1>13
  <2>3. CASE n = k /\ m \in Nodes(t)
    BY <2>3, <1>1, <1>3, <1>5, <1>6, <1>7
  <2>4. CASE n = k /\ m = k
    BY <2>4, <1>1
  <2> QED BY <1>11, <2>1, <2>2, <2>3, <2>4
<1>15. Nest(u, lo2, hi2)
  BY <1>14 DEF Nest
<1>16. ASSUME NEW n \in Nodes(u)
       PROVE  /\ lo2[n] # 0 => n < hi2[lo2[n]]
              /\ lo2[hi2[n]] < n
  <2>1. CASE n \in Nodes(t)
    BY <2>1, <1>1, <1>5, <1>8, <1>10 DEF Owner
  <2>2. CASE n = k
    <3>1. p \in Nodes(t) => /\ lo[p] # 0 => p < hi[lo[p]]
                            /\ lo[hi[p]] < p
                            /\ lo[p] \in Nodes(t) \cup {0} /\ hi[p] \in Nodes(t) \cup {MapO}
      BY <1>8, <1>10
    <3>2. a # 0 => k < hi[a]
      <4>1. CASE s = 1
        BY <4>1, <1>6
      <4>2. CASE s = 0
        <5>1. p = MapO => a = 0
          BY <4>2, <1>6, <1>8
        <5>2. p # MapO /\ a # 0 => p < hi[a] /\ hi[a] \in Int
          BY <4>2, <1>1, <1>6, <3>1 DEF Owner
        <5> QED BY <4>2, <5>1, <5>2, <1>1, <1>6
      <4> QED BY <4>1, <4>2
    <3>3. lo[b] < k
      <4>1. CASE s = 0
        BY <4>1, <1>6
      <4>2. CASE s = 1
        <5>1. p # MapO
          BY <4>2, <1>1, <1>6
        <5>2. lo[b] < p /\ lo[b] \in Int
          BY <4>2, <5>1, <1>1, <1>6, <3>1 DEF Owner
        <5> QED BY <4>2, <5>2, <1>1, <1>6
      <4> QED BY <4>1, <4>2
    <3>4. a # 0 => hi2[a] = hi[a]
      BY <1>1, <1>5, <1>6
    <3>5. lo2[b] = lo[b]
      BY <1>1, <1>5, <1>6
    <3> QED BY <2>2, <1>5, <3>2, <3>3, <3>4, <3>5
  <2> QED BY <1>11, <2>1, <2>2
<1>17. Above(u, lo2, hi2)
  BY <1>16 DEF Above
<1>18. ASSUME NEW q \in Owner(u), NEW e \in {0, 1}
       PROVE  /\ u.kid[q][e] # 0 => /\ u.kid[q][e] \in Nodes(u)
                                    /\ lo2[u.kid[q][e]] = SlotLo(lo2, q, e)
                                    /\ hi2[u.kid[q][e]] = SlotHi(hi2, q, e)
              /\ u.kid[q][e] = 0 =>
                   \A m \in Nodes(u) : ~ (SlotLo(lo2, q, e) < m /\ m < SlotHi(hi2, q, e))
  <2>1. CASE q = k
    <3>1. u.kid[q][e] = 0
      BY <2>1 DEF IsNew
    <3>2. \A m \in Nodes(u) : ~ (a < m /\ m < k) /\ ~ (k < m /\ m < b)
      BY <1>1, <1>3, <1>6, <1>7, <1>11
    <3> QED BY <2>1, <3>1, <3>2, <1>5 DEF SlotLo, SlotHi
  <2>2. CASE q \in Owner(t) /\ q = p /\ e = s
    <3>1. u.kid[q][e] = k
      BY <2>2 DEF IsNew
    <3>2. SlotLo(lo2, q, e) = a /\ SlotHi(hi2, q, e) = b
      BY <2>2, <1>5 DEF SlotLo, SlotHi, a, b
    <3> QED BY <3>1, <3>2, <1>1, <1>5, <1>11
  <2>3. CASE q \in Owner(t) /\ ~ (q = p /\ e = s)
    <3>1. u.kid[q][e] = t.kid[q][e]
      BY <2>3 DEF IsNew
    <3>2. SlotLo(lo2, q, e) = SlotLo(lo, q, e) /\ SlotHi(hi2, q, e) = SlotHi(hi, q, e)
      BY <2>3, <1>5 DEF SlotLo, SlotHi
    <3>3. /\ t.kid[q][e] # 0 => /\ t.kid[q][e] \in Nodes(t)
                                /\ lo[t.kid[q][e]] = SlotLo(lo, q, e)
                                /\ hi[t.kid[q][e]] = SlotHi(hi, q, e)
          /\ t.kid[q][e] = 0 =>
               \A m \in Nodes(t) : ~ (SlotLo(lo, q, e) < m /\ m < SlotHi(hi, q, e))
      BY <2>3 DEF Placed, Kids
    <3>4. t.kid[q][e] = 0 => ~ (SlotLo(lo, q, e) < k /\ k < SlotHi(hi, q, e))
      <4>1. SUFFICES ASSUME t.kid[q][e] = 0, SlotLo(lo, q, e) < k, k < SlotHi(hi, q, e)
                     PROVE  FALSE
        OBVIOUS
      <4>2. \A m \in Nodes(t) : ~ (SlotLo(lo, q, e) < m /\ m < SlotHi(hi, q, e))
        BY <3>3, <4>1
      <4>3. a # SlotLo(lo, q, e) \/ b # SlotHi(hi, q, e)
        <5>1. CASE e = s /\ q # p
          BY <5>1, <1>6 DEF SlotLo, SlotHi
        <5>2. CASE e # s
          <6>1. CASE s = 0 /\ e = 1
            <7>1. SUFFICES ASSUME lo[p] = q, hi[q] = p PROVE FALSE
              BY <6>1, <1>6 DEF SlotLo, SlotHi
            <7>2. p \in Nodes(t)
              BY <7>1, <1>1, <1>8, <2>3 DEF Owner
            <7>3. p < hi[lo[p]]
              BY <7>1, <7>2, <1>1, <1>10, <2>3
            <7> QED BY <7>1, <7>3, <1>1
          <6>2. CASE s = 1 /\ e = 0
            <7>1. SUFFICES ASSUME lo[q] = p, hi[p] = q PROVE FALSE
              BY <6>2, <1>6 DEF SlotLo, SlotHi
            <7>2. q \in Nodes(t)
              BY <7>1, <1>1, <1>8, <2>3 DEF Owner
            <7>3. q < hi[lo[q]]
              BY <7>1, <7>2, <1>1, <1>10, <2>3
            <7> QED BY <7>1, <7>3, <1>1, <2>3
          <6> QED BY <5>2, <6>1, <6>2
        <5> QED BY <2>3, <5>1, <5>2
      <4> DEFINE a2 == SlotLo(lo, q, e)
                 b2 == SlotHi(hi, q, e)
      <4>4. /\ a2 \in Nodes(t) \cup {0} /\ b2 \in Nodes(t) \cup {MapO}
            /\ a2 \in Int /\ b2 \in Int
        BY <2>3, <4>1, SlotEnds
      <4>5. a2 < k /\ k < b2 /\ (\A m \in Nodes(t) : ~ (a2 < m /\ m < b2))
        BY <4>1, <4>2
      <4>6. a # a2 \/ b # b2
        BY <4>3
      <4> HIDE DEF a2, b2
      <4>7. 0 <= a /\ 0 <= a2 /\ b <= MapO /\ b2 <= MapO
        BY <1>1, <1>6, <4>4, NodeType
      <4>8. ~ (a < a2)
        BY <1>1, <1>3, <1>6, <1>7, <4>4, <4>5, <4>7
      <4>9. ~ (a2 < a)
        BY <1>1, <1>3, <1>6, <1>7, <4>4, <4>5, <4>7
      <4>10. ~ (b < b2)
        BY <1>1, <1>3, <1>6, <1>7, <4>4, <4>5, <4>7
      <4>11. ~ (b2 < b)
        BY <1>1, <1>3, <1>6, <1>7, <4>4, <4>5, <4>7
      <4> QED BY <1>3, <4>4, <4>6, <4>8, <4>9, <4>10, <4>11
    <3> QED BY <3>1, <3>2, <3>3, <3>4, <1>1, <1>5, <1>11
  <2> QED BY <1>11, <2>1, <2>2, <2>3
<1>19. Kids(u, lo2, hi2)
  BY <1>18 DEF Kids
<1> QED BY <1>4, <1>12, <1>15, <1>17, <1>19 DEF Placed, lo2, hi2, a, b

\* u is t without the leaf r, the kid s of p.
IsGone(t, u, p, s, r) ==
  /\ TreeType(u)
  /\ Nodes(u) = Nodes(t) \ {r}
  /\ u.kid[p][s] = 0
  /\ \A q \in Owner(t), e \in {0, 1} : q # r /\ ~ (q = p /\ e = s) => u.kid[q][e] = t.kid[q][e]
  /\ \A n \in 0 .. MaxKey : n # r => u.height[n] = t.height[n]
  /\ u.value = [n \in Nodes(t) \ {r} |-> t.value[n]]

LEMMA GoneIs ==
  ASSUME NEW t, TreeType(t), NEW p \in Owner(t), NEW s \in {0, 1}, NEW dir \in {0, 1},
         NEW r \in Nodes(t), r = t.kid[p][s], p # r, t.kid[r][dir] = 0
  PROVE  IsGone(t, avl_rotate(t, p, s, dir), p, s, r)
<1> DEFINE nil == [d \in {0, 1} |-> avl_nnil]
           t1 == Linked(t, p, s, 0)
           k2 == [t1.kid EXCEPT ![r] = nil]
           h == [t1.height EXCEPT ![r] = 0]
           w == [n \in Nodes(t1) \ {r} |-> t1.value[n]]
           u == avl_delete_node(t1, r)
<1>1. p \in 0 .. MapO /\ r \in 0 .. MapO /\ r \in 0 .. MaxKey /\ r # 0 /\ 0 \in 0 .. MaxKey
  BY NodeType, Constants DEF Owner
<1>2. avl_rotate(t, p, s, dir) = u
  BY DEF avl_rotate, avl_nnil
<1>3. u = [kid |-> k2, height |-> h, value |-> w]
  BY DEF avl_delete_node
<1>4. IsLinked(t, t1, p, s, 0)
  BY <1>1, LinkedIs
<1> HIDE DEF t1
<1>5. /\ TreeType(t1) /\ t1.height = t.height /\ t1.value = t.value
      /\ t1.kid[p][s] = 0
      /\ \A q \in 0 .. MapO, e \in {0, 1} : ~ (q = p /\ e = s) => t1.kid[q][e] = t.kid[q][e]
  BY <1>4 DEF IsLinked
<1>6. Nodes(t1) = Nodes(t)
  BY <1>5 DEF Nodes
<1>7. t1.kid \in [0 .. MapO -> [{0, 1} -> 0 .. MaxKey]] /\ t1.height \in [0 .. MaxKey -> Nat]
      /\ t1.value \in [Nodes(t) -> Value] /\ Nodes(t) \subseteq Key
  BY <1>5, <1>6 DEF TreeType
<1>8. nil \in [{0, 1} -> 0 .. MaxKey]
  BY Constants DEF avl_nnil
<1> HIDE DEF nil
<1>9. k2 \in [0 .. MapO -> [{0, 1} -> 0 .. MaxKey]]
      /\ \A q \in 0 .. MapO : q # r => k2[q] = t1.kid[q]
  BY <1>1, <1>7, <1>8
<1> HIDE DEF k2
<1>10. h \in [0 .. MaxKey -> Nat] /\ \A n \in 0 .. MaxKey : n # r => h[n] = t.height[n]
  BY <1>1, <1>5, <1>7
<1> HIDE DEF h
<1>11. w \in [Nodes(t) \ {r} -> Value] /\ DOMAIN w = Nodes(t) \ {r}
       /\ w = [n \in Nodes(t) \ {r} |-> t.value[n]]
  BY <1>5, <1>6, <1>7
<1> HIDE DEF w
<1> HIDE DEF u
<1>12. u.kid = k2 /\ u.height = h /\ u.value = w /\ TreeRecord(u)
  BY <1>3 DEF TreeRecord
<1>13. Nodes(u) = Nodes(t) \ {r}
  BY <1>11, <1>12 DEF Nodes
<1>14. Nodes(u) \subseteq Key
  BY <1>7, <1>13
<1>15. u.height[0] = 0 /\ \A n \in Nodes(u) : u.height[n] > 0
  <2>1. t.height[0] = 0 /\ 0 \in 0 .. MaxKey /\ \A n \in Nodes(t) : t.height[n] > 0 /\ n \in 0 .. MaxKey
    BY NodeType, Constants
  <2> QED BY <1>1, <1>10, <1>12, <1>13, <2>1
<1>16. TreeType(u)
  BY <1>9, <1>10, <1>11, <1>12, <1>13, <1>14, <1>15 DEF TreeType
<1>17. \A q \in Owner(t), e \in {0, 1} : q # r /\ ~ (q = p /\ e = s) => u.kid[q][e] = t.kid[q][e]
  <2> TAKE q \in Owner(t), e \in {0, 1}
  <2>1. q \in 0 .. MapO
    BY NodeType
  <2> QED BY <1>5, <1>9, <1>12, <2>1
<1>18. u.kid[p][s] = 0
  BY <1>1, <1>5, <1>9, <1>12
<1>19. IsGone(t, u, p, s, r)
  BY <1>10, <1>11, <1>12, <1>13, <1>16, <1>17, <1>18 DEF IsGone
<1> QED BY <1>2, <1>19

LEMMA GonePlaced ==
  ASSUME NEW t, TreeType(t), NEW lo, NEW hi, Placed(t, lo, hi),
         NEW p \in Owner(t), NEW s \in {0, 1}, NEW r \in Nodes(t), r = t.kid[p][s],
         t.kid[r][0] = 0, t.kid[r][1] = 0, NEW u, IsGone(t, u, p, s, r)
  PROVE  Placed(u, lo, hi)
<1>1. /\ \A n \in Owner(t) : n \in 1 .. MapO /\ n \in Int /\ n # 0 /\ lo[n] \in Int /\ hi[n] \in Int
      /\ \A n \in Nodes(t) : n \in Owner(t) /\ n < MapO
      /\ MapO \in Owner(t) /\ r \in Owner(t) /\ MapO # r
  BY BoundsAre, NodeType DEF Placed
<1>2. /\ lo[MapO] = 0 /\ hi[MapO] = Top
      /\ \A n \in Nodes(t) : /\ lo[n] < n /\ n < hi[n]
                             /\ lo[n] \in Nodes(t) \cup {0}
                             /\ hi[n] \in Nodes(t) \cup {MapO}
  BY DEF Placed, Wide
<1>3. \A n \in Owner(t), m \in Nodes(t) :
        /\ lo[n] < m /\ m < n => lo[n] <= lo[m] /\ hi[m] <= n
        /\ n < m /\ m < hi[n] => n <= lo[m] /\ hi[m] <= hi[n]
  BY DEF Placed, Nest
<1>4. \A n \in Nodes(t) : /\ lo[n] # 0 => n < hi[lo[n]]
                          /\ lo[hi[n]] < n
  BY DEF Placed, Above
<1>5. \A m \in Nodes(t) : ~ (lo[r] < m /\ m < r) /\ ~ (r < m /\ m < hi[r])
  <2>1. \A m \in Nodes(t) : ~ (SlotLo(lo, r, 0) < m /\ m < SlotHi(hi, r, 0))
                            /\ ~ (SlotLo(lo, r, 1) < m /\ m < SlotHi(hi, r, 1))
    BY <1>1 DEF Placed, Kids
  <2> QED BY <2>1 DEF SlotLo, SlotHi
<1>6. Nodes(u) = Nodes(t) \ {r} /\ Owner(u) = Owner(t) \ {r}
  BY <1>1 DEF IsGone, Owner
<1>7. \A n \in Nodes(u) : lo[n] # r /\ hi[n] # r
  BY <1>1, <1>2, <1>4, <1>5, <1>6
<1>8. Wide(u, lo, hi)
  BY <1>1, <1>2, <1>6, <1>7 DEF Wide
<1>9. Nest(u, lo, hi)
  BY <1>3, <1>6 DEF Nest
<1>10. Above(u, lo, hi)
  BY <1>4, <1>6 DEF Above
<1>11. KidAt(t, lo, hi, p, s, r)
  BY <1>1, KidPlace
<1>12. ASSUME NEW q \in Owner(u), NEW e \in {0, 1}
       PROVE  /\ u.kid[q][e] # 0 => /\ u.kid[q][e] \in Nodes(u)
                                    /\ lo[u.kid[q][e]] = SlotLo(lo, q, e)
                                    /\ hi[u.kid[q][e]] = SlotHi(hi, q, e)
              /\ u.kid[q][e] = 0 =>
                   \A m \in Nodes(u) : ~ (SlotLo(lo, q, e) < m /\ m < SlotHi(hi, q, e))
  <2>1. q \in Owner(t) /\ q # r
    BY <1>6
  <2>2. CASE q = p /\ e = s
    <3>1. u.kid[q][e] = 0
      BY <2>2 DEF IsGone
    <3>2. SlotLo(lo, q, e) = lo[r] /\ SlotHi(hi, q, e) = hi[r]
      BY <1>11, <2>2 DEF KidAt, SlotLo, SlotHi
    <3>3. \A m \in Nodes(u) : ~ (lo[r] < m /\ m < hi[r])
      BY <1>1, <1>5, <1>6
    <3> QED BY <3>1, <3>2, <3>3
  <2>3. CASE ~ (q = p /\ e = s)
    <3>1. u.kid[q][e] = t.kid[q][e]
      BY <2>1, <2>3 DEF IsGone
    <3>2. t.kid[q][e] # r
      BY <1>1, <2>1, <2>3, OneParent
    <3>3. /\ t.kid[q][e] # 0 => /\ t.kid[q][e] \in Nodes(t)
                                /\ lo[t.kid[q][e]] = SlotLo(lo, q, e)
                                /\ hi[t.kid[q][e]] = SlotHi(hi, q, e)
          /\ t.kid[q][e] = 0 =>
               \A m \in Nodes(t) : ~ (SlotLo(lo, q, e) < m /\ m < SlotHi(hi, q, e))
      BY <2>1 DEF Placed, Kids
    <3> QED BY <1>6, <3>1, <3>2, <3>3
  <2> QED BY <2>2, <2>3
<1>13. Kids(u, lo, hi)
  BY <1>12 DEF Kids
<1> QED BY <1>8, <1>9, <1>10, <1>13 DEF Placed

\* Only the kids matter for the place of a node.
LEMMA SamePlaced ==
  ASSUME NEW t, NEW u, NEW lo, NEW hi, Placed(t, lo, hi), u.kid = t.kid, Nodes(u) = Nodes(t)
  PROVE  Placed(u, lo, hi)
<1>1. Owner(u) = Owner(t)
  BY DEF Owner
<1> QED BY <1>1 DEF Placed, Wide, Kids, Nest, Above

-----------------------------------------------------------------------------
(***************************************************************************)
(* Subtrees and heights                                                    *)
(***************************************************************************)

\* the nodes that are in the kid s of p
Held(t, lo, hi, p, s) == {m \in Nodes(t) : SlotLo(lo, p, s) < m /\ m < SlotHi(hi, p, s)}

\* What is held in a kid of p goes on to be held there down the tree.
LEMMA HeldNest ==
  ASSUME NEW t, TreeType(t), NEW lo, NEW hi, Placed(t, lo, hi)
  PROVE  \A p \in Owner(t), s \in {0, 1} : \A m \in Held(t, lo, hi, p, s) :
           SlotLo(lo, p, s) <= lo[m] /\ hi[m] <= SlotHi(hi, p, s)
<1> SUFFICES ASSUME NEW p \in Owner(t), NEW s \in {0, 1}, NEW m \in Held(t, lo, hi, p, s)
             PROVE  SlotLo(lo, p, s) <= lo[m] /\ hi[m] <= SlotHi(hi, p, s)
  OBVIOUS
<1>1. /\ lo[p] < m /\ m < p => lo[p] <= lo[m] /\ hi[m] <= p
      /\ p < m /\ m < hi[p] => p <= lo[m] /\ hi[m] <= hi[p]
  BY DEF Placed, Nest, Held
<1>2. SlotLo(lo, p, s) < m /\ m < SlotHi(hi, p, s)
  BY DEF Held
<1> QED BY <1>1, <1>2 DEF SlotLo, SlotHi

LEMMA KidsHeld ==
  ASSUME NEW t, TreeType(t), NEW lo, NEW hi, Placed(t, lo, hi),
         NEW p \in Owner(t), NEW s \in {0, 1}
  PROVE  /\ \A m \in Held(t, lo, hi, p, s), d \in {0, 1} :
              t.kid[m][d] \in Held(t, lo, hi, p, s) \cup {0}
         /\ t.kid[p][s] # 0 => t.kid[p][s] \in Held(t, lo, hi, p, s)
<1>1. /\ \A n \in Owner(t) : n \in Int /\ lo[n] \in Int /\ hi[n] \in Int
      /\ \A n \in Nodes(t) : n \in Owner(t)
  BY BoundsAre, NodeType DEF Placed
<1>2. ASSUME NEW m \in Held(t, lo, hi, p, s), NEW d \in {0, 1}, t.kid[m][d] # 0
      PROVE  t.kid[m][d] \in Held(t, lo, hi, p, s)
  <2> DEFINE c == t.kid[m][d]
  <2>1. m \in Nodes(t) /\ m \in Owner(t)
    BY <1>1 DEF Held
  <2>2. KidAt(t, lo, hi, m, d, c)
    BY <1>2, <2>1, KidPlace
  <2>3. SlotLo(lo, p, s) <= lo[m] /\ hi[m] <= SlotHi(hi, p, s)
    BY HeldNest
  <2>4. SlotLo(lo, p, s) \in Int /\ SlotHi(hi, p, s) \in Int
    BY <1>1 DEF SlotLo, SlotHi
  <2>5. lo[m] < m /\ m < hi[m]
    BY <2>1 DEF Placed, Wide
  <2> HIDE DEF c
  <2>6. c \in Nodes(t) /\ lo[m] < c /\ c < hi[m]
    <3>1. CASE d = 0
      BY <1>1, <2>1, <2>2, <2>5, <3>1 DEF KidAt
    <3>2. CASE d = 1
      BY <1>1, <2>1, <2>2, <2>5, <3>2 DEF KidAt
    <3> QED BY <3>1, <3>2
  <2>7. SlotLo(lo, p, s) < c /\ c < SlotHi(hi, p, s)
    BY <1>1, <2>1, <2>3, <2>4, <2>6
  <2>8. c \in Held(t, lo, hi, p, s)
    BY <2>6, <2>7 DEF Held
  <2> QED BY <2>8 DEF c
<1>3. ASSUME t.kid[p][s] # 0 PROVE t.kid[p][s] \in Held(t, lo, hi, p, s)
  <2> DEFINE c == t.kid[p][s]
  <2>1. c \in Nodes(t) /\ lo[c] = SlotLo(lo, p, s) /\ hi[c] = SlotHi(hi, p, s)
    BY <1>3 DEF Placed, Kids
  <2>2. lo[c] < c /\ c < hi[c]
    BY <2>1 DEF Placed, Wide
  <2> QED BY <2>1, <2>2 DEF Held
<1> QED BY <1>2, <1>3

\* Every node that is held in a kid is found there.
LEMMA HeldReached ==
  ASSUME NEW t, TreeType(t), NEW lo, NEW hi, Placed(t, lo, hi),
         NEW p \in Owner(t), NEW s \in {0, 1}, NEW S \in SUBSET Nodes(t),
         \A m \in S, d \in {0, 1} : t.kid[m][d] \in S \cup {0},
         t.kid[p][s] # 0 => t.kid[p][s] \in S
  PROVE  Held(t, lo, hi, p, s) \subseteq S
<1> SUFFICES ASSUME NEW m \in Held(t, lo, hi, p, s), m \notin S PROVE FALSE
  OBVIOUS
<1>1. /\ \A n \in Owner(t) : n \in Int /\ lo[n] \in Int /\ hi[n] \in Int
      /\ \A n \in Nodes(t) : n \in Owner(t) /\ n # 0
  BY BoundsAre, NodeType DEF Placed
<1>2. m \in Nodes(t) /\ SlotLo(lo, p, s) < m /\ m < SlotHi(hi, p, s)
  BY DEF Held
<1>3. \A n \in Nodes(t) : lo[n] < n /\ n < hi[n]
  BY DEF Placed, Wide
<1> DEFINE X == {x \in S : lo[x] < m /\ m < hi[x]}
           T == {hi[x] - lo[x] : x \in X}
<1>4. t.kid[p][s] \in X
  <2>1. t.kid[p][s] # 0
    BY <1>2 DEF Placed, Kids
  <2>2. lo[t.kid[p][s]] = SlotLo(lo, p, s) /\ hi[t.kid[p][s]] = SlotHi(hi, p, s)
    BY <2>1 DEF Placed, Kids
  <2> QED BY <1>2, <2>1, <2>2
<1>5. T \subseteq Nat /\ T # {}
  <2>1. \A x \in S : hi[x] - lo[x] \in Nat
    BY <1>1, <1>3
  <2> QED BY <1>4, <2>1
<1>6. PICK w \in T : \A y \in T : w <= y
  BY <1>5, LeastOfSet
<1>7. PICK x \in X : w = hi[x] - lo[x]
  OBVIOUS
<1>8. \A y \in X : hi[x] - lo[x] <= hi[y] - lo[y]
  BY <1>6, <1>7
<1>9. x \in S /\ x \in Nodes(t) /\ x \in Owner(t) /\ lo[x] < m /\ m < hi[x] /\ m # x
  BY <1>1
<1>10. m \in Owner(t) /\ m \in Int /\ x \in Int /\ lo[x] \in Int /\ hi[x] \in Int
  BY <1>1, <1>2, <1>9
<1>11. CASE m < x
  <2> DEFINE c == t.kid[x][0]
  <2>1. c # 0
    <3>1. SlotLo(lo, x, 0) < m /\ m < SlotHi(hi, x, 0)
      BY <1>9, <1>11 DEF SlotLo, SlotHi
    <3> QED BY <1>2, <1>9, <3>1 DEF Placed, Kids
  <2>2. KidAt(t, lo, hi, x, 0, c)
    BY <1>9, <2>1, KidPlace
  <2>3. c \in S
    BY <1>9, <2>1
  <2> HIDE DEF c
  <2>4. hi[c] = x /\ lo[c] = lo[x]
    BY <2>2 DEF KidAt
  <2>5. c \in X
    BY <1>9, <1>11, <2>3, <2>4
  <2>6. hi[x] - lo[x] <= x - lo[x]
    BY <1>8, <2>4, <2>5
  <2> QED BY <1>3, <1>9, <1>10, <2>6
<1>12. CASE x < m
  <2> DEFINE c == t.kid[x][1]
  <2>1. c # 0
    <3>1. SlotLo(lo, x, 1) < m /\ m < SlotHi(hi, x, 1)
      BY <1>9, <1>12 DEF SlotLo, SlotHi
    <3> QED BY <1>2, <1>9, <3>1 DEF Placed, Kids
  <2>2. KidAt(t, lo, hi, x, 1, c)
    BY <1>9, <2>1, KidPlace
  <2>3. c \in S
    BY <1>9, <2>1
  <2> HIDE DEF c
  <2>4. lo[c] = x /\ hi[c] = hi[x]
    BY <2>2 DEF KidAt
  <2>5. c \in X
    BY <1>9, <1>12, <2>3, <2>4
  <2>6. hi[x] - lo[x] <= hi[x] - x
    BY <1>8, <2>4, <2>5
  <2> QED BY <1>3, <1>9, <1>10, <2>6
<1> QED BY <1>9, <1>10, <1>11, <1>12

\* The subtree below the kid s of p is what is held there.
LEMMA SubtreeIs ==
  ASSUME TreeType(tree), NEW lo, NEW hi, Placed(tree, lo, hi)
  PROVE  \A p \in Owner(tree), s \in {0, 1} :
           Subtree(tree.kid[p][s]) = Held(tree, lo, hi, p, s)
<1> SUFFICES ASSUME NEW p \in Owner(tree), NEW s \in {0, 1}
             PROVE  Subtree(tree.kid[p][s]) = Held(tree, lo, hi, p, s)
  OBVIOUS
<1> DEFINE n == tree.kid[p][s]
           Closed(S) == \A m \in S, d \in {0, 1} : tree.kid[m][d] \in S \cup {0}
           Hd == Held(tree, lo, hi, p, s)
<1>1. Subtree(n) = {m \in Nodes(tree) : \A S \in SUBSET Nodes(tree) :
                      Closed(S) /\ {n} \cap Nodes(tree) \subseteq S => m \in S}
  BY DEF Subtree, avl_nnil
<1>2. Hd \subseteq Nodes(tree)
  BY DEF Held
<1>3. n # 0 => n \in Nodes(tree)
  BY DEF Placed, Kids
<1>4. 0 \notin Nodes(tree)
  BY NodeType
<1>5. Closed(Hd) /\ {n} \cap Nodes(tree) \subseteq Hd
  BY <1>3, <1>4, KidsHeld
<1>6. ASSUME NEW S \in SUBSET Nodes(tree), Closed(S), {n} \cap Nodes(tree) \subseteq S
      PROVE  Hd \subseteq S
  <2>1. tree.kid[p][s] # 0 => tree.kid[p][s] \in S
    BY <1>3, <1>6
  <2>2. \A m \in S, d \in {0, 1} : tree.kid[m][d] \in S \cup {0}
    BY <1>6
  <2> QED BY <2>1, <2>2, HeldReached
<1> HIDE DEF Hd, Closed, n
<1>7. Subtree(n) = Hd
  <2>1. Subtree(n) \subseteq Hd
    BY <1>1, <1>2, <1>5
  <2>2. Hd \subseteq Subtree(n)
    BY <1>1, <1>2, <1>6
  <2> QED BY <2>1, <2>2
<1> QED BY <1>7 DEF n, Hd

\* The nodes of the tree are held in the left kid of the map.
LEMMA HeldByMap ==
  ASSUME NEW t, TreeType(t), NEW lo, NEW hi, Placed(t, lo, hi)
  PROVE  Held(t, lo, hi, MapO, 0) = Nodes(t)
<1>1. \A n \in Nodes(t) : 0 < n /\ n < MapO
  <2>1. \A n \in Key : 0 < n /\ n < MapO
    BY Constants
  <2> QED BY <2>1 DEF TreeType
<1>2. lo[MapO] = 0
  BY DEF Placed, Wide
<1> QED BY <1>1, <1>2 DEF Held, SlotLo, SlotHi

-----------------------------------------------------------------------------
(***************************************************************************)
(* Heights of kids                                                         *)
(***************************************************************************)

KidHeight(t, n, d) == t.height[t.kid[n][d]]

\* the kids of n do not have the same height
Uneven(t, n) == KidHeight(t, n, 0) # KidHeight(t, n, 1)

\* what AvlTree says about the heights of a node
Bal(t, n) ==
  /\ t.height[n] = 1 + Larger(KidHeight(t, n, 0), KidHeight(t, n, 1))
  /\ KidHeight(t, n, 0) - KidHeight(t, n, 1) \in {-1, 0, 1}

LEMMA KidHeightType ==
  ASSUME NEW t, TreeType(t)
  PROVE  \A n \in Owner(t), d \in {0, 1} : KidHeight(t, n, d) \in Nat /\ KidHeight(t, n, d) \in Int
<1> SUFFICES ASSUME NEW n \in Owner(t), NEW d \in {0, 1} PROVE KidHeight(t, n, d) \in Nat
  OBVIOUS
<1>1. n \in 0 .. MapO
  BY NodeType
<1>2. t.kid[n][d] \in 0 .. MaxKey
  BY <1>1, KidType
<1> QED BY <1>2, NodeType DEF KidHeight

\* The same from either side.
LEMMA BalSide ==
  ASSUME NEW t, TreeType(t)
  PROVE  \A n \in Nodes(t), d \in {0, 1} :
           /\ Bal(t, n) <=> /\ t.height[n] = 1 + Larger(KidHeight(t, n, d), KidHeight(t, n, 1 - d))
                            /\ KidHeight(t, n, d) - KidHeight(t, n, 1 - d) \in {-1, 0, 1}
           /\ Uneven(t, n) <=> KidHeight(t, n, d) # KidHeight(t, n, 1 - d)
<1> SUFFICES ASSUME NEW n \in Nodes(t), NEW d \in {0, 1}
             PROVE /\ Bal(t, n) <=> /\ t.height[n] = 1 + Larger(KidHeight(t, n, d), KidHeight(t, n, 1 - d))
                                    /\ KidHeight(t, n, d) - KidHeight(t, n, 1 - d) \in {-1, 0, 1}
                   /\ Uneven(t, n) <=> KidHeight(t, n, d) # KidHeight(t, n, 1 - d)
  OBVIOUS
<1>1. n \in Owner(t)
  BY DEF Owner
<1>2. KidHeight(t, n, 0) \in Int /\ KidHeight(t, n, 1) \in Int
  BY <1>1, KidHeightType
<1>3. 1 - 0 = 1 /\ 1 - 1 = 0
  OBVIOUS
<1>4. CASE d = 0
  BY <1>3, <1>4 DEF Bal, Uneven
<1>5. CASE d = 1
  <2>1. Larger(KidHeight(t, n, 0), KidHeight(t, n, 1)) = Larger(KidHeight(t, n, 1), KidHeight(t, n, 0))
    BY <1>2 DEF Larger
  <2>2. KidHeight(t, n, 0) - KidHeight(t, n, 1) \in {-1, 0, 1}
          <=> KidHeight(t, n, 1) - KidHeight(t, n, 0) \in {-1, 0, 1}
    BY <1>2
  <2> QED BY <1>3, <1>5, <2>1, <2>2 DEF Bal, Uneven
<1> QED BY <1>4, <1>5

\* A rotation changes the height of one node, and moves one kid.
RotatedHeights(t, u, p, s, r, c, dir) ==
  /\ KidHeight(u, r, dir) = KidHeight(t, c, 1 - dir)
  /\ KidHeight(u, r, 1 - dir) = KidHeight(t, r, 1 - dir)
  /\ KidHeight(u, c, dir) = KidHeight(t, c, dir)
  /\ KidHeight(u, c, 1 - dir) = u.height[r]
  /\ u.height[r] = 1 + Larger(KidHeight(t, c, 1 - dir), KidHeight(t, r, 1 - dir))
  /\ \A n \in Owner(t), e \in {0, 1} :
       n \notin {r, c} /\ ~ (n = p /\ e = s) => KidHeight(u, n, e) = KidHeight(t, n, e)
  /\ \A n \in 0 .. MaxKey : n # r => u.height[n] = t.height[n]

LEMMA RotateHeights ==
  ASSUME NEW t, TreeType(t), NEW u, TreeType(u), NEW lo, NEW hi, Placed(t, lo, hi),
         NEW p \in Owner(t), NEW s \in {0, 1}, NEW dir \in {0, 1},
         NEW r \in Nodes(t), NEW c \in Nodes(t),
         r = t.kid[p][s], c = t.kid[r][dir], p # r, p # c, r # c, Rotated(t, u, p, s, dir)
  PROVE  RotatedHeights(t, u, p, s, r, c, dir)
<1>1. /\ u.kid[p][s] = c
      /\ u.kid[r][dir] = t.kid[c][1 - dir]
      /\ u.kid[c][1 - dir] = r
      /\ \A q \in 0 .. MapO, e \in {0, 1} :
           ~ (q = p /\ e = s) /\ ~ (q = r /\ e = dir) /\ ~ (q = c /\ e = 1 - dir)
             => u.kid[q][e] = t.kid[q][e]
      /\ u.kid[r][0] # r /\ u.kid[r][1] # r =>
           u.height[r] = 1 + Larger(u.height[u.kid[r][0]], u.height[u.kid[r][1]])
      /\ \A n \in 0 .. MaxKey : n # r => u.height[n] = t.height[n]
  BY Zenon DEF Rotated
<1>2. /\ r \in Owner(t) /\ c \in Owner(t) /\ r # 0 /\ c # 0
      /\ p \in 0 .. MapO /\ r \in 0 .. MapO /\ c \in 0 .. MapO
      /\ \A n \in Owner(t) : n \in 0 .. MapO
  BY NodeType DEF Owner
<1>3. 1 - dir \in {0, 1} /\ 1 - dir # dir /\ 1 - (1 - dir) = dir
  OBVIOUS
<1>4. \A q \in Owner(t), e \in {0, 1} : t.kid[q][e] = r => q = p /\ e = s
  BY <1>2, OneParent
<1>5. \A q \in Owner(t), e \in {0, 1} : t.kid[q][e] \in 0 .. MaxKey
  BY NodeType, KidType, Zenon
<1>6. u.kid[r][1 - dir] = t.kid[r][1 - dir] /\ u.kid[c][dir] = t.kid[c][dir]
  BY <1>1, <1>2, <1>3, Zenon
<1>7. t.kid[c][1 - dir] # r /\ t.kid[r][1 - dir] # r /\ t.kid[c][dir] # r
  BY <1>2, <1>3, <1>4, Zenon
<1>8. KidHeight(u, r, dir) = KidHeight(t, c, 1 - dir)
  BY <1>1, <1>2, <1>3, <1>5, <1>7, ZenonT(30) DEF KidHeight
<1>9. KidHeight(u, r, 1 - dir) = KidHeight(t, r, 1 - dir)
  BY <1>1, <1>2, <1>3, <1>5, <1>6, <1>7, ZenonT(30) DEF KidHeight
<1>10. KidHeight(u, c, dir) = KidHeight(t, c, dir)
  BY <1>1, <1>2, <1>3, <1>5, <1>6, <1>7, ZenonT(30) DEF KidHeight
<1>11. KidHeight(u, c, 1 - dir) = u.height[r]
  BY <1>1, Zenon DEF KidHeight
<1>12. u.height[r] = 1 + Larger(KidHeight(t, c, 1 - dir), KidHeight(t, r, 1 - dir))
  <2>1. u.kid[r][0] # r /\ u.kid[r][1] # r
    <3>1. CASE dir = 0
      <4>1. 1 - 0 = 1
        OBVIOUS
      <4> QED BY <3>1, <4>1, <1>1, <1>6, <1>7, ZenonT(30)
    <3>2. CASE dir = 1
      <4>1. 1 - 1 = 0
        OBVIOUS
      <4> QED BY <3>2, <4>1, <1>1, <1>6, <1>7, ZenonT(30)
    <3> QED BY <3>1, <3>2, Zenon
  <2>2. u.height[r] = 1 + Larger(KidHeight(u, r, 0), KidHeight(u, r, 1))
    BY <1>1, <2>1, Zenon DEF KidHeight
  <2>3. KidHeight(u, r, dir) \in Int /\ KidHeight(u, r, 1 - dir) \in Int
    BY <1>2, <1>3, <1>8, <1>9, KidHeightType
  <2>4. Larger(KidHeight(u, r, 0), KidHeight(u, r, 1)) = Larger(KidHeight(u, r, dir), KidHeight(u, r, 1 - dir))
    <3>1. CASE dir = 0
      <4>1. 1 - 0 = 1
        OBVIOUS
      <4> QED BY <3>1, <4>1
    <3>2. CASE dir = 1
      <4>1. 1 - 1 = 0
        OBVIOUS
      <4> QED BY <3>2, <4>1, <2>3 DEF Larger
    <3> QED BY <3>1, <3>2
  <2> QED BY <2>2, <2>4, <1>8, <1>9
<1>13. ASSUME NEW n \in Owner(t), NEW e \in {0, 1}, n \notin {r, c}, ~ (n = p /\ e = s)
       PROVE  KidHeight(u, n, e) = KidHeight(t, n, e)
  <2>1. u.kid[n][e] = t.kid[n][e]
    BY <1>1, <1>2, <1>13, Zenon
  <2>2. t.kid[n][e] # r
    BY <1>2, <1>4, <1>13
  <2> QED BY <1>1, <1>2, <1>5, <2>1, <2>2, ZenonT(30) DEF KidHeight
<1> QED BY <1>1, <1>8, <1>9, <1>10, <1>11, <1>12, <1>13, ZenonT(30) DEF RotatedHeights

\* Setting the height of a kid of p matters for p only.
SetHeights(t, u, p, s, n) ==
  /\ \A m \in Owner(t), e \in {0, 1} :
       ~ (m = p /\ e = s) => KidHeight(u, m, e) = KidHeight(t, m, e)
  /\ \A d \in {0, 1} : u.height[n] = 1 + Larger(KidHeight(t, n, d), KidHeight(t, n, 1 - d))
  /\ \A m \in 0 .. MaxKey : m # n => u.height[m] = t.height[m]

LEMMA SetHeightsAre ==
  ASSUME NEW t, TreeType(t), NEW u, NEW lo, NEW hi, Placed(t, lo, hi),
         NEW p \in Owner(t), NEW s \in {0, 1}, NEW n \in Nodes(t), n = t.kid[p][s],
         HeightSet(t, u, n)
  PROVE  SetHeights(t, u, p, s, n)
<1>1. /\ u.kid = t.kid
      /\ u.height[n] = 1 + Larger(KidHeight(t, n, 0), KidHeight(t, n, 1))
      /\ \A m \in 0 .. MaxKey : m # n => u.height[m] = t.height[m]
  BY DEF HeightSet, KidHeight
<1>2. /\ n # 0 /\ n \in Owner(t)
      /\ \A m \in Owner(t) : m \in 0 .. MapO
  BY NodeType DEF Owner
<1>3. ASSUME NEW m \in Owner(t), NEW e \in {0, 1}, ~ (m = p /\ e = s)
      PROVE  KidHeight(u, m, e) = KidHeight(t, m, e)
  <2>1. t.kid[m][e] # n
    BY <1>2, <1>3, OneParent
  <2>2. t.kid[m][e] \in 0 .. MaxKey
    BY <1>2, KidType
  <2> QED BY <1>1, <2>1, <2>2 DEF KidHeight
<1>4. ASSUME NEW d \in {0, 1}
      PROVE  u.height[n] = 1 + Larger(KidHeight(t, n, d), KidHeight(t, n, 1 - d))
  <2>1. KidHeight(t, n, 0) \in Int /\ KidHeight(t, n, 1) \in Int
    BY <1>2, KidHeightType
  <2>2. 1 - 0 = 1 /\ 1 - 1 = 0
    OBVIOUS
  <2>3. CASE d = 0
    BY <1>1, <2>2, <2>3
  <2>4. CASE d = 1
    BY <1>1, <2>1, <2>2, <2>4 DEF Larger
  <2> QED BY <2>3, <2>4
<1> QED BY <1>1, <1>3, <1>4 DEF SetHeights

-----------------------------------------------------------------------------
(***************************************************************************)
(* avl_adjust_balance                                                      *)
(***************************************************************************)

LEMMA HalfIs ==
  /\ \A n \in {-1, 0, 1} : Half(n) = 0
  /\ \A n \in {2, 3} : Half(n) = 1 /\ Half(-n) = -1
  /\ (1 - 1) \div 2 = 0 /\ (1 - (-1)) \div 2 = 1
<1>1. 0 \div 2 = 0 /\ 1 \div 2 = 0 /\ 2 \div 2 = 1 /\ 3 \div 2 = 1
  OBVIOUS
<1>2. Half(-1) = 0 /\ Half(0) = 0 /\ Half(1) = 0
  BY <1>1 DEF Half
<1>3. Half(2) = 1 /\ Half(3) = 1 /\ Half(-2) = -1 /\ Half(-3) = -1
  BY <1>1 DEF Half
<1> QED BY <1>1, <1>2, <1>3

\* what avl_adjust_balance does when the kid d of the root is too high
Turned(t, p, s, r, d) ==
  LET y == t.kid[r][d]
  IN avl_rotate(IF KidHeight(t, y, 1 - d) = KidHeight(t, y, d) + 1
                  THEN avl_rotate(t, r, d, 1 - d) ELSE t, p, s, d)

LEMMA AdjustNothing ==
  ASSUME NEW t, TreeType(t), NEW p \in Owner(t), NEW s \in {0, 1},
         NEW r \in Nodes(t), r = t.kid[p][s],
         KidHeight(t, r, 0) - KidHeight(t, r, 1) \in {-1, 0, 1}
  PROVE  avl_adjust_balance(t, p, s) = avl_set_height(t, r)
<1>1. Half(avl_get_ballance_diff(t, r)) = 0
  BY HalfIs DEF avl_get_ballance_diff, KidHeight
<1>2. r # 0
  BY NodeType, Zenon
<1> QED BY <1>1, <1>2 DEF avl_adjust_balance, avl_nnil

LEMMA AdjustTurns ==
  ASSUME NEW t, TreeType(t), NEW p \in Owner(t), NEW s \in {0, 1}, NEW d \in {0, 1},
         NEW r \in Nodes(t), r = t.kid[p][s], t.kid[r][d] \in Nodes(t),
         KidHeight(t, r, d) - KidHeight(t, r, 1 - d) \in {2, 3},
         Turned(t, p, s, r, d).kid[p][s] # 0
  PROVE  avl_adjust_balance(t, p, s)
           = avl_set_height(Turned(t, p, s, r, d), Turned(t, p, s, r, d).kid[p][s])
<1> DEFINE y == t.kid[r][d]
           b == Half(avl_get_ballance_diff(t, r))
           dir == (1 - b) \div 2
           u == Turned(t, p, s, r, d)
<1>1. y \in Owner(t) /\ r \in Owner(t)
  BY DEF Owner
<1>2. /\ KidHeight(t, r, 0) \in Int /\ KidHeight(t, r, 1) \in Int
      /\ KidHeight(t, y, 0) \in Int /\ KidHeight(t, y, 1) \in Int
  BY <1>1, KidHeightType
<1>3. 1 - 0 = 1 /\ 1 - 1 = 0
  OBVIOUS
<1>4. avl_get_ballance_diff(t, r) = KidHeight(t, r, 0) - KidHeight(t, r, 1)
      /\ avl_get_ballance_diff(t, y) = KidHeight(t, y, 0) - KidHeight(t, y, 1)
  BY DEF avl_get_ballance_diff, KidHeight
<1> HIDE DEF y
<1>5. dir = d /\ b # 0 /\ (avl_get_ballance_diff(t, y) = -b <=> KidHeight(t, y, 1 - d) = KidHeight(t, y, d) + 1)
  <2>1. CASE d = 0
    <3>1. avl_get_ballance_diff(t, r) \in {2, 3}
      BY <1>3, <1>4, <2>1
    <3>2. b = 1
      BY <3>1, HalfIs
    <3>3. dir = 0
      BY <3>2, HalfIs
    <3>4. -b = -1
      BY <3>2
    <3>5. KidHeight(t, y, 0) - KidHeight(t, y, 1) = -1 <=> KidHeight(t, y, 1) = KidHeight(t, y, 0) + 1
      BY <1>2
    <3> QED BY <1>3, <1>4, <2>1, <3>2, <3>3, <3>4, <3>5
  <2>2. CASE d = 1
    <3>1. KidHeight(t, r, 1) - KidHeight(t, r, 0) \in {2, 3}
      BY <1>3, <2>2
    <3>2. \E n \in {2, 3} : avl_get_ballance_diff(t, r) = -n
      BY <1>2, <1>4, <3>1
    <3>3. b = -1
      BY <3>2, HalfIs
    <3>4. dir = 1
      BY <3>3, HalfIs
    <3>5. -b = 1
      <4> HIDE DEF b
      <4>1. b \in Int /\ 0 - b = 1
        BY <3>3
      <4>2. -b = 0 - b
        BY <4>1
      <4> QED BY <4>1, <4>2
    <3>6. KidHeight(t, y, 0) - KidHeight(t, y, 1) = 1 <=> KidHeight(t, y, 0) = KidHeight(t, y, 1) + 1
      BY <1>2
    <3> QED BY <1>3, <1>4, <2>2, <3>3, <3>4, <3>5, <3>6
  <2> QED BY <2>1, <2>2
<1>6. avl_adjust_balance(t, p, s) =
        LET inner == IF avl_get_ballance_diff(t, t.kid[r][dir]) = -b
                       THEN avl_rotate(t, r, dir, 1 - dir) ELSE t
            w == IF b = 0 THEN t ELSE avl_rotate(inner, p, s, dir)
        IN IF w.kid[p][s] = 0 THEN w ELSE avl_set_height(w, w.kid[p][s])
  BY DEF avl_adjust_balance, avl_nnil
<1>7. dir = d /\ b # 0 /\ (avl_get_ballance_diff(t, t.kid[r][d]) = -b
                            <=> KidHeight(t, t.kid[r][d], 1 - d) = KidHeight(t, t.kid[r][d], d) + 1)
  BY <1>5 DEF y
<1> HIDE DEF dir, b
<1> QED BY <1>6, <1>7, Zenon DEF Turned

-----------------------------------------------------------------------------
\* What avl_adjust_balance leaves: r, the kid s of p, and what was moved are
\* balanced, and nothing else changes.
Adjusted(t, u, lo, hi, p, s, r) ==
  /\ TreeType(u) /\ u.value = t.value
  /\ \E lo2, hi2 :
       /\ Placed(u, lo2, hi2)
       /\ \A q \in Owner(t) : q \notin Held(t, lo, hi, p, s) => lo2[q] = lo[q] /\ hi2[q] = hi[q]
  /\ u.kid[p][s] \in Nodes(t)
  /\ \A q \in Owner(t), e \in {0, 1} :
       q \notin Held(t, lo, hi, p, s) /\ ~ (q = p /\ e = s) => u.kid[q][e] = t.kid[q][e]
  /\ \A n \in 0 .. MaxKey : n \notin Held(t, lo, hi, p, s) => u.height[n] = t.height[n]
  /\ \A n \in Nodes(t) : n # p /\ (n = r \/ Bal(t, n)) => Bal(u, n)

\* the height of the root that avl_adjust_balance leaves, and whether its kids
\* differ in height
RootHeight(u, p, s) == u.height[u.kid[p][s]]

\* the parent is not below its kid
LEMMA NotHeld ==
  ASSUME NEW t, TreeType(t), NEW lo, NEW hi, Placed(t, lo, hi)
  PROVE  \A p \in Owner(t), s \in {0, 1} : p \notin Held(t, lo, hi, p, s)
<1> SUFFICES ASSUME NEW p \in Owner(t), NEW s \in {0, 1} PROVE p \notin Held(t, lo, hi, p, s)
  OBVIOUS
<1>1. p \in Int
  BY NodeType
<1>2. CASE s = 0
  BY <1>1, <1>2 DEF Held, SlotHi
<1>3. CASE s = 1
  BY <1>1, <1>3 DEF Held, SlotLo
<1> QED BY <1>2, <1>3

LEMMA AdjustedNot ==
  ASSUME NEW t, TreeType(t), NEW lo, NEW hi, Placed(t, lo, hi),
         NEW p \in Owner(t), NEW s \in {0, 1}, NEW r \in Nodes(t), r = t.kid[p][s],
         KidHeight(t, r, 0) - KidHeight(t, r, 1) \in {-1, 0, 1}, NEW u,
         u = avl_adjust_balance(t, p, s)
  PROVE  /\ Adjusted(t, u, lo, hi, p, s, r)
         /\ RootHeight(u, p, s) = 1 + Larger(KidHeight(t, r, 0), KidHeight(t, r, 1))
         /\ Uneven(t, r) => Uneven(u, u.kid[p][s])
<1>1. HeightSet(t, u, r)
  <2>1. r \in Key
    BY NodeType
  <2> QED BY <2>1, AdjustNothing, SetHeightIs
<1>2. SetHeights(t, u, p, s, r)
  BY <1>1, SetHeightsAre
<1>3. /\ TreeType(u) /\ u.kid = t.kid /\ u.value = t.value
  BY <1>1 DEF HeightSet
<1>4. Nodes(u) = Nodes(t)
  BY <1>3 DEF Nodes
<1>5. Placed(u, lo, hi)
  BY <1>3, <1>4, SamePlaced
<1>6. r # 0 /\ r \in Held(t, lo, hi, p, s) /\ r # p
  BY NodeType, KidsHeld, NotHeld
<1>7. u.kid[p][s] = r
  BY <1>3
<1>8. /\ \A m \in Nodes(t), e \in {0, 1} : m # p => KidHeight(u, m, e) = KidHeight(t, m, e)
      /\ u.height[r] = 1 + Larger(KidHeight(t, r, 0), KidHeight(t, r, 1))
      /\ \A m \in 0 .. MaxKey : m # r => u.height[m] = t.height[m]
  <2>1. 1 - 0 = 1
    OBVIOUS
  <2>2. \A m \in Nodes(t) : m \in Owner(t)
    BY DEF Owner
  <2> QED BY <1>2, <2>1, <2>2 DEF SetHeights
<1>9. \A n \in Nodes(t) : n # p /\ (n = r \/ Bal(t, n)) => Bal(u, n)
  <2> TAKE n \in Nodes(t)
  <2>1. CASE n = r
    BY <1>6, <1>8, <2>1 DEF Bal
  <2>2. CASE n # r
    BY <1>8, <2>2, NodeType DEF Bal
  <2> QED BY <2>1, <2>2
<1>10. Adjusted(t, u, lo, hi, p, s, r)
  BY <1>3, <1>5, <1>6, <1>7, <1>8, <1>9 DEF Adjusted
<1> QED BY <1>6, <1>7, <1>8, <1>10 DEF RootHeight, Uneven

LEMMA HighKid ==
  ASSUME NEW t, TreeType(t), NEW lo, NEW hi, Placed(t, lo, hi)
  PROVE  \A n \in Owner(t), d \in {0, 1} :
           KidHeight(t, n, d) > 0 =>
             /\ t.kid[n][d] \in Nodes(t)
             /\ KidHeight(t, n, d) = t.height[t.kid[n][d]]
<1> SUFFICES ASSUME NEW n \in Owner(t), NEW d \in {0, 1}, KidHeight(t, n, d) > 0
             PROVE  t.kid[n][d] \in Nodes(t)
  BY DEF KidHeight
<1>1. t.height[0] = 0
  BY NodeType
<1>2. t.kid[n][d] # 0
  BY <1>1 DEF KidHeight
<1> QED BY <1>2 DEF Placed, Kids

\* Nodes that a rotation of r does not reach keep the ends of their place.
LEMMA RotOutside ==
  ASSUME NEW t, TreeType(t), NEW lo, NEW hi, BoundsType(lo, hi), NEW dir \in {0, 1},
         NEW r \in Nodes(t), NEW c \in Nodes(t)
  PROVE  \A q \in Owner(t) : q # r /\ q # c =>
           RotLo(lo, r, c, dir)[q] = lo[q] /\ RotHi(hi, r, c, dir)[q] = hi[q]
<1>1. \A q \in Owner(t) : q \in 1 .. MapO
  BY BoundsAre
<1>2. r \in Owner(t) /\ c \in Owner(t)
  BY DEF Owner
<1>3. CASE dir = 0
  BY <1>1, <1>2, <1>3 DEF RotLo, RotHi, BoundsType
<1>4. CASE dir = 1
  BY <1>1, <1>2, <1>4 DEF RotLo, RotHi, BoundsType
<1> QED BY <1>3, <1>4

\* the root r and its higher kid, the kid d of r
TooHigh(t, r, d) ==
  /\ \/ KidHeight(t, r, d) - KidHeight(t, r, 1 - d) = 2
     \/ KidHeight(t, r, d) - KidHeight(t, r, 1 - d) = 3 /\ Uneven(t, t.kid[r][d])
  /\ Bal(t, t.kid[r][d])
  /\ \A e \in {0, 1} : t.kid[t.kid[r][d]][e] # 0 => Bal(t, t.kid[t.kid[r][d]][e])

\* the height that is left
Turns(t, u, p, s, r, d) ==
  LET M == KidHeight(t, r, d)
      x == KidHeight(t, r, 1 - d)
  IN /\ RootHeight(u, p, s) \in {M, M + 1}
     /\ Uneven(t, t.kid[r][d]) => RootHeight(u, p, s) = M
     /\ RootHeight(u, p, s) = M + 1 => Uneven(u, u.kid[p][s])

LEMMA AdjustedOnce ==
  ASSUME NEW t, TreeType(t), NEW lo, NEW hi, Placed(t, lo, hi),
         NEW p \in Owner(t), NEW s \in {0, 1}, NEW d \in {0, 1},
         NEW r \in Nodes(t), r = t.kid[p][s], NEW y, y = t.kid[r][d],
         TooHigh(t, r, d), KidHeight(t, y, 1 - d) # KidHeight(t, y, d) + 1,
         NEW u, u = avl_adjust_balance(t, p, s)
  PROVE  Adjusted(t, u, lo, hi, p, s, r) /\ Turns(t, u, p, s, r, d)
<1> DEFINE M == KidHeight(t, r, d)
           x == KidHeight(t, r, 1 - d)
           i == KidHeight(t, y, 1 - d)
           o == KidHeight(t, y, d)
           u1 == avl_rotate(t, p, s, d)
           lo1 == RotLo(lo, r, y, d)
           hi1 == RotHi(hi, r, y, d)
<1>0. 1 - d \in {0, 1} /\ 1 - d # d
  OBVIOUS
<1>1. r \in Owner(t) /\ r # 0
  BY NodeType, ZenonT(30) DEF Owner
<1>2. M \in Nat /\ x \in Nat /\ (M - x = 2 \/ (M - x = 3 /\ Uneven(t, y)))
  <2>1. M \in Nat /\ x \in Nat
    BY <1>0, <1>1, KidHeightType, ZenonT(30)
  <2>2. M - x = 2 \/ (M - x = 3 /\ Uneven(t, y))
    BY ZenonT(30) DEF TooHigh
  <2> QED BY <2>1, <2>2, Zenon
<1>2a. Bal(t, y)
  BY Zenon DEF TooHigh
<1>3. y \in Nodes(t) /\ M = t.height[y]
  <2>1. M > 0
    <3> HIDE DEF M, x
    <3> QED BY <1>2
  <2> QED BY <1>1, <2>1, HighKid, ZenonT(30)
<1>4. y \in Owner(t) /\ y # 0
  BY <1>3, NodeType DEF Owner
<1>5. i \in Nat /\ o \in Nat
  BY <1>0, <1>4, KidHeightType, Zenon
<1>6. M = 1 + Larger(o, i) /\ o - i \in {-1, 0, 1} /\ (Uneven(t, y) <=> o # i)
  BY <1>2a, <1>3, BalSide, Zenon
<1>7. /\ r \in Held(t, lo, hi, p, s) /\ y \in Held(t, lo, hi, p, s)
      /\ p \notin Held(t, lo, hi, p, s) /\ p # r /\ p # y /\ r # y
  <2>1. r \in Held(t, lo, hi, p, s)
    BY <1>1, KidsHeld
  <2>2. y \in Held(t, lo, hi, p, s)
    BY <1>4, <2>1, KidsHeld
  <2>3. r # y
    <3>1. KidAt(t, lo, hi, r, d, t.kid[r][d])
      BY <1>1, <1>4, KidPlace
    <3> QED BY <3>1 DEF KidAt
  <2> QED BY <2>1, <2>2, <2>3, NotHeld
<1>8. u1 = Turned(t, p, s, r, d)
  BY DEF Turned
<1>9. TreeType(u1) /\ Rotated(t, u1, p, s, d)
  BY <1>3, <1>7, RotateIs
<1>10. Placed(u1, lo1, hi1)
  BY <1>3, <1>9, RotatePlaced
<1>11. RotatedHeights(t, u1, p, s, r, y, d)
  BY <1>3, <1>7, <1>9, RotateHeights, ZenonT(30)
<1>12. Nodes(u1) = Nodes(t) /\ Owner(u1) = Owner(t) /\ u1.kid[p][s] = y /\ u1.value = t.value
       /\ \A q \in 0 .. MapO, e \in {0, 1} :
            ~ (q = p /\ e = s) /\ q # r /\ q # y => u1.kid[q][e] = t.kid[q][e]
  BY <1>9, ZenonT(30) DEF Rotated, Nodes, Owner
<1>13. u = avl_set_height(u1, y)
  <2>1. Turned(t, p, s, r, d).kid[p][s] # 0
    BY <1>4, <1>8, <1>12
  <2>2. M - x \in {2, 3}
    BY <1>2
  <2>3. t.kid[r][d] \in Nodes(t)
    BY <1>3
  <2>4. avl_adjust_balance(t, p, s)
          = avl_set_height(Turned(t, p, s, r, d), Turned(t, p, s, r, d).kid[p][s])
    BY <2>1, <2>2, <2>3, AdjustTurns
  <2> HIDE DEF u1
  <2> QED BY <1>8, <1>12, <2>4, ZenonT(30)
<1> HIDE DEF u1
<1>14. HeightSet(u1, u, y)
  BY <1>3, <1>9, <1>13, SetHeightIs, NodeType, Zenon
<1>15. SetHeights(u1, u, p, s, y)
  BY <1>3, <1>9, <1>10, <1>12, <1>14, SetHeightsAre, ZenonT(30)
<1>16. TreeType(u) /\ u.kid = u1.kid /\ u.value = t.value /\ Nodes(u) = Nodes(t)
  BY <1>12, <1>14, Zenon DEF HeightSet, Nodes
<1>17. Placed(u, lo1, hi1)
  BY <1>10, <1>12, <1>16, SamePlaced, Zenon
<1>18. /\ KidHeight(u1, r, d) = i /\ KidHeight(u1, r, 1 - d) = x
       /\ KidHeight(u1, y, d) = o /\ KidHeight(u1, y, 1 - d) = u1.height[r]
       /\ u1.height[r] = 1 + Larger(i, x)
       /\ \A n \in Owner(t), e \in {0, 1} :
            n \notin {r, y} /\ ~ (n = p /\ e = s) => KidHeight(u1, n, e) = KidHeight(t, n, e)
       /\ \A n \in 0 .. MaxKey : n # r => u1.height[n] = t.height[n]
  BY <1>11, Zenon DEF RotatedHeights
<1>19. /\ \A m \in Owner(t), e \in {0, 1} :
            ~ (m = p /\ e = s) => KidHeight(u, m, e) = KidHeight(u1, m, e)
       /\ u.height[y] = 1 + Larger(KidHeight(u1, y, d), KidHeight(u1, y, 1 - d))
       /\ \A m \in 0 .. MaxKey : m # y => u.height[m] = u1.height[m]
  BY <1>12, <1>15, Zenon DEF SetHeights
<1>20. r \in 0 .. MaxKey /\ y \in 0 .. MaxKey
  BY <1>3, NodeType, Zenon
<1>21. /\ KidHeight(u, r, d) = i /\ KidHeight(u, r, 1 - d) = x /\ u.height[r] = 1 + Larger(i, x)
       /\ KidHeight(u, y, d) = o /\ KidHeight(u, y, 1 - d) = u.height[r]
       /\ u.height[y] = 1 + Larger(o, u.height[r])
  BY <1>0, <1>1, <1>4, <1>7, <1>18, <1>19, <1>20, ZenonT(30)
<1> HIDE DEF M, x, i, o
<1>22. /\ i - x \in {-1, 0, 1} /\ o - (1 + Larger(i, x)) \in {-1, 0, 1}
       /\ 1 + Larger(o, 1 + Larger(i, x)) \in {M, M + 1}
       /\ Uneven(t, y) => 1 + Larger(o, 1 + Larger(i, x)) = M
       /\ 1 + Larger(o, 1 + Larger(i, x)) = M + 1 => o # 1 + Larger(i, x)
  <2>1. i # o + 1
    BY DEF i, o
  <2>2. o = M - 1 /\ (i = M - 1 \/ i = M - 2)
    BY <1>5, <1>6, <2>1, <1>2 DEF Larger
  <2>3. CASE i = M - 1
    <3>1. x = M - 2
      BY <1>2, <1>6, <2>2, <2>3
    <3>2. M \in Int /\ ~ Uneven(t, y)
      BY <1>2, <1>6, <2>2, <2>3
    <3>3. Larger(i, x) = M - 1
      BY <2>3, <3>1, <3>2 DEF Larger
    <3>4. 1 + Larger(i, x) = M
      BY <3>2, <3>3
    <3>5. Larger(o, M) = M
      BY <2>2, <3>2 DEF Larger
    <3> QED BY <2>2, <2>3, <3>1, <3>2, <3>4, <3>5
  <2>4. CASE i = M - 2
    <3>1. x = M - 2 \/ x = M - 3
      BY <1>2
    <3> QED BY <1>2, <1>5, <2>2, <2>4, <3>1 DEF Larger
  <2> QED BY <2>2, <2>3, <2>4
<1>23. Bal(u, r)
  <2>1. r \in Nodes(u)
    BY <1>16
  <2> QED BY <1>16, <1>21, <1>22, <2>1, BalSide
<1>24. Bal(u, y) /\ (Uneven(u, y) <=> o # 1 + Larger(i, x))
  <2>1. y \in Nodes(u)
    BY <1>3, <1>16
  <2> QED BY <1>16, <1>21, <1>22, <2>1, BalSide
<1>25. \A n \in Nodes(t) : n # p /\ (n = r \/ Bal(t, n)) => Bal(u, n)
  <2> TAKE n \in Nodes(t)
  <2>1. CASE n \notin {p, r, y}
    <3>1. n \in 0 .. MaxKey /\ n \in Owner(t)
      BY NodeType, ZenonT(20) DEF Owner
    <3>2. n # p /\ n # r /\ n # y /\ n \notin {r, y}
      BY <2>1, Zenon
    <3>3. u.height[n] = t.height[n]
      BY <1>18, <1>19, <3>1, <3>2, Zenon
    <3>4. \A e \in {0, 1} : KidHeight(u, n, e) = KidHeight(u1, n, e)
      BY <1>19, <3>1, <3>2, Zenon
    <3>5. \A e \in {0, 1} : KidHeight(u1, n, e) = KidHeight(t, n, e)
      BY <1>18, <3>1, <3>2, Zenon
    <3> QED BY <3>2, <3>3, <3>4, <3>5 DEF Bal
  <2> QED BY <1>23, <1>24, <2>1
<1>26. Adjusted(t, u, lo, hi, p, s, r)
  <2>1. \A q \in Owner(t) : q \notin Held(t, lo, hi, p, s) => lo1[q] = lo[q] /\ hi1[q] = hi[q]
    BY <1>3, <1>7, RotOutside DEF Placed
  <2> HIDE DEF lo1, hi1
  <2>2. u.kid[p][s] \in Nodes(t)
    BY <1>3, <1>12, <1>16
  <2>3. \A q \in Owner(t), e \in {0, 1} :
          q \notin Held(t, lo, hi, p, s) /\ ~ (q = p /\ e = s) => u.kid[q][e] = t.kid[q][e]
    BY <1>7, <1>12, <1>16, NodeType, ZenonT(30)
  <2>4. \A n \in 0 .. MaxKey : n \notin Held(t, lo, hi, p, s) => u.height[n] = t.height[n]
    BY <1>7, <1>18, <1>19, ZenonT(30)
  <2> QED BY <1>16, <1>17, <1>25, <2>1, <2>2, <2>3, <2>4 DEF Adjusted
<1>27. RootHeight(u, p, s) = 1 + Larger(o, 1 + Larger(i, x)) /\ u.kid[p][s] = y
  BY <1>12, <1>16, <1>21 DEF RootHeight
<1>28. Turns(t, u, p, s, r, d)
  BY <1>22, <1>24, <1>27 DEF Turns, M
<1> QED BY <1>26, <1>28

LEMMA AdjustedTwice ==
  ASSUME NEW t, TreeType(t), NEW lo, NEW hi, Placed(t, lo, hi),
         NEW p \in Owner(t), NEW s \in {0, 1}, NEW d \in {0, 1},
         NEW r \in Nodes(t), r = t.kid[p][s], NEW y, y = t.kid[r][d],
         TooHigh(t, r, d), KidHeight(t, y, 1 - d) = KidHeight(t, y, d) + 1,
         NEW u, u = avl_adjust_balance(t, p, s)
  PROVE  Adjusted(t, u, lo, hi, p, s, r) /\ Turns(t, u, p, s, r, d)
<1> DEFINE M == KidHeight(t, r, d)
           x == KidHeight(t, r, 1 - d)
           o == KidHeight(t, y, d)
           z == t.kid[y][1 - d]
           zr == KidHeight(t, z, 1 - d)
           zd == KidHeight(t, z, d)
           t1 == avl_rotate(t, r, d, 1 - d)
           lo1 == RotLo(lo, y, z, 1 - d)
           hi1 == RotHi(hi, y, z, 1 - d)
           t2 == avl_rotate(t1, p, s, d)
           lo2 == RotLo(lo1, r, z, d)
           hi2 == RotHi(hi1, r, z, d)
<1>0. 1 - d \in {0, 1} /\ 1 - d # d /\ 1 - (1 - d) = d
  OBVIOUS
<1>1. r \in Owner(t) /\ r # 0
  BY NodeType, Zenon DEF Owner
<1>2. M \in Nat /\ x \in Nat /\ (M - x = 2 \/ M - x = 3)
  BY <1>0, <1>1, KidHeightType, Zenon DEF TooHigh
<1>2a. Bal(t, y) /\ \A e \in {0, 1} : t.kid[y][e] # 0 => Bal(t, t.kid[y][e])
  BY Zenon DEF TooHigh
<1>3. y \in Nodes(t) /\ M = t.height[y]
  <2>1. M > 0
    <3> HIDE DEF M, x
    <3> QED BY <1>2
  <2> QED BY <1>1, <2>1, HighKid, ZenonT(20)
<1>4. y \in Owner(t) /\ y # 0
  BY <1>3, NodeType DEF Owner
<1>5. o \in Nat /\ KidHeight(t, y, 1 - d) = o + 1
  BY <1>0, <1>4, KidHeightType, Zenon
<1>6. z \in Nodes(t) /\ t.height[z] = o + 1
  <2>1. KidHeight(t, y, 1 - d) > 0
    BY <1>5
  <2>2. t.kid[y][1 - d] \in Nodes(t) /\ KidHeight(t, y, 1 - d) = t.height[t.kid[y][1 - d]]
    BY <1>0, <1>4, <2>1, HighKid, ZenonT(30)
  <2> QED BY <1>5, <2>2, Zenon
<1>7. z \in Owner(t) /\ z # 0 /\ Bal(t, z)
  BY <1>0, <1>2a, <1>6, NodeType, ZenonT(30) DEF Owner
<1>8. zr \in Nat /\ zd \in Nat
  BY <1>0, <1>7, KidHeightType, Zenon
<1>9. M = o + 2
  <2>1. M = 1 + Larger(o, o + 1)
    BY <1>2a, <1>3, <1>5, BalSide, ZenonT(30)
  <2> QED BY <1>5, <2>1 DEF Larger
<1>10. o + 1 = 1 + Larger(zd, zr) /\ zd - zr \in {-1, 0, 1}
  BY <1>6, <1>7, BalSide, Zenon
<1>11. /\ r \in Held(t, lo, hi, p, s) /\ y \in Held(t, lo, hi, p, s) /\ z \in Held(t, lo, hi, p, s)
       /\ p \notin Held(t, lo, hi, p, s) /\ p # r /\ p # y /\ p # z
  <2>1. r \in Held(t, lo, hi, p, s)
    BY <1>1, KidsHeld
  <2>2. y \in Held(t, lo, hi, p, s)
    <3>1. \A m \in Held(t, lo, hi, p, s), e \in {0, 1} : t.kid[m][e] \in Held(t, lo, hi, p, s) \cup {0}
      BY KidsHeld
    <3>2. t.kid[r][d] \in Held(t, lo, hi, p, s) \cup {0}
      BY <2>1, <3>1
    <3> QED BY <1>4, <3>2
  <2>3. z \in Held(t, lo, hi, p, s)
    <3>1. \A m \in Held(t, lo, hi, p, s), e \in {0, 1} : t.kid[m][e] \in Held(t, lo, hi, p, s) \cup {0}
      BY KidsHeld
    <3>2. t.kid[y][1 - d] \in Held(t, lo, hi, p, s) \cup {0}
      BY <1>0, <2>2, <3>1
    <3> QED BY <1>7, <3>2, Zenon
  <2> QED BY <2>1, <2>2, <2>3, NotHeld
<1>12. r # y /\ r # z /\ y # z
  <2>1. y \in Held(t, lo, hi, r, d)
    BY <1>1, <1>4, KidsHeld, ZenonT(30)
  <2>2. z \in Held(t, lo, hi, r, d)
    <3>1. \A m \in Held(t, lo, hi, r, d), e \in {0, 1} : t.kid[m][e] \in Held(t, lo, hi, r, d) \cup {0}
      BY <1>1, KidsHeld
    <3>2. t.kid[y][1 - d] \in Held(t, lo, hi, r, d) \cup {0}
      BY <1>0, <2>1, <3>1, Zenon
    <3> QED BY <1>7, <3>2, Zenon
  <2>3. z \in Held(t, lo, hi, y, 1 - d)
    BY <1>0, <1>4, <1>7, KidsHeld, ZenonT(30)
  <2> QED BY <1>0, <1>1, <1>4, <2>1, <2>2, <2>3, NotHeld
<1> HIDE DEF z
<1>13. z = t.kid[y][1 - d]
  BY DEF z
<1>14. TreeType(t1) /\ Rotated(t, t1, r, d, 1 - d)
  BY <1>0, <1>1, <1>3, <1>6, <1>12, <1>13, RotateIs, Zenon
<1>20. t2 = Turned(t, p, s, r, d)
  BY DEF Turned
<1> HIDE DEF t1
<1>15. Placed(t1, lo1, hi1)
  <2>1. ASSUME NEW e \in {0, 1}, e = 1 - d
        PROVE  Placed(t1, RotLo(lo, y, z, e), RotHi(hi, y, z, e))
    <3>1. z = t.kid[y][e] /\ Rotated(t, t1, r, d, e) /\ TreeType(t1)
      BY <1>13, <1>14, <2>1
    <3>2. r \in Owner(t) /\ y \in Nodes(t) /\ z \in Nodes(t) /\ y = t.kid[r][d]
      BY <1>1, <1>3, <1>6, Zenon
    <3> QED BY <2>1, <3>1, <3>2, RotatePlaced
  <2> QED BY <1>0, <2>1
<1>16. RotatedHeights(t, t1, r, d, y, z, 1 - d)
  BY <1>0, <1>1, <1>3, <1>6, <1>12, <1>13, <1>14, RotateHeights, ZenonT(30)
<1>17. Nodes(t1) = Nodes(t) /\ Owner(t1) = Owner(t) /\ t1.kid[r][d] = z /\ t1.value = t.value
       /\ \A q \in 0 .. MapO, e \in {0, 1} :
            ~ (q = r /\ e = d) /\ q # y /\ q # z => t1.kid[q][e] = t.kid[q][e]
  <2>1. /\ t1.kid[r][d] = t.kid[y][1 - d] /\ t1.value = t.value
        /\ \A q \in 0 .. MapO, e \in {0, 1} :
            ~ (q = r /\ e = d) /\ ~ (q = y /\ e = 1 - d) /\ ~ (q = t.kid[y][1 - d] /\ e = 1 - (1 - d))
              => t1.kid[q][e] = t.kid[q][e]
    BY <1>14, ZenonT(30) DEF Rotated
  <2>2. Nodes(t1) = Nodes(t)
    BY <2>1, Zenon DEF Nodes
  <2> QED BY <1>13, <2>1, <2>2, ZenonT(30) DEF Owner
<1>18. p \in 0 .. MapO /\ r \in 0 .. MaxKey /\ y \in 0 .. MaxKey /\ z \in 0 .. MaxKey
  BY <1>3, <1>6, NodeType
<1>19. t1.kid[p][s] = r
  BY <1>11, <1>17, <1>18, Zenon
<1>21. TreeType(t2) /\ Rotated(t1, t2, p, s, d)
  BY <1>6, <1>11, <1>12, <1>14, <1>17, <1>19, RotateIs
<1>22. BoundsType(lo1, hi1)
  BY <1>15, Zenon DEF Placed
<1> HIDE DEF lo1, hi1
<1>23. Placed(t2, lo2, hi2)
  BY <1>6, <1>14, <1>15, <1>17, <1>19, <1>21, RotatePlaced
<1>24. RotatedHeights(t1, t2, p, s, r, z, d)
  BY <1>6, <1>11, <1>12, <1>14, <1>15, <1>17, <1>19, <1>21, RotateHeights, Zenon
<1>25. Nodes(t2) = Nodes(t) /\ Owner(t2) = Owner(t) /\ t2.kid[p][s] = z /\ t2.value = t.value
       /\ \A q \in 0 .. MapO, e \in {0, 1} :
            ~ (q = p /\ e = s) /\ q # r /\ q # z => t2.kid[q][e] = t1.kid[q][e]
  BY <1>17, <1>19, <1>21, ZenonT(30) DEF Rotated, Nodes, Owner
<1>26. u = avl_set_height(t2, z)
  <2>1. Turned(t, p, s, r, d).kid[p][s] # 0
    BY <1>7, <1>20, <1>25, Zenon
  <2>2. M - x \in {2, 3}
    BY <1>2, Zenon
  <2>3. t.kid[r][d] \in Nodes(t)
    BY <1>3
  <2>4. avl_adjust_balance(t, p, s)
          = avl_set_height(Turned(t, p, s, r, d), Turned(t, p, s, r, d).kid[p][s])
    BY <2>1, <2>2, <2>3, AdjustTurns
  <2> HIDE DEF t2
  <2> QED BY <1>20, <1>25, <2>4, Zenon
<1> HIDE DEF t2
<1>27. HeightSet(t2, u, z)
  BY <1>6, <1>21, <1>26, SetHeightIs, NodeType
<1>28. SetHeights(t2, u, p, s, z)
  BY <1>6, <1>21, <1>23, <1>25, <1>27, SetHeightsAre
<1>29. TreeType(u) /\ u.kid = t2.kid /\ u.value = t.value /\ Nodes(u) = Nodes(t)
  BY <1>25, <1>27 DEF HeightSet, Nodes
<1>30. Placed(u, lo2, hi2)
  BY <1>23, <1>25, <1>29, SamePlaced, Zenon
<1>31. /\ KidHeight(t1, y, 1 - d) = zd /\ KidHeight(t1, y, d) = o
       /\ KidHeight(t1, z, 1 - d) = zr /\ KidHeight(t1, z, d) = t1.height[y]
       /\ t1.height[y] = 1 + Larger(zd, o)
       /\ \A n \in Owner(t), e \in {0, 1} :
            n \notin {y, z} /\ ~ (n = r /\ e = d) => KidHeight(t1, n, e) = KidHeight(t, n, e)
       /\ \A n \in 0 .. MaxKey : n # y => t1.height[n] = t.height[n]
  BY <1>0, <1>16, ZenonT(30) DEF RotatedHeights
<1>32. /\ KidHeight(t2, r, d) = zr /\ KidHeight(t2, r, 1 - d) = KidHeight(t1, r, 1 - d)
       /\ KidHeight(t2, z, d) = t1.height[y] /\ KidHeight(t2, z, 1 - d) = t2.height[r]
       /\ t2.height[r] = 1 + Larger(zr, KidHeight(t1, r, 1 - d))
       /\ \A n \in Owner(t), e \in {0, 1} :
            n \notin {r, z} /\ ~ (n = p /\ e = s) => KidHeight(t2, n, e) = KidHeight(t1, n, e)
       /\ \A n \in 0 .. MaxKey : n # r => t2.height[n] = t1.height[n]
  BY <1>17, <1>24, <1>31, ZenonT(30) DEF RotatedHeights
<1>33. KidHeight(t1, r, 1 - d) = x
  BY <1>0, <1>1, <1>12, <1>31, Zenon
<1>34. /\ \A m \in Owner(t), e \in {0, 1} :
            ~ (m = p /\ e = s) => KidHeight(u, m, e) = KidHeight(t2, m, e)
       /\ u.height[z] = 1 + Larger(KidHeight(t2, z, d), KidHeight(t2, z, 1 - d))
       /\ \A m \in 0 .. MaxKey : m # z => u.height[m] = t2.height[m]
  BY <1>25, <1>28 DEF SetHeights
<1>35. /\ KidHeight(u, r, d) = zr /\ KidHeight(u, r, 1 - d) = x /\ u.height[r] = 1 + Larger(zr, x)
  BY <1>0, <1>1, <1>11, <1>12, <1>18, <1>32, <1>33, <1>34, ZenonT(30)
<1>36. /\ KidHeight(u, y, d) = o /\ KidHeight(u, y, 1 - d) = zd /\ u.height[y] = 1 + Larger(zd, o)
  <2>1. \A e \in {0, 1} : KidHeight(u, y, e) = KidHeight(t1, y, e)
    BY <1>4, <1>11, <1>12, <1>32, <1>34
  <2>2. u.height[y] = t1.height[y]
    BY <1>12, <1>18, <1>32, <1>34, Zenon
  <2> QED BY <1>0, <1>31, <2>1, <2>2, Zenon
<1>37. /\ KidHeight(u, z, d) = 1 + Larger(zd, o) /\ KidHeight(u, z, 1 - d) = 1 + Larger(zr, x)
       /\ u.height[z] = 1 + Larger(1 + Larger(zd, o), 1 + Larger(zr, x))
  BY <1>0, <1>7, <1>11, <1>31, <1>32, <1>33, <1>34, ZenonT(30)
<1> HIDE DEF M, x, o, zr, zd
<1>38. /\ zr - x \in {-1, 0, 1} /\ o - zd \in {-1, 0, 1} /\ Larger(zd, o) = o /\ Larger(o, zd) = o
       /\ (1 + o) - (1 + Larger(zr, x)) \in {-1, 0, 1}
       /\ 1 + Larger(1 + o, 1 + Larger(zr, x)) = M
  <2>1. (zd = o /\ (zr = o \/ zr = o - 1)) \/ (zr = o /\ zd = o - 1)
    BY <1>5, <1>8, <1>10 DEF Larger
  <2>2. x = o \/ x = o - 1
    <3>1. x \in Int /\ M \in Int /\ o \in Int /\ (M - x = 2 \/ M - x = 3)
      BY <1>2, <1>5
    <3> QED BY <1>9, <3>1
  <2>3. Larger(zd, o) = o /\ Larger(o, zd) = o
    BY <1>5, <1>8, <2>1 DEF Larger
  <2>4. Larger(zr, x) = o \/ Larger(zr, x) = o - 1
    BY <1>5, <2>1, <2>2 DEF Larger
  <2>5. Larger(1 + o, 1 + Larger(zr, x)) = 1 + o
    BY <1>5, <2>4 DEF Larger
  <2> QED BY <1>5, <1>9, <2>1, <2>2, <2>3, <2>4, <2>5
<1>39. Bal(u, r)
  <2>1. r \in Nodes(u)
    BY <1>29
  <2> QED BY <1>29, <1>35, <1>38, <2>1, BalSide
<1>40. Bal(u, y)
  <2>1. y \in Nodes(u)
    BY <1>3, <1>29
  <2> QED BY <1>29, <1>36, <1>38, <2>1, BalSide
<1>41. Bal(u, z)
  <2>1. z \in Nodes(u)
    BY <1>6, <1>29
  <2> QED BY <1>29, <1>37, <1>38, <2>1, BalSide
<1>42. \A n \in Nodes(t) : n # p /\ (n = r \/ Bal(t, n)) => Bal(u, n)
  <2> TAKE n \in Nodes(t)
  <2>1. CASE n \notin {p, r, y, z}
    <3>1. n \in 0 .. MaxKey /\ n \in Owner(t)
      BY NodeType, ZenonT(20) DEF Owner
    <3>2. n # p /\ n # r /\ n # y /\ n # z /\ n \notin {r, z} /\ n \notin {y, z}
      BY <2>1, Zenon
    <3>3. u.height[n] = t.height[n]
      BY <1>31, <1>32, <1>34, <3>1, <3>2, Zenon
    <3>4. \A e \in {0, 1} : KidHeight(u, n, e) = KidHeight(t2, n, e)
      BY <1>34, <3>1, <3>2, Zenon
    <3>5. \A e \in {0, 1} : KidHeight(t2, n, e) = KidHeight(t1, n, e)
      BY <1>32, <3>1, <3>2, Zenon
    <3>6. \A e \in {0, 1} : KidHeight(t1, n, e) = KidHeight(t, n, e)
      BY <1>31, <3>1, <3>2, Zenon
    <3> QED BY <3>2, <3>3, <3>4, <3>5, <3>6 DEF Bal
  <2> QED BY <1>39, <1>40, <1>41, <2>1
<1>43. Adjusted(t, u, lo, hi, p, s, r)
  <2>1. \A q \in Owner(t) : q \notin Held(t, lo, hi, p, s) => lo1[q] = lo[q] /\ hi1[q] = hi[q]
    BY <1>0, <1>3, <1>6, <1>11, RotOutside DEF Placed, lo1, hi1
  <2>2. \A q \in Owner(t) : q \notin Held(t, lo, hi, p, s) => lo2[q] = lo1[q] /\ hi2[q] = hi1[q]
    BY <1>6, <1>11, <1>14, <1>17, <1>22, RotOutside
  <2> HIDE DEF lo2, hi2
  <2>3. u.kid[p][s] \in Nodes(t)
    BY <1>6, <1>25, <1>29
  <2>4. \A q \in Owner(t), e \in {0, 1} :
          q \notin Held(t, lo, hi, p, s) /\ ~ (q = p /\ e = s) => u.kid[q][e] = t.kid[q][e]
    BY <1>11, <1>17, <1>25, <1>29, NodeType
  <2>5. \A n \in 0 .. MaxKey : n \notin Held(t, lo, hi, p, s) => u.height[n] = t.height[n]
    BY <1>11, <1>31, <1>32, <1>34, ZenonT(30)
  <2>6. \A q \in Owner(t) : q \notin Held(t, lo, hi, p, s) => lo2[q] = lo[q] /\ hi2[q] = hi[q]
    BY <2>1, <2>2
  <2> QED BY <1>29, <1>30, <1>42, <2>3, <2>4, <2>5, <2>6 DEF Adjusted
<1>44. RootHeight(u, p, s) = M
  BY <1>25, <1>29, <1>37, <1>38 DEF RootHeight
<1>45. Turns(t, u, p, s, r, d)
  <2>1. M # M + 1
    <3>1. M \in Nat
      BY <1>2, Zenon
    <3> QED BY <3>1
  <2> QED BY <1>44, <2>1 DEF Turns, M
<1> QED BY <1>43, <1>45

LEMMA AdjustIs ==
  ASSUME NEW t, TreeType(t), NEW lo, NEW hi, Placed(t, lo, hi),
         NEW p \in Owner(t), NEW s \in {0, 1}, NEW r \in Nodes(t), r = t.kid[p][s],
         \A n \in Held(t, lo, hi, p, s) : n # r => Bal(t, n),
         NEW d \in {0, 1}, KidHeight(t, r, d) >= KidHeight(t, r, 1 - d),
         \/ KidHeight(t, r, d) - KidHeight(t, r, 1 - d) \in {0, 1, 2}
         \/ KidHeight(t, r, d) - KidHeight(t, r, 1 - d) = 3 /\ Uneven(t, t.kid[r][d]),
         NEW u, u = avl_adjust_balance(t, p, s)
  PROVE  /\ Adjusted(t, u, lo, hi, p, s, r)
         /\ KidHeight(t, r, d) - KidHeight(t, r, 1 - d) \in {0, 1}
              => /\ RootHeight(u, p, s) = 1 + KidHeight(t, r, d)
                 /\ Uneven(t, r) => Uneven(u, u.kid[p][s])
         /\ KidHeight(t, r, d) - KidHeight(t, r, 1 - d) \in {2, 3} => Turns(t, u, p, s, r, d)
<1> DEFINE M == KidHeight(t, r, d)
           x == KidHeight(t, r, 1 - d)
           y == t.kid[r][d]
<1>0. 1 - d \in {0, 1} /\ 1 - d # d
  OBVIOUS
<1>1. r \in Owner(t) /\ r # 0
  BY NodeType DEF Owner
<1>2. M \in Nat /\ x \in Nat
  BY <1>0, <1>1, KidHeightType
<1>3. CASE M - x \in {0, 1}
  <2>1. KidHeight(t, r, 0) - KidHeight(t, r, 1) \in {-1, 0, 1}
    <3>1. 1 - 0 = 1 /\ 1 - 1 = 0
      OBVIOUS
    <3>2. d = 0 \/ d = 1
      OBVIOUS
    <3> QED BY <1>2, <1>3, <3>1, <3>2
  <2>2. Larger(KidHeight(t, r, 0), KidHeight(t, r, 1)) = M
    <3>1. 1 - 0 = 1 /\ 1 - 1 = 0
      OBVIOUS
    <3>2. d = 0 \/ d = 1
      OBVIOUS
    <3> QED BY <1>2, <1>3, <3>1, <3>2 DEF Larger
  <2>3. ~ (M - x \in {2, 3})
    BY <1>3
  <2>4. /\ Adjusted(t, u, lo, hi, p, s, r)
        /\ RootHeight(u, p, s) = 1 + Larger(KidHeight(t, r, 0), KidHeight(t, r, 1))
        /\ Uneven(t, r) => Uneven(u, u.kid[p][s])
    BY <2>1, AdjustedNot
  <2> QED BY <2>2, <2>3, <2>4
<1>4. CASE M - x \in {2, 3}
  <2>1. M > 0
    BY <1>2, <1>4
  <2>2. y \in Nodes(t)
    BY <1>1, <2>1, HighKid
  <2>3. y \in Owner(t) /\ y # 0
    BY <2>2, NodeType DEF Owner
  <2>4. r \in Held(t, lo, hi, p, s)
    BY <1>1, KidsHeld
  <2>5. y \in Held(t, lo, hi, p, s)
    BY <2>3, <2>4, KidsHeld
  <2>6. r \notin Held(t, lo, hi, r, d) /\ y \in Held(t, lo, hi, r, d)
    BY <1>1, <2>3, NotHeld, KidsHeld
  <2>7. Bal(t, y)
    BY <2>5, <2>6
  <2>8. ASSUME NEW e \in {0, 1}, t.kid[y][e] # 0 PROVE Bal(t, t.kid[y][e])
    <3>1. \A m \in Held(t, lo, hi, r, d), f \in {0, 1} : t.kid[m][f] \in Held(t, lo, hi, r, d) \cup {0}
      BY <1>1, KidsHeld
    <3>2. \A m \in Held(t, lo, hi, p, s), f \in {0, 1} : t.kid[m][f] \in Held(t, lo, hi, p, s) \cup {0}
      BY KidsHeld
    <3>3. t.kid[y][e] \in Held(t, lo, hi, r, d)
      BY <2>6, <2>8, <3>1
    <3>4. t.kid[y][e] \in Held(t, lo, hi, p, s)
      BY <2>5, <2>8, <3>2
    <3>5. t.kid[y][e] # r
      BY <2>6, <3>3, Zenon
    <3> QED BY <3>4, <3>5
  <2>9. TooHigh(t, r, d)
    <3>1. ~ (M - x \in {0, 1})
      BY <1>4
    <3>2. M - x = 2 \/ (M - x = 3 /\ Uneven(t, y))
      BY <1>4, <3>1
    <3> QED BY <2>7, <2>8, <3>2, Zenon DEF TooHigh
  <2>10. Adjusted(t, u, lo, hi, p, s, r) /\ Turns(t, u, p, s, r, d)
    <3>1. CASE KidHeight(t, y, 1 - d) = KidHeight(t, y, d) + 1
      BY <2>9, <3>1, AdjustedTwice
    <3>2. CASE KidHeight(t, y, 1 - d) # KidHeight(t, y, d) + 1
      BY <2>9, <3>2, AdjustedOnce
    <3> QED BY <3>1, <3>2
  <2>11. ~ (M - x \in {0, 1})
    BY <1>4
  <2> QED BY <2>10, <2>11
<1>5. M - x \in {0, 1} \/ M - x \in {2, 3}
  OBVIOUS
<1> QED BY <1>3, <1>4, <1>5

-----------------------------------------------------------------------------
(***************************************************************************)
(* The way down                                                            *)
(***************************************************************************)

\* What is held in a kid of m is held where m is.
LEMMA HeldIn ==
  ASSUME NEW t, TreeType(t), NEW lo, NEW hi, Placed(t, lo, hi),
         NEW p \in Owner(t), NEW s \in {0, 1}, NEW m \in Held(t, lo, hi, p, s), NEW e \in {0, 1}
  PROVE  Held(t, lo, hi, m, e) \subseteq Held(t, lo, hi, p, s)
<1>1. m \in Nodes(t) /\ m \in Owner(t)
  BY DEF Held, Owner
<1>2. SlotLo(lo, p, s) <= lo[m] /\ hi[m] <= SlotHi(hi, p, s)
  BY HeldNest
<1>3. lo[m] < m /\ m < hi[m]
  BY <1>1 DEF Placed, Wide
<1>4. /\ \A n \in Owner(t) : n \in Int /\ lo[n] \in Int /\ hi[n] \in Int
      /\ \A n \in Nodes(t) : n \in Int
  BY BoundsAre, NodeType DEF Placed
<1>5. SlotLo(lo, p, s) \in Int /\ SlotHi(hi, p, s) \in Int
  BY <1>4 DEF SlotLo, SlotHi
<1>6. lo[m] <= SlotLo(lo, m, e) /\ SlotHi(hi, m, e) <= hi[m]
      /\ SlotLo(lo, m, e) \in Int /\ SlotHi(hi, m, e) \in Int
  BY <1>1, <1>3, <1>4 DEF SlotLo, SlotHi
<1>7. ASSUME NEW n \in Nodes(t), SlotLo(lo, m, e) < n, n < SlotHi(hi, m, e)
      PROVE  SlotLo(lo, p, s) < n /\ n < SlotHi(hi, p, s)
  <2>1. n \in Int /\ lo[m] \in Int /\ hi[m] \in Int
    BY <1>1, <1>4
  <2> HIDE DEF SlotLo, SlotHi
  <2> QED BY <1>2, <1>5, <1>6, <1>7, <2>1
<1> QED BY <1>7 DEF Held

\* the kid of the node P[j] on the way to k, and where it is
Way(k, P, j) == Side(k, P[j])

\* P is the way from the map down to the place of the key k.
PathOK(t, lo, hi, k, P) ==
  /\ P \in Seq(Owner(t)) /\ Len(P) > 0 /\ P[1] = MapO
  /\ \A j \in 1 .. Len(P) : P[j] # k /\ lo[P[j]] < k /\ k < hi[P[j]]
  /\ \A j \in 1 .. Len(P) - 1 : P[j + 1] = t.kid[P[j]][Way(k, P, j)]
  /\ \A j, l \in 1 .. Len(P) : j < l => P[l] \in Held(t, lo, hi, P[j], Way(k, P, j))

LEMMA WayType == \A k, P, j : Way(k, P, j) \in {0, 1} /\ 1 - Way(k, P, j) \in {0, 1}
  BY DEF Way, Side

LEMMA PathElements ==
  ASSUME NEW t, NEW lo, NEW hi, NEW k, NEW P, PathOK(t, lo, hi, k, P)
  PROVE  /\ Len(P) \in Nat /\ Len(P) > 0 /\ Len(P) \in 1 .. Len(P) /\ 1 \in 1 .. Len(P)
         /\ \A j \in 1 .. Len(P) : P[j] \in Owner(t)
  BY DEF PathOK

\* A path goes on to what was there.
LEMMA PathOutside ==
  ASSUME NEW t, TreeType(t), NEW lo, NEW hi, Placed(t, lo, hi),
         NEW k, NEW P, PathOK(t, lo, hi, k, P)
  PROVE  \A j, l \in 1 .. Len(P) : j <= l =>
           /\ Held(t, lo, hi, P[l], Way(k, P, l)) \subseteq Held(t, lo, hi, P[j], Way(k, P, j))
           /\ P[j] \notin Held(t, lo, hi, P[l], Way(k, P, l))
           /\ t.kid[P[j]][1 - Way(k, P, j)] \notin Held(t, lo, hi, P[l], Way(k, P, l))
           /\ j < l => P[j] # P[l] /\ P[l] \in Nodes(t)
<1> SUFFICES ASSUME NEW j \in 1 .. Len(P), NEW l \in 1 .. Len(P), j <= l
             PROVE  /\ Held(t, lo, hi, P[l], Way(k, P, l)) \subseteq Held(t, lo, hi, P[j], Way(k, P, j))
                    /\ P[j] \notin Held(t, lo, hi, P[l], Way(k, P, l))
                    /\ t.kid[P[j]][1 - Way(k, P, j)] \notin Held(t, lo, hi, P[l], Way(k, P, l))
                    /\ j < l => P[j] # P[l] /\ P[l] \in Nodes(t)
  OBVIOUS
<1> DEFINE a == P[j]
           s == Way(k, P, j)
           b == P[l]
           e == Way(k, P, l)
<1>1. a \in Owner(t) /\ b \in Owner(t) /\ s \in {0, 1} /\ e \in {0, 1} /\ 1 - s \in {0, 1}
  BY PathElements, WayType
<1>2. j < l => b \in Held(t, lo, hi, a, s)
  BY DEF PathOK
<1>3. j < l \/ (a = b /\ s = e)
  OBVIOUS
<1> HIDE DEF a, b, s, e
<1>4. Held(t, lo, hi, b, e) \subseteq Held(t, lo, hi, a, s)
  BY <1>1, <1>2, <1>3, HeldIn
<1>5. a \notin Held(t, lo, hi, a, s)
  BY <1>1, NotHeld
<1>6. t.kid[a][1 - s] \notin Held(t, lo, hi, a, s)
  <2> DEFINE c == t.kid[a][1 - s]
  <2> SUFFICES ASSUME c \in Held(t, lo, hi, a, s) PROVE FALSE
    OBVIOUS
  <2>1. c # 0 /\ c \in Int /\ SlotLo(lo, a, s) < c /\ c < SlotHi(hi, a, s)
    BY NodeType DEF Held
  <2>2. c \in Held(t, lo, hi, a, 1 - s)
    BY <1>1, <2>1, KidsHeld
  <2>3. SlotLo(lo, a, 1 - s) < c /\ c < SlotHi(hi, a, 1 - s)
    BY <2>2 DEF Held
  <2>4. a \in Int
    BY <1>1, NodeType
  <2>5. 1 - 0 = 1 /\ 1 - 1 = 0
    OBVIOUS
  <2> HIDE DEF c
  <2>6. CASE s = 0
    BY <2>1, <2>3, <2>4, <2>5, <2>6 DEF SlotLo, SlotHi
  <2>7. CASE s = 1
    BY <2>1, <2>3, <2>4, <2>5, <2>7 DEF SlotLo, SlotHi
  <2> QED BY <1>1, <2>6, <2>7
<1>7. j < l => b \in Nodes(t) /\ a # b
  BY <1>2, <1>5 DEF Held
<1> QED BY <1>4, <1>5, <1>6, <1>7 DEF a, b, s, e

\* A way in t is one in u, if u is the same around it.
LEMMA PathKept ==
  ASSUME NEW t, NEW lo, NEW hi, NEW u, NEW lo2, NEW hi2, NEW k, NEW P, PathOK(t, lo, hi, k, P),
         \A j \in 1 .. Len(P) : P[j] \in Owner(u) /\ lo2[P[j]] = lo[P[j]] /\ hi2[P[j]] = hi[P[j]],
         \A j \in 1 .. Len(P) - 1 : u.kid[P[j]][Way(k, P, j)] = t.kid[P[j]][Way(k, P, j)],
         MapO \notin Nodes(t)
  PROVE  PathOK(u, lo2, hi2, k, P)
<1>1. P \in Seq(Owner(u))
  <2>1. P \in Seq(Owner(t))
    BY DEF PathOK
  <2> QED BY <2>1
<1>2. ASSUME NEW j \in 1 .. Len(P), NEW l \in 1 .. Len(P), j < l
      PROVE  P[l] \in Held(u, lo2, hi2, P[j], Way(k, P, j))
  <2>1. P[l] \in Held(t, lo, hi, P[j], Way(k, P, j))
    BY <1>2 DEF PathOK
  <2>2. P[l] \in Nodes(u)
    BY <2>1 DEF Held, Owner
  <2> QED BY <2>1, <2>2 DEF Held, SlotLo, SlotHi
<1> QED BY <1>1, <1>2 DEF PathOK

\* Q is the path P without its last node.
AsOn(P, k, Q) ==
  /\ Len(Q) = Len(P) - 1
  /\ \A j \in 1 .. Len(P) - 1 : Q[j] = P[j] /\ Way(k, Q, j) = Way(k, P, j)

LEMMA PathPopped ==
  ASSUME NEW t, NEW lo, NEW hi, NEW k, NEW P, PathOK(t, lo, hi, k, P), Len(P) > 1
  PROVE  PathOK(t, lo, hi, k, SubSeq(P, 1, Len(P) - 1))
         /\ AsOn(P, k, SubSeq(P, 1, Len(P) - 1))
<1> DEFINE Q == SubSeq(P, 1, Len(P) - 1)
<1>1. P \in Seq(Owner(t)) /\ Len(P) \in Nat
  BY DEF PathOK
<1>2. Q \in Seq(Owner(t)) /\ Len(Q) = Len(P) - 1 /\ \A j \in 1 .. Len(P) - 1 : Q[j] = P[j]
  BY <1>1
<1> HIDE DEF Q
<1>3. \A j \in 1 .. Len(P) - 1 : Way(k, Q, j) = Way(k, P, j)
  BY <1>2 DEF Way
<1>4. 1 .. Len(Q) \subseteq 1 .. Len(P) /\ 1 .. Len(Q) - 1 \subseteq 1 .. Len(P) - 1
      /\ 1 .. Len(Q) = 1 .. Len(P) - 1 /\ Len(Q) > 0 /\ 1 \in 1 .. Len(P) - 1
  BY <1>1, <1>2
<1>5. \A j \in 1 .. Len(Q) - 1 : j + 1 \in 1 .. Len(P) - 1
  BY <1>1, <1>2
<1>6. /\ Q[1] = MapO
      /\ \A j \in 1 .. Len(Q) : Q[j] # k /\ lo[Q[j]] < k /\ k < hi[Q[j]]
  BY <1>2, <1>4 DEF PathOK
<1>7. \A j \in 1 .. Len(Q) - 1 : Q[j + 1] = t.kid[Q[j]][Way(k, Q, j)]
  BY <1>2, <1>3, <1>4, <1>5 DEF PathOK
<1>8. \A j, l \in 1 .. Len(Q) : j < l => Q[l] \in Held(t, lo, hi, Q[j], Way(k, Q, j))
  BY <1>2, <1>3, <1>4 DEF PathOK
<1>9. PathOK(t, lo, hi, k, Q)
  BY <1>2, <1>4, <1>6, <1>7, <1>8 DEF PathOK
<1> QED BY <1>2, <1>3, <1>9 DEF Q, AsOn

LEMMA PathPushed ==
  ASSUME NEW t, TreeType(t), NEW lo, NEW hi, Placed(t, lo, hi), NEW k \in Key,
         NEW P, PathOK(t, lo, hi, k, P), NEW c, c = t.kid[P[Len(P)]][Way(k, P, Len(P))],
         c # 0, c # k
  PROVE  /\ PathOK(t, lo, hi, k, Append(P, c))
         /\ Len(Append(P, c)) = Len(P) + 1 /\ Append(P, c)[Len(P) + 1] = c
         /\ \A j \in 1 .. Len(P) : Append(P, c)[j] = P[j]
                                   /\ Way(k, Append(P, c), j) = Way(k, P, j)
<1> DEFINE Q == Append(P, c)
           p == P[Len(P)]
           s == Way(k, P, Len(P))
<1>1. P \in Seq(Owner(t)) /\ Len(P) \in Nat /\ Len(P) > 0 /\ Len(P) \in 1 .. Len(P) /\ 1 \in 1 .. Len(P)
  BY DEF PathOK
<1>2. p \in Owner(t) /\ s \in {0, 1} /\ p # k /\ lo[p] < k /\ k < hi[p]
  BY <1>1, WayType, PathElements DEF PathOK
<1>3. s = IF k > p THEN 1 ELSE 0
  BY DEF Way, Side
<1>4. KidAt(t, lo, hi, p, s, c)
  BY <1>2, KidPlace
<1>5. c \in Held(t, lo, hi, p, s)
  BY <1>2, KidsHeld
<1> HIDE DEF p, s
<1>6. c \in Owner(t)
  BY <1>4 DEF KidAt
<1>7. Q \in Seq(Owner(t)) /\ Len(Q) = Len(P) + 1 /\ Q[Len(P) + 1] = c /\ \A j \in 1 .. Len(P) : Q[j] = P[j]
  BY <1>1, <1>6
<1> HIDE DEF Q
<1>8. \A j \in 1 .. Len(P) : Way(k, Q, j) = Way(k, P, j)
  BY <1>7 DEF Way
<1>9. lo[c] < k /\ k < hi[c]
  <2>1. k \in Int /\ p \in Int
    BY <1>2, Constants, NodeType
  <2>2. CASE k > p
    BY <1>2, <1>3, <1>4, <2>2 DEF KidAt
  <2>3. CASE ~ (k > p)
    <3>1. k < p
      BY <1>2, <2>1, <2>3
    <3> QED BY <1>2, <1>3, <1>4, <2>3, <3>1 DEF KidAt
  <2> QED BY <2>2, <2>3
<1>10. \A j \in 1 .. Len(Q) : j \in 1 .. Len(P) \/ j = Len(P) + 1
  BY <1>1, <1>7
<1>11. \A j \in 1 .. Len(Q) : Q[j] # k /\ lo[Q[j]] < k /\ k < hi[Q[j]]
  BY <1>7, <1>9, <1>10 DEF PathOK
<1>12. \A j \in 1 .. Len(Q) - 1 : Q[j + 1] = t.kid[Q[j]][Way(k, Q, j)]
  <2> TAKE j \in 1 .. Len(Q) - 1
  <2>1. j \in 1 .. Len(P)
    BY <1>1, <1>7
  <2>2. CASE j = Len(P)
    BY <1>7, <1>8, <2>1, <2>2 DEF p, s
  <2>3. CASE j # Len(P)
    <3>1. j \in 1 .. Len(P) - 1 /\ j + 1 \in 1 .. Len(P)
      BY <1>1, <2>1, <2>3
    <3>2. P[j + 1] = t.kid[P[j]][Way(k, P, j)]
      BY <3>1 DEF PathOK
    <3> QED BY <1>7, <1>8, <2>1, <3>1, <3>2
  <2> QED BY <2>2, <2>3
<1>13. ASSUME NEW j \in 1 .. Len(Q), NEW l \in 1 .. Len(Q), j < l
       PROVE  Q[l] \in Held(t, lo, hi, Q[j], Way(k, Q, j))
  <2>1. j \in 1 .. Len(P)
    BY <1>1, <1>7, <1>13
  <2>2. CASE l \in 1 .. Len(P)
    <3>1. P[l] \in Held(t, lo, hi, P[j], Way(k, P, j))
      BY <1>13, <2>1, <2>2 DEF PathOK
    <3> QED BY <1>7, <1>8, <2>1, <2>2, <3>1
  <2>3. CASE l = Len(P) + 1
    <3>1. j <= Len(P)
      BY <2>1, <1>1
    <3>2. Held(t, lo, hi, p, s) \subseteq Held(t, lo, hi, P[j], Way(k, P, j))
      BY <1>1, <2>1, <3>1, PathOutside DEF p, s
    <3> QED BY <1>5, <1>7, <1>8, <2>1, <2>3, <3>2
  <2> QED BY <1>10, <2>2, <2>3
<1>14. Len(Q) > 0 /\ Q[1] = MapO
  BY <1>1, <1>7 DEF PathOK
<1>15. PathOK(t, lo, hi, k, Q)
  BY <1>7, <1>11, <1>12, <1>13, <1>14 DEF PathOK
<1> QED BY <1>7, <1>8, <1>15 DEF Q

LEMMA PathStarts ==
  ASSUME NEW t, TreeType(t), NEW lo, NEW hi, Placed(t, lo, hi), NEW k \in Key
  PROVE  PathOK(t, lo, hi, k, <<MapO>>)
<1> DEFINE Q == <<MapO>>
<1>1. MapO \in Owner(t)
  BY DEF Owner
<1>2. Q \in Seq(Owner(t)) /\ Len(Q) = 1 /\ Q[1] = MapO
  BY <1>1
<1> HIDE DEF Q
<1>3. 0 < k /\ k < MapO /\ MapO < Top /\ k \in Int /\ MapO \in Int /\ Top \in Int
  BY Constants DEF Top
<1>4. lo[MapO] < k /\ k < hi[MapO] /\ MapO # k
  BY <1>3 DEF Placed, Wide
<1>5. /\ \A j \in 1 .. Len(Q) : j = 1
      /\ 1 .. Len(Q) - 1 = {}
      /\ \A j, l \in 1 .. Len(Q) : ~ (j < l)
  BY <1>2
<1>6. PathOK(t, lo, hi, k, Q)
  BY <1>2, <1>4, <1>5 DEF PathOK
<1> QED BY <1>6 DEF Q

-----------------------------------------------------------------------------
(***************************************************************************)
(* The heights on the way up.  E[j] is the height that the kid on the way  *)
(* had below P[j] when its height was stored last.                         *)
(***************************************************************************)

\* The heights of the kid of P[j] beside the way, and on the way.
Beside(t, k, P, j) == KidHeight(t, P[j], 1 - Way(k, P, j))
Below(t, k, P, j)  == KidHeight(t, P[j], Way(k, P, j))

\* P[j] was balanced when the kid on the way had the height E[j].
Level(t, k, P, j, E, U) ==
  /\ t.height[P[j]] = E[j - 1]
  /\ E[j - 1] = 1 + Larger(E[j], Beside(t, k, P, j))
  /\ E[j] - Beside(t, k, P, j) \in {-1, 0, 1}
  /\ j - 1 \notin U

\* P[j] was rotated above the node that is erased, and has the height that it
\* had below it.
Raised(t, k, P, j, E, U) ==
  LET h == t.height[P[j]]
      x == Beside(t, k, P, j)
  IN /\ E[j - 1] = h + 1
     /\ x = h - 1 \/ x = h - 2
     /\ \/ E[j] = h + 1 /\ j \in U /\ j - 1 \notin U
        \/ E[j] = h
        \/ E[j] = h - 1 /\ x = h - 1

\* On the way back from an insertion every node is Level; from a deletion those
\* that avl_delete rotated up are Raised.
Levels(t, k, P, E, U) == \A j \in 2 .. Len(P) : Level(t, k, P, j, E, U)
Chain(t, k, P, E, U) ==
  \A j \in 2 .. Len(P) : Level(t, k, P, j, E, U) \/ Raised(t, k, P, j, E, U)

\* the nodes apart from the way are balanced
OffPath(t, P, S) ==
  \A n \in Nodes(t) : n \notin S /\ (\A j \in 1 .. Len(P) : P[j] # n) => Bal(t, n)

\* t is an AVL tree, as far as heights go.
Even(t) == \A n \in Nodes(t) : Bal(t, n)

\* The subtree at the end of P may be one higher, or lower, than it was.
Grown(t, k, P, E, U) ==
  LET l == Len(P)
  IN /\ Below(t, k, P, l) = E[l] \/ Below(t, k, P, l) = E[l] + 1
     /\ Levels(t, k, P, E, U)

\* The same for a deletion; where U has it, the subtree is uneven if not lower.
Shrunk(t, k, P, E, U) ==
  LET l == Len(P)
      b == Below(t, k, P, l)
  IN /\ b = E[l] \/ b = E[l] - 1
     /\ b = E[l] /\ l \in U => Uneven(t, t.kid[P[l]][Way(k, P, l)])
     /\ Chain(t, k, P, E, U)

\* What is known when the call for the kid at the end of P has returned.
Rising(t, k, P) ==
  /\ OffPath(t, P, {})
  /\ \E E \in [Nat -> Int], U \in SUBSET Nat : Grown(t, k, P, E, U) \/ Shrunk(t, k, P, E, U)

\* The node of k is at the end of P, above nodes that are balanced.
Sinking(t, k, P) ==
  /\ t.kid[P[Len(P)]][Way(k, P, Len(P))] = k
  /\ OffPath(t, P, {k})
  /\ t.height[k] = 1 + Larger(KidHeight(t, k, 0), KidHeight(t, k, 1))
  /\ KidHeight(t, k, 0) - KidHeight(t, k, 1) \in -2 .. 2
  /\ \E E \in [Nat -> Int], U \in SUBSET Nat :
       /\ E[Len(P)] = t.height[k]
       /\ Len(P) \in U <=> Uneven(t, k)
       /\ Chain(t, k, P, E, U)

-----------------------------------------------------------------------------
\* the height R of the root that is left when the kid on the way has the height
\* c and the other one x
Outcome(c, x, R, t, n, u, m) ==
  /\ c - x \in {-1, 0, 1} => R = 1 + Larger(c, x) /\ (c # x => Uneven(u, m))
  /\ c - x \in {2, 3} => /\ R = c \/ R = c + 1
                         /\ Uneven(t, n) => R = c
                         /\ R = c + 1 => Uneven(u, m)
  /\ x - c = 2 => /\ R = x \/ R = x + 1
                  /\ R = x + 1 => Uneven(u, m)

LEMMA GrownStep ==
  ASSUME NEW f \in Int, NEW c \in Int, NEW x \in Int, NEW g, NEW R, NEW t, NEW n, NEW u, NEW m,
         c = f \/ c = f + 1, g = 1 + Larger(f, x), f - x \in {-1, 0, 1},
         Outcome(c, x, R, t, n, u, m)
  PROVE  R = g \/ R = g + 1
<1>1. CASE c - x \in {-1, 0, 1}
  BY <1>1 DEF Outcome, Larger
<1>2. CASE c - x = 2
  <2>1. g = c /\ c - x \in {2, 3}
    BY <1>2 DEF Larger
  <2> QED BY <2>1 DEF Outcome
<1>3. c - x \in {-1, 0, 1} \/ c - x = 2
  OBVIOUS
<1> QED BY <1>1, <1>2, <1>3

LEMMA LevelStep ==
  ASSUME NEW f \in Int, NEW c \in Int, NEW x \in Int, NEW g, NEW R, NEW t, NEW n, NEW u, NEW m,
         c = f \/ c = f - 1, g = 1 + Larger(f, x), f - x \in {-1, 0, 1},
         Outcome(c, x, R, t, n, u, m)
  PROVE  R = g \/ R = g - 1
<1>1. CASE c - x \in {-1, 0, 1}
  BY <1>1 DEF Outcome, Larger
<1>2. CASE x - c = 2
  <2>1. g = x + 1
    BY <1>2 DEF Larger
  <2> QED BY <1>2, <2>1 DEF Outcome
<1>3. c - x \in {-1, 0, 1} \/ x - c = 2
  OBVIOUS
<1> QED BY <1>1, <1>2, <1>3

RaisedGap(f, h, x, g, j, U) ==
  /\ g = h + 1
  /\ x = h - 1 \/ x = h - 2
  /\ \/ f = h + 1 /\ j \in U /\ j - 1 \notin U
     \/ f = h
     \/ f = h - 1 /\ x = h - 1

RaisedOutcome(g, R, u, m, j, U) ==
  /\ R = g \/ R = g - 1
  /\ R = g /\ j - 1 \in U => Uneven(u, m)

LEMMA RaisedStep ==
  ASSUME NEW f \in Int, NEW c \in Int, NEW x \in Int, NEW h \in Int, NEW g, NEW R,
         NEW t, NEW n, NEW u, NEW m, NEW U, NEW j \in Int,
         c = f \/ c = f - 1, c = f /\ j \in U => Uneven(t, n),
         RaisedGap(f, h, x, g, j, U), Outcome(c, x, R, t, n, u, m)
  PROVE  RaisedOutcome(g, R, u, m, j, U)
<1>0. /\ g = h + 1
      /\ x = h - 1 \/ x = h - 2
      /\ \/ f = h + 1 /\ j \in U /\ j - 1 \notin U
         \/ f = h
         \/ f = h - 1 /\ x = h - 1
  BY DEF RaisedGap
<1> SUFFICES /\ R = g \/ R = g - 1
             /\ R = g /\ j - 1 \in U => Uneven(u, m)
  BY DEF RaisedOutcome
<1>1. CASE f = h + 1 /\ c = f /\ j \in U /\ j - 1 \notin U
  <2>1. Uneven(t, n) /\ c - x \in {2, 3}
    BY <1>0, <1>1
  <2> QED BY <1>0, <1>1, <2>1 DEF Outcome
<1>2. CASE c = h /\ j - 1 \notin U
  <2>1. CASE x = h - 1
    <3>1. c - x \in {-1, 0, 1} /\ 1 + Larger(c, x) = g
      BY <1>0, <1>2, <2>1 DEF Larger
    <3> QED BY <1>0, <1>2, <3>1 DEF Outcome
  <2>2. CASE x = h - 2
    <3>1. c - x \in {2, 3}
      BY <1>0, <1>2, <2>2
    <3> QED BY <1>0, <1>2, <3>1 DEF Outcome
  <2> QED BY <1>0, <2>1, <2>2
<1>3. CASE c = h /\ f = h
  <2>1. CASE x = h - 1
    <3>1. c - x \in {-1, 0, 1} /\ 1 + Larger(c, x) = g /\ c # x
      BY <1>0, <1>3, <2>1 DEF Larger
    <3> QED BY <1>0, <3>1 DEF Outcome
  <2>2. CASE x = h - 2
    <3>1. c - x \in {2, 3}
      BY <1>0, <1>3, <2>2
    <3> QED BY <1>0, <1>3, <3>1 DEF Outcome
  <2> QED BY <1>0, <2>1, <2>2
<1>4. CASE c = h - 1
  <2>1. c - x \in {-1, 0, 1} /\ 1 + Larger(c, x) = h /\ h # g
    BY <1>0, <1>4 DEF Larger
  <2> QED BY <1>0, <2>1 DEF Outcome
<1>5. CASE c = h - 2 /\ x = h - 1
  <2>1. c - x \in {-1, 0, 1} /\ 1 + Larger(c, x) = h /\ h # g
    BY <1>0, <1>5 DEF Larger
  <2> QED BY <1>0, <2>1 DEF Outcome
<1> QED BY <1>0, <1>1, <1>2, <1>3, <1>4, <1>5

LEMMA EvenLevels ==
  ASSUME NEW t, TreeType(t), NEW lo, NEW hi, Placed(t, lo, hi), Even(t),
         NEW k, NEW P, PathOK(t, lo, hi, k, P)
  PROVE  \E E \in [Nat -> Int] : /\ E[Len(P)] = Below(t, k, P, Len(P))
                                 /\ \A U \in SUBSET {Len(P)} : Levels(t, k, P, E, U)
<1> DEFINE E == [j \in Nat |-> IF j \in 1 .. Len(P) THEN Below(t, k, P, j) ELSE 0]
<1>1. Len(P) \in Nat /\ Len(P) \in 1 .. Len(P)
  BY PathElements
<1>2. \A j \in 1 .. Len(P) : Below(t, k, P, j) \in Int /\ Beside(t, k, P, j) \in Int
  <2> TAKE j \in 1 .. Len(P)
  <2>1. P[j] \in Owner(t) /\ Way(k, P, j) \in {0, 1} /\ 1 - Way(k, P, j) \in {0, 1}
    BY PathElements, WayType
  <2> QED BY <2>1, KidHeightType DEF Below, Beside
<1>3. E \in [Nat -> Int]
  BY <1>2
<1>4. \A j \in 1 .. Len(P) : j \in Nat /\ E[j] = Below(t, k, P, j)
  BY <1>1
<1> HIDE DEF E
<1>5. ASSUME NEW U \in SUBSET {Len(P)}, NEW j \in 2 .. Len(P)
      PROVE  Level(t, k, P, j, E, U)
  <2>1. j \in 1 .. Len(P) /\ j - 1 \in 1 .. Len(P) /\ j - 1 # Len(P) /\ (j - 1) + 1 = j
        /\ j - 1 < j /\ j - 1 <= j /\ j - 1 \in 1 .. Len(P) - 1
    BY <1>1
  <2>2. P[j] \in Nodes(t)
    BY <2>1, PathOutside
  <2>3. P[j] = t.kid[P[j - 1]][Way(k, P, j - 1)]
    <3>1. P[(j - 1) + 1] = t.kid[P[j - 1]][Way(k, P, j - 1)]
      BY <2>1 DEF PathOK
    <3> QED BY <2>1, <3>1
  <2>4. t.height[P[j]] = E[j - 1]
    BY <1>4, <2>1, <2>3 DEF Below, KidHeight
  <2>5. Bal(t, P[j])
    BY <2>2 DEF Even
  <2>6. Way(k, P, j) \in {0, 1}
    BY WayType
  <2>7. /\ t.height[P[j]] = 1 + Larger(Below(t, k, P, j), Beside(t, k, P, j))
        /\ Below(t, k, P, j) - Beside(t, k, P, j) \in {-1, 0, 1}
    BY <2>2, <2>5, <2>6, BalSide DEF Below, Beside
  <2> QED BY <1>4, <2>1, <2>4, <2>7 DEF Level
<1>6. \A U \in SUBSET {Len(P)} : Levels(t, k, P, E, U)
  BY <1>5 DEF Levels
<1> QED BY <1>1, <1>3, <1>4, <1>6

\* A frame is the same when the heights around it are.
LEMMA FrameKept ==
  ASSUME NEW t, NEW u, NEW k, NEW P, NEW Q, NEW j, NEW E, NEW U,
         Q[j] = P[j], u.height[P[j]] = t.height[P[j]], Beside(u, k, Q, j) = Beside(t, k, P, j)
  PROVE  /\ Level(t, k, P, j, E, U) => Level(u, k, Q, j, E, U)
         /\ Raised(t, k, P, j, E, U) => Raised(u, k, Q, j, E, U)
  BY DEF Level, Raised

\* what AdjustIs says about the root that is left
LEMMA OutcomeIs ==
  ASSUME NEW t, TreeType(t), NEW lo, NEW hi, Placed(t, lo, hi),
         NEW p \in Owner(t), NEW s \in {0, 1}, NEW r \in Nodes(t), r = t.kid[p][s],
         \A n \in Held(t, lo, hi, p, s) : n # r => Bal(t, n),
         NEW e \in {0, 1},
         \/ KidHeight(t, r, e) - KidHeight(t, r, 1 - e) \in {-2, -1, 0, 1, 2}
         \/ KidHeight(t, r, e) - KidHeight(t, r, 1 - e) = 3 /\ Uneven(t, t.kid[r][e]),
         NEW u, u = avl_adjust_balance(t, p, s)
  PROVE  /\ Adjusted(t, u, lo, hi, p, s, r)
         /\ Outcome(KidHeight(t, r, e), KidHeight(t, r, 1 - e), RootHeight(u, p, s),
                    t, t.kid[r][e], u, u.kid[p][s])
<1> DEFINE c == KidHeight(t, r, e)
           x == KidHeight(t, r, 1 - e)
<1>0. 1 - e \in {0, 1} /\ 1 - (1 - e) = e
  OBVIOUS
<1>1. r \in Owner(t)
  BY DEF Owner
<1>2. c \in Int /\ x \in Int
  BY <1>0, <1>1, KidHeightType
<1>3. CASE c >= x
  <2>1. c - x \in {0, 1, 2} \/ (c - x = 3 /\ Uneven(t, t.kid[r][e]))
    BY <1>2, <1>3
  <2>2. /\ Adjusted(t, u, lo, hi, p, s, r)
        /\ c - x \in {0, 1} => /\ RootHeight(u, p, s) = 1 + c
                               /\ Uneven(t, r) => Uneven(u, u.kid[p][s])
        /\ c - x \in {2, 3} => Turns(t, u, p, s, r, e)
    BY <1>3, <2>1, AdjustIs
  <2>3. Uneven(t, r) <=> c # x
    BY BalSide
  <2>4. c - x \in {-1, 0, 1} => RootHeight(u, p, s) = 1 + Larger(c, x) /\ (c # x => Uneven(u, u.kid[p][s]))
    <3>1. SUFFICES ASSUME c - x \in {-1, 0, 1}
                   PROVE  RootHeight(u, p, s) = 1 + Larger(c, x) /\ (c # x => Uneven(u, u.kid[p][s]))
      OBVIOUS
    <3>2. c - x \in {0, 1} /\ Larger(c, x) = c
      BY <1>2, <1>3, <3>1 DEF Larger
    <3> QED BY <2>2, <2>3, <3>2
  <2>5. c - x \in {2, 3} => /\ RootHeight(u, p, s) = c \/ RootHeight(u, p, s) = c + 1
                            /\ Uneven(t, t.kid[r][e]) => RootHeight(u, p, s) = c
                            /\ RootHeight(u, p, s) = c + 1 => Uneven(u, u.kid[p][s])
    BY <2>2 DEF Turns
  <2>6. x - c # 2
    BY <1>2, <1>3
  <2> QED BY <2>2, <2>4, <2>5, <2>6 DEF Outcome
<1>4. CASE ~ (c >= x)
  <2> DEFINE d == 1 - e
  <2>1. x - c \in {0, 1, 2} /\ x >= c /\ ~ (c - x \in {2, 3})
    BY <1>2, <1>4
  <2>2. d \in {0, 1} /\ x = KidHeight(t, r, d) /\ c = KidHeight(t, r, 1 - d)
    BY <1>0
  <2> HIDE DEF d
  <2>3. /\ Adjusted(t, u, lo, hi, p, s, r)
        /\ x - c \in {0, 1} => /\ RootHeight(u, p, s) = 1 + x
                               /\ Uneven(t, r) => Uneven(u, u.kid[p][s])
        /\ x - c \in {2, 3} => Turns(t, u, p, s, r, d)
    BY <2>1, <2>2, AdjustIs
  <2>4. Uneven(t, r) <=> c # x
    BY BalSide
  <2>5. c - x \in {-1, 0, 1} => RootHeight(u, p, s) = 1 + Larger(c, x) /\ (c # x => Uneven(u, u.kid[p][s]))
    <3>1. SUFFICES ASSUME c - x \in {-1, 0, 1}
                   PROVE  RootHeight(u, p, s) = 1 + Larger(c, x) /\ (c # x => Uneven(u, u.kid[p][s]))
      OBVIOUS
    <3>2. x - c \in {0, 1} /\ Larger(c, x) = x
      BY <1>2, <1>4, <3>1 DEF Larger
    <3> QED BY <2>3, <2>4, <3>2
  <2>6. x - c = 2 => /\ RootHeight(u, p, s) = x \/ RootHeight(u, p, s) = x + 1
                     /\ RootHeight(u, p, s) = x + 1 => Uneven(u, u.kid[p][s])
    BY <2>2, <2>3 DEF Turns
  <2> QED BY <2>1, <2>3, <2>5, <2>6 DEF Outcome
<1> QED BY <1>3, <1>4

\* Heights are numbers, also along a path.
LEMMA BelowType ==
  ASSUME NEW t, TreeType(t), NEW lo, NEW hi, NEW k, NEW P, PathOK(t, lo, hi, k, P)
  PROVE  \A j \in 1 .. Len(P) : Below(t, k, P, j) \in Nat /\ Beside(t, k, P, j) \in Nat
<1> TAKE j \in 1 .. Len(P)
<1>1. P[j] \in Owner(t) /\ Way(k, P, j) \in {0, 1} /\ 1 - Way(k, P, j) \in {0, 1}
  BY PathElements, WayType
<1> QED BY <1>1, KidHeightType DEF Below, Beside

LEMMA LastIndex == \A n \in Nat : \A j \in 1 .. n : j \in 1 .. n - 1 \/ j = n
  OBVIOUS

\* A call of avl_insert or avl_delete that goes on after the call for a kid
\* rebalances its root, and leaves the rest to its caller.
LEMMA AdjustRises ==
  ASSUME NEW t, TreeType(t), NEW lo, NEW hi, Placed(t, lo, hi),
         NEW k \in Key, NEW P, PathOK(t, lo, hi, k, P), Len(P) > 1, Rising(t, k, P),
         NEW u, u = avl_adjust_balance(t, P[Len(P) - 1], Way(k, P, Len(P) - 1))
  PROVE  /\ Adjusted(t, u, lo, hi, P[Len(P) - 1], Way(k, P, Len(P) - 1), P[Len(P)])
         /\ Rising(u, k, SubSeq(P, 1, Len(P) - 1))
<1> DEFINE l == Len(P)
           p == P[Len(P) - 1]
           s == Way(k, P, Len(P) - 1)
           r == P[Len(P)]
           e == Way(k, P, Len(P))
           c == Below(t, k, P, Len(P))
           x == Beside(t, k, P, Len(P))
           Q == SubSeq(P, 1, Len(P) - 1)
           R == RootHeight(u, p, s)
           m == u.kid[p][s]
           n == t.kid[r][e]
<1>1. l \in Nat /\ l \in 1 .. l /\ l - 1 \in 1 .. l /\ l - 1 < l /\ l - 1 <= l /\ (l - 1) + 1 = l
      /\ l - 1 \in 1 .. l - 1 /\ l \in 2 .. l /\ l \in Int
  BY PathElements
<1>2. p \in Owner(t) /\ r \in Nodes(t) /\ r \in Owner(t) /\ s \in {0, 1} /\ e \in {0, 1} /\ 1 - e \in {0, 1}
  BY <1>1, PathElements, PathOutside, WayType
<1>3. r = t.kid[p][s]
  <2>1. P[(l - 1) + 1] = t.kid[P[l - 1]][Way(k, P, l - 1)]
    BY <1>1 DEF PathOK
  <2> QED BY <1>1, <2>1
<1>4. c = KidHeight(t, r, e) /\ x = KidHeight(t, r, 1 - e) /\ c \in Int /\ x \in Int
  <2>1. c = KidHeight(t, r, e) /\ x = KidHeight(t, r, 1 - e)
    BY Zenon DEF Below, Beside
  <2>2. c \in Int /\ x \in Int
    <3>1. c \in Nat /\ x \in Nat
      BY <1>1, BelowType, Zenon
    <3> HIDE DEF c, x
    <3> QED BY <3>1
  <2> QED BY <2>1, <2>2, Zenon
<1>5. \A j \in 1 .. l - 1 : /\ j \in 1 .. l /\ j <= l - 1
                            /\ P[j] \in Owner(t) /\ P[j] \notin Held(t, lo, hi, p, s)
                            /\ t.kid[P[j]][1 - Way(k, P, j)] \notin Held(t, lo, hi, p, s)
                            /\ j < l - 1 => P[j] # p
  <2>1. \A j \in 1 .. l - 1 : j \in 1 .. l /\ j <= l - 1
    BY <1>1
  <2> QED BY <1>1, <2>1, PathElements, PathOutside
<1>6. PICK E \in [Nat -> Int], U \in SUBSET Nat : Grown(t, k, P, E, U) \/ Shrunk(t, k, P, E, U)
  BY DEF Rising
<1>7. \A j \in 1 .. l : E[j] \in Int
  BY <1>1
<1>8. \A h \in Held(t, lo, hi, p, s) : h # r => Bal(t, h)
  <2> SUFFICES ASSUME NEW h \in Held(t, lo, hi, p, s), h # r PROVE Bal(t, h)
    OBVIOUS
  <2>1. h \in Nodes(t)
    BY DEF Held
  <2>2. \A j \in 1 .. l : j \in 1 .. l - 1 \/ j = l
    BY <1>1, LastIndex, Zenon
  <2>3. \A j \in 1 .. l : P[j] # h
    BY <1>5, <2>2
  <2> QED BY <2>1, <2>3 DEF Rising, OffPath
<1>9. Level(t, k, P, l, E, U) \/ Raised(t, k, P, l, E, U)
  BY <1>1, <1>6 DEF Grown, Shrunk, Levels, Chain
<1>10. t.height[r] \in Int
  BY <1>2, NodeType
<1>11. Outcome(c, x, R, t, n, u, m) => /\ Grown(t, k, P, E, U) => R = E[l - 1] \/ R = E[l - 1] + 1
                                       /\ Shrunk(t, k, P, E, U) => /\ R = E[l - 1] \/ R = E[l - 1] - 1
                                                                   /\ R = E[l - 1] /\ l - 1 \in U => Uneven(u, m)
  <2> SUFFICES ASSUME Outcome(c, x, R, t, n, u, m)
               PROVE  /\ Grown(t, k, P, E, U) => R = E[l - 1] \/ R = E[l - 1] + 1
                      /\ Shrunk(t, k, P, E, U) => /\ R = E[l - 1] \/ R = E[l - 1] - 1
                                                  /\ R = E[l - 1] /\ l - 1 \in U => Uneven(u, m)
    OBVIOUS
  <2>1. E[l] \in Int
    BY <1>1, <1>7
  <2>2. ASSUME Grown(t, k, P, E, U) PROVE R = E[l - 1] \/ R = E[l - 1] + 1
    <3>1. c = E[l] \/ c = E[l] + 1
      BY <2>2 DEF Grown
    <3>2. Level(t, k, P, l, E, U)
      BY <1>1, <2>2 DEF Grown, Levels
    <3>3. E[l - 1] = 1 + Larger(E[l], x) /\ E[l] - x \in {-1, 0, 1}
      BY <3>2 DEF Level
    <3> DEFINE f == E[l]
               g == E[l - 1]
    <3>4. c \in Int /\ x \in Int /\ f \in Int /\ g = 1 + Larger(f, x) /\ f - x \in {-1, 0, 1}
          /\ (c = f \/ c = f + 1)
      BY <1>4, <2>1, <3>1, <3>3
    <3> HIDE DEF c, x, R, n, m, f, g
    <3>5. R = g \/ R = g + 1
      BY <3>4, GrownStep
    <3> QED BY <3>5 DEF f, g
  <2>3. ASSUME Shrunk(t, k, P, E, U), Level(t, k, P, l, E, U)
        PROVE  /\ R = E[l - 1] \/ R = E[l - 1] - 1
               /\ l - 1 \notin U
    <3>1. c = E[l] \/ c = E[l] - 1
      BY <2>3 DEF Shrunk
    <3>3. E[l - 1] = 1 + Larger(E[l], x) /\ E[l] - x \in {-1, 0, 1} /\ l - 1 \notin U
      BY <2>3 DEF Level
    <3> DEFINE f == E[l]
               g == E[l - 1]
    <3>4. c \in Int /\ x \in Int /\ f \in Int /\ g = 1 + Larger(f, x) /\ f - x \in {-1, 0, 1}
          /\ (c = f \/ c = f - 1)
      BY <1>4, <2>1, <3>1, <3>3
    <3> HIDE DEF c, x, R, n, m, f, g
    <3>5. R = g \/ R = g - 1
      BY <3>4, LevelStep
    <3> QED BY <3>3, <3>5 DEF f, g
  <2>4. ASSUME Shrunk(t, k, P, E, U), Raised(t, k, P, l, E, U)
        PROVE  /\ R = E[l - 1] \/ R = E[l - 1] - 1
               /\ R = E[l - 1] /\ l - 1 \in U => Uneven(u, m)
    <3>1. (c = E[l] \/ c = E[l] - 1) /\ (c = E[l] /\ l \in U => Uneven(t, n))
      BY <2>4 DEF Shrunk
    <3> DEFINE h == t.height[r]
    <3>2. /\ E[l - 1] = h + 1
          /\ x = h - 1 \/ x = h - 2
          /\ \/ E[l] = h + 1 /\ l \in U /\ l - 1 \notin U
             \/ E[l] = h
             \/ E[l] = h - 1 /\ x = h - 1
      BY <2>4 DEF Raised
    <3>3. h \in Int /\ l \in Int
      BY <1>1, <1>10
    <3> DEFINE f == E[l]
               g == E[l - 1]
    <3>4. f \in Int /\ c \in Int /\ x \in Int
      BY <1>4, <2>1
    <3> HIDE DEF c, x, R, n, m, l, h, f
    <3>5. (c = f \/ c = f - 1) /\ (c = f /\ l \in U => Uneven(t, n))
      BY <3>1 DEF f
    <3>6. RaisedGap(f, h, x, g, l, U)
      BY <3>2 DEF f, RaisedGap
    <3> HIDE DEF g
    <3>7. RaisedOutcome(g, R, u, m, l, U)
      BY <3>3, <3>4, <3>5, <3>6, RaisedStep
    <3> QED BY <3>7 DEF g, RaisedOutcome
  <2> QED BY <1>9, <2>2, <2>3, <2>4
<1>12. c - x \in {-2, -1, 0, 1, 2} \/ (c - x = 3 /\ Uneven(t, n))
  <2>1. E[l] \in Int
    BY <1>1, <1>7
  <2>2. /\ Grown(t, k, P, E, U) => Level(t, k, P, l, E, U)
        /\ c = E[l] \/ c = E[l] - 1 \/ (Grown(t, k, P, E, U) /\ c = E[l] + 1)
        /\ Shrunk(t, k, P, E, U) => (c = E[l] \/ c = E[l] - 1) /\ (c = E[l] /\ l \in U => Uneven(t, n))
    BY <1>1, <1>6 DEF Grown, Shrunk, Levels
  <2>3. CASE Level(t, k, P, l, E, U)
    <3>1. E[l] - x \in {-1, 0, 1}
      BY <2>3 DEF Level
    <3>2. c = E[l] \/ c = E[l] - 1 \/ c = E[l] + 1
      BY <2>2
    <3> DEFINE f == E[l]
    <3>3. f - x \in {-1, 0, 1} /\ (c = f \/ c = f - 1 \/ c = f + 1) /\ f \in Int /\ c \in Int /\ x \in Int
      BY <1>4, <2>1, <3>1, <3>2
    <3> HIDE DEF c, x, f
    <3>4. c - x \in {-2, -1, 0, 1, 2}
      BY <3>3
    <3> QED BY <3>4
  <2>4. CASE Raised(t, k, P, l, E, U) /\ ~ Grown(t, k, P, E, U)
    <3> DEFINE h == t.height[r]
    <3>1. /\ x = h - 1 \/ x = h - 2
          /\ \/ E[l] = h + 1 /\ l \in U
             \/ E[l] = h
             \/ E[l] = h - 1 /\ x = h - 1
      BY <2>4 DEF Raised
    <3>2. (c = E[l] \/ c = E[l] - 1) /\ (c = E[l] /\ l \in U => Uneven(t, n))
      BY <1>6, <2>2, <2>4
    <3>3. h \in Int
      BY <1>10
    <3> DEFINE f == E[l]
    <3>4. f \in Int /\ c \in Int /\ x \in Int
      BY <1>4, <2>1
    <3> HIDE DEF c, x, h, n
    <3>5. (c = f \/ c = f - 1) /\ (c = f /\ l \in U => Uneven(t, n))
      BY <3>2
    <3>6. /\ x = h - 1 \/ x = h - 2
          /\ \/ f = h + 1 /\ l \in U
             \/ f = h
             \/ f = h - 1 /\ x = h - 1
      BY <3>1
    <3> HIDE DEF l, f
    <3>7. CASE f = h + 1 /\ l \in U
      BY <3>3, <3>4, <3>5, <3>6, <3>7
    <3>8. CASE f = h
      BY <3>3, <3>4, <3>5, <3>6, <3>8
    <3>9. CASE f = h - 1 /\ x = h - 1
      BY <3>3, <3>4, <3>5, <3>6, <3>9
    <3> QED BY <3>6, <3>7, <3>8, <3>9
  <2> QED BY <1>9, <2>2, <2>3, <2>4
<1>13. Adjusted(t, u, lo, hi, p, s, r) /\ Outcome(c, x, R, t, n, u, m)
  <2> HIDE DEF p, s, r, e, c, x
  <2>1. \/ KidHeight(t, r, e) - KidHeight(t, r, 1 - e) \in {-2, -1, 0, 1, 2}
        \/ KidHeight(t, r, e) - KidHeight(t, r, 1 - e) = 3 /\ Uneven(t, t.kid[r][e])
    BY <1>4, <1>12
  <2>2. u = avl_adjust_balance(t, p, s)
    BY DEF p, s
  <2>3. /\ Adjusted(t, u, lo, hi, p, s, r)
        /\ Outcome(KidHeight(t, r, e), KidHeight(t, r, 1 - e), RootHeight(u, p, s),
                   t, t.kid[r][e], u, u.kid[p][s])
    BY <1>2, <1>3, <1>8, <2>1, <2>2, OutcomeIs, ZenonT(30)
  <2> QED BY <1>4, <2>3
<1>14. /\ Len(Q) = l - 1
       /\ \A j \in 1 .. l - 1 : Q[j] = P[j] /\ Way(k, Q, j) = Way(k, P, j)
  <2>1. AsOn(P, k, SubSeq(P, 1, Len(P) - 1))
    BY PathPopped, Zenon
  <2> QED BY <2>1, Zenon DEF AsOn
<1> HIDE DEF Q
<1>15. /\ TreeType(u) /\ u.value = t.value
       /\ \A q \in Owner(t), f \in {0, 1} :
            q \notin Held(t, lo, hi, p, s) /\ ~ (q = p /\ f = s) => u.kid[q][f] = t.kid[q][f]
       /\ \A h \in 0 .. MaxKey : h \notin Held(t, lo, hi, p, s) => u.height[h] = t.height[h]
       /\ \A h \in Nodes(t) : h # p /\ (h = r \/ Bal(t, h)) => Bal(u, h)
  <2>1. Adjusted(t, u, lo, hi, p, s, r)
    BY <1>13
  <2> HIDE DEF p, s, r
  <2> QED BY <2>1 DEF Adjusted
<1>16. Nodes(u) = Nodes(t)
  BY <1>15 DEF Nodes
<1>17. OffPath(u, Q, {})
  <2> SUFFICES ASSUME NEW h \in Nodes(t), \A j \in 1 .. l - 1 : P[j] # h PROVE Bal(u, h)
    BY <1>14, <1>16 DEF OffPath
  <2>1. h # p
    BY <1>1
  <2>2. CASE h = r
    BY <1>15, <2>1, <2>2
  <2>3. CASE h # r
    <3>1. \A j \in 1 .. l : j \in 1 .. l - 1 \/ j = l
      BY <1>1, LastIndex, Zenon
    <3>2. \A j \in 1 .. l : P[j] # h
      BY <2>3, <3>1
    <3>3. Bal(t, h)
      BY <3>2 DEF Rising, OffPath
    <3> QED BY <1>15, <2>1, <3>3
  <2> QED BY <2>2, <2>3
<1>18. ASSUME NEW j \in 2 .. l - 1
       PROVE  /\ Level(t, k, P, j, E, U) => Level(u, k, Q, j, E, U)
              /\ Raised(t, k, P, j, E, U) => Raised(u, k, Q, j, E, U)
  <2> DEFINE a == P[j]
             f == 1 - Way(k, P, j)
  <2>1. j \in 1 .. l - 1 /\ j \in 1 .. l /\ 1 \in 1 .. l /\ 1 < j /\ 1 <= j
    BY <1>1
  <2>2. a \in Owner(t) /\ a \notin Held(t, lo, hi, p, s) /\ t.kid[a][f] \notin Held(t, lo, hi, p, s)
        /\ (j < l - 1 => a # p) /\ f \in {0, 1}
    BY <1>5, <2>1, WayType
  <2>3. a \in Nodes(t)
    BY <2>1, PathOutside
  <2>4. u.height[a] = t.height[a]
    BY <1>15, <2>2, <2>3, NodeType
  <2>5. ~ (a = p /\ f = s)
    <3>1. CASE j < l - 1
      BY <2>2, <3>1
    <3>2. CASE j = l - 1
      <4>1. f = 1 - s
        BY <3>2
      <4> QED BY <1>2, <4>1
    <3>3. j \in Int /\ l \in Int /\ j <= l - 1
      BY <1>1
    <3>4. j < l - 1 \/ j = l - 1
      <4> HIDE DEF l
      <4> QED BY <3>3
    <3> QED BY <3>1, <3>2, <3>4
  <2> HIDE DEF f, a
  <2>6. u.kid[a][f] = t.kid[a][f]
    BY <1>15, <2>2, <2>5
  <2>7. t.kid[a][f] \in 0 .. MaxKey
    BY <2>2, KidType, NodeType
  <2>8. KidHeight(u, a, f) = KidHeight(t, a, f)
    BY <1>15, <2>2, <2>6, <2>7 DEF KidHeight
  <2>9. Beside(u, k, Q, j) = Beside(t, k, P, j) /\ Q[j] = P[j] /\ u.height[P[j]] = t.height[P[j]]
    BY <1>14, <2>1, <2>4, <2>8 DEF Beside, a, f
  <2> QED BY <2>9, FrameKept
<1>19. \A j \in 2 .. l - 1 : j \in 2 .. l
  BY <1>1
<1>20. Levels(t, k, P, E, U) => Levels(u, k, Q, E, U)
  BY <1>14, <1>18, <1>19 DEF Levels
<1>21. Chain(t, k, P, E, U) => Chain(u, k, Q, E, U)
  BY <1>14, <1>18, <1>19 DEF Chain
<1>22. Below(u, k, Q, l - 1) = R /\ u.kid[Q[l - 1]][Way(k, Q, l - 1)] = m
  BY <1>1, <1>14 DEF Below, KidHeight, RootHeight
<1>23. Grown(t, k, P, E, U) => Grown(u, k, Q, E, U)
  BY <1>11, <1>13, <1>14, <1>20, <1>22 DEF Grown
<1>24. Shrunk(t, k, P, E, U) => Shrunk(u, k, Q, E, U)
  BY <1>11, <1>13, <1>14, <1>21, <1>22 DEF Shrunk
<1>25. Rising(u, k, Q)
  BY <1>6, <1>17, <1>23, <1>24 DEF Rising
<1> QED BY <1>13, <1>25 DEF Q

LEMMA LastFrame ==
  /\ \A n \in Nat : \A j \in 2 .. n + 1 : j \in 2 .. n \/ j = n + 1
  /\ \A n \in Nat : \A j \in 2 .. n : /\ j \in 1 .. n /\ j \in Nat /\ j - 1 \in Nat /\ j # n + 1
                                     /\ j - 1 # n + 1 /\ 1 \in 1 .. n /\ 1 < j /\ 1 <= j
  OBVIOUS

\* avl_delete has found its node in a balanced tree.
LEMMA EvenSinks ==
  ASSUME NEW t, TreeType(t), NEW lo, NEW hi, Placed(t, lo, hi), Even(t),
         NEW k \in Nodes(t), NEW P, PathOK(t, lo, hi, k, P),
         t.kid[P[Len(P)]][Way(k, P, Len(P))] = k
  PROVE  Sinking(t, k, P)
<1>1. Len(P) \in Nat
  BY PathElements
<1>2. PICK E \in [Nat -> Int] : /\ E[Len(P)] = Below(t, k, P, Len(P))
                                /\ \A U \in SUBSET {Len(P)} : Levels(t, k, P, E, U)
  BY EvenLevels
<1> DEFINE U == IF Uneven(t, k) THEN {Len(P)} ELSE {}
<1>3. U \in SUBSET Nat /\ U \in SUBSET {Len(P)} /\ (Len(P) \in U <=> Uneven(t, k))
  BY <1>1
<1> HIDE DEF U
<1>4. Chain(t, k, P, E, U)
  BY <1>2, <1>3 DEF Chain, Levels
<1>5. E[Len(P)] = t.height[k]
  BY <1>2 DEF Below, KidHeight
<1>6. Bal(t, k)
  BY DEF Even
<1>7. /\ t.height[k] = 1 + Larger(KidHeight(t, k, 0), KidHeight(t, k, 1))
      /\ KidHeight(t, k, 0) - KidHeight(t, k, 1) \in -2 .. 2
  BY <1>6 DEF Bal
<1>8. OffPath(t, P, {k})
  BY DEF OffPath, Even
<1> QED BY <1>3, <1>4, <1>5, <1>7, <1>8 DEF Sinking

\* A frame is the same when what is known about it is.
LEMMA FrameRenamed ==
  ASSUME NEW t, NEW k, NEW P, NEW j, NEW E, NEW U, NEW F, NEW W,
         F[j] = E[j], F[j - 1] = E[j - 1], j \in W <=> j \in U, j - 1 \in W <=> j - 1 \in U
  PROVE  /\ Level(t, k, P, j, E, U) => Level(t, k, P, j, F, W)
         /\ Raised(t, k, P, j, E, U) => Raised(t, k, P, j, F, W)
  BY DEF Level, Raised

\* The heights i and o are those of the kids of the kid that is rotated up.
LEMMA RaisedIs ==
  ASSUME NEW M \in Int, NEW x \in Int, NEW i \in Int, NEW o \in Int,
         M - x \in {0, 1, 2}, M = 1 + Larger(i, o), i - o \in {-1, 0, 1}
  PROVE  /\ o = M - 1 \/ o = M - 2
         /\ \/ 1 + Larger(i, x) = M + 1 /\ M = x /\ i # x
            \/ 1 + Larger(i, x) = M
            \/ 1 + Larger(i, x) = M - 1 /\ o = M - 1
         /\ i - x \in -2 .. 2 /\ x - i \in -2 .. 2
<1>1. i = M - 1 \/ (i = M - 2 /\ o = M - 1)
  BY DEF Larger
<1>2. o = M - 1 \/ o = M - 2
  BY DEF Larger
<1>3. x = M \/ x = M - 1 \/ x = M - 2
  OBVIOUS
<1>4. i - x \in -2 .. 2 /\ x - i \in -2 .. 2
  BY <1>1, <1>3
<1>5. \/ 1 + Larger(i, x) = M + 1 /\ M = x /\ i # x
      \/ 1 + Larger(i, x) = M
      \/ 1 + Larger(i, x) = M - 1 /\ o = M - 1
  BY <1>1, <1>3 DEF Larger
<1> QED BY <1>2, <1>4, <1>5

\* what DeleteRotates leaves when the node had a kid c
Sunk(u, k, P, c) ==
  /\ TreeType(u)
  /\ \E lo2, hi2 : Placed(u, lo2, hi2) /\ PathOK(u, lo2, hi2, k, Append(P, c))
  /\ Sinking(u, k, Append(P, c))

LEMMA SinkRotates ==
  ASSUME NEW t, TreeType(t), NEW lo, NEW hi, Placed(t, lo, hi),
         NEW k \in Nodes(t), NEW P, PathOK(t, lo, hi, k, P), Sinking(t, k, P),
         NEW d \in {0, 1}, KidHeight(t, k, d) >= KidHeight(t, k, 1 - d),
         NEW c, c = t.kid[k][d], c # 0,
         NEW u, u = avl_rotate(t, P[Len(P)], Way(k, P, Len(P)), d)
  PROVE  /\ Sunk(u, k, P, c) /\ u.kid[P[Len(P)]][Way(k, P, Len(P))] = c
         /\ u.value = t.value
<1> DEFINE l == Len(P)
           p == P[Len(P)]
           s == Way(k, P, Len(P))
           lo2 == RotLo(lo, k, c, d)
           hi2 == RotHi(hi, k, c, d)
           Q == Append(P, c)
<1>1. /\ l \in Nat /\ l > 0 /\ l \in 1 .. l /\ l \in Int
      /\ \A j \in 1 .. l - 1 : j \in 1 .. l /\ j < l /\ j <= l /\ j # l
      /\ \A j \in 1 .. l : j <= l
  BY PathElements
<1>2. p \in Owner(t) /\ s \in {0, 1} /\ 1 - s \in {0, 1} /\ 1 - s # s /\ k \in Owner(t)
      /\ k \in Key /\ 1 - d \in {0, 1} /\ k # 0
  <2>1. p \in Owner(t) /\ s \in {0, 1}
    BY <1>1, PathElements, WayType, Zenon
  <2>2. k \in Owner(t) /\ k \in Key /\ k # 0
    BY NodeType, Zenon DEF Owner
  <2> HIDE DEF p, s
  <2> QED BY <2>1, <2>2
<1>3. k = t.kid[p][s]
  BY DEF Sinking
<1>4. KidAt(t, lo, hi, k, d, c) /\ KidAt(t, lo, hi, p, s, k)
  BY <1>2, <1>3, KidPlace
<1>5. c \in Nodes(t) /\ c # k /\ k # p /\ (d = 0 => c < k) /\ (d = 1 => k < c) /\ c \in Int /\ k \in Int
  BY <1>4, NodeType DEF KidAt
<1>6. k \in Held(t, lo, hi, p, s) /\ c \in Held(t, lo, hi, p, s)
  <2>1. k \in Held(t, lo, hi, p, s)
    BY <1>2, <1>3, KidsHeld
  <2>2. \A n \in Held(t, lo, hi, p, s), f \in {0, 1} : t.kid[n][f] \in Held(t, lo, hi, p, s) \cup {0}
    BY <1>2, KidsHeld
  <2> QED BY <2>1, <2>2
<1>7. \A j \in 1 .. l : P[j] # k /\ P[j] # c /\ P[j] \in Owner(t)
  <2>1. \A j \in 1 .. l : P[j] \notin Held(t, lo, hi, p, s)
    BY <1>1, <1>2, PathOutside
  <2> QED BY <1>6, <2>1, PathElements
<1>8. p # c
  BY <1>1, <1>7
<1>9. TreeType(u) /\ Rotated(t, u, p, s, d)
  BY <1>2, <1>3, <1>5, <1>8, RotateIs
<1>10. Placed(u, lo2, hi2)
  BY <1>2, <1>3, <1>5, <1>9, RotatePlaced, ZenonT(30)
<1>11. RotatedHeights(t, u, p, s, k, c, d)
  BY <1>2, <1>3, <1>5, <1>8, <1>9, RotateHeights, Zenon
<1>12. /\ u.kid[p][s] = c /\ u.kid[c][1 - d] = k /\ u.value = t.value
       /\ \A q \in 0 .. MapO, f \in {0, 1} :
            ~ (q = p /\ f = s) /\ q # k /\ q # c => u.kid[q][f] = t.kid[q][f]
  BY <1>3, <1>9, ZenonT(30) DEF Rotated
<1>13. Nodes(u) = Nodes(t) /\ Owner(u) = Owner(t)
  BY <1>12 DEF Nodes, Owner
<1>14. PathOK(u, lo2, hi2, k, P)
  <2>1. \A j \in 1 .. l : P[j] \in Owner(u) /\ lo2[P[j]] = lo[P[j]] /\ hi2[P[j]] = hi[P[j]]
    <3>1. BoundsType(lo, hi)
      BY DEF Placed
    <3> QED BY <1>5, <1>7, <1>13, <3>1, RotOutside
  <2>2. \A j \in 1 .. l - 1 : u.kid[P[j]][Way(k, P, j)] = t.kid[P[j]][Way(k, P, j)]
    <3>1. \A j \in 1 .. l - 1 : P[j] # p /\ P[j] \in 0 .. MapO /\ P[j] # k /\ P[j] # c
                                 /\ Way(k, P, j) \in {0, 1}
      <4>1. \A j \in 1 .. l - 1 : j \in 1 .. l /\ P[j] # p
        BY <1>1, PathOutside
      <4>2. \A n \in Owner(t) : n \in 0 .. MapO
        BY NodeType
      <4> QED BY <1>7, <4>1, <4>2, WayType, Zenon
    <3> QED BY <1>12, <3>1
  <2>3. MapO \notin Nodes(t)
    BY NodeType
  <2> QED BY <2>1, <2>2, <2>3, PathKept
<1>15. /\ PathOK(u, lo2, hi2, k, Q)
       /\ Len(Q) = l + 1 /\ Q[l + 1] = c
       /\ \A j \in 1 .. l : Q[j] = P[j] /\ Way(k, Q, j) = Way(k, P, j)
  <2>1. c = u.kid[P[l]][Way(k, P, l)]
    BY <1>12
  <2> HIDE DEF lo2, hi2
  <2> QED BY <1>2, <1>5, <1>9, <1>10, <1>14, <2>1, PathPushed
<1>16. Way(k, Q, l + 1) = 1 - d
  <2>1. CASE d = 0
    BY <1>5, <1>15, <2>1 DEF Way, Side
  <2>2. CASE d = 1
    BY <1>5, <1>15, <2>2 DEF Way, Side
  <2> QED BY <2>1, <2>2
<1> DEFINE M == t.height[c]
           x == KidHeight(t, k, 1 - d)
           i == KidHeight(t, c, 1 - d)
           o == KidHeight(t, c, d)
           g == u.height[k]
<1>17. /\ M \in Int /\ x \in Int /\ i \in Int /\ o \in Int
       /\ c \in Owner(t) /\ c \in 0 .. MaxKey
  <2>1. c \in Owner(t) /\ c \in 0 .. MaxKey
    BY <1>5, NodeType, Zenon DEF Owner
  <2>2. x \in Int /\ i \in Int /\ o \in Int
    BY <1>2, <2>1, KidHeightType, Zenon
  <2>3. M \in Int
    BY <1>5, NodeType
  <2> QED BY <2>1, <2>2, <2>3, Zenon
<1>18. M = 1 + Larger(i, o) /\ i - o \in {-1, 0, 1}
  <2>1. Bal(t, c)
    BY <1>5, <1>7 DEF Sinking, OffPath
  <2>2. /\ t.height[c] = 1 + Larger(KidHeight(t, c, 1 - d), KidHeight(t, c, 1 - (1 - d)))
        /\ KidHeight(t, c, 1 - d) - KidHeight(t, c, 1 - (1 - d)) \in {-1, 0, 1}
    BY <1>2, <1>5, <2>1, BalSide
  <2>3. 1 - (1 - d) = d
    OBVIOUS
  <2> QED BY <2>2, <2>3
<1>19. M - x \in {0, 1, 2} /\ t.height[k] = M + 1 /\ (Uneven(t, k) <=> M # x)
  <2>1. M = KidHeight(t, k, d)
    BY DEF KidHeight
  <2>2. /\ t.height[k] = 1 + Larger(KidHeight(t, k, 0), KidHeight(t, k, 1))
        /\ KidHeight(t, k, 0) - KidHeight(t, k, 1) \in -2 .. 2
    BY DEF Sinking
  <2>3. M >= x
    BY <2>1
  <2>4. CASE d = 0
    <3>1. M = KidHeight(t, k, 0) /\ x = KidHeight(t, k, 1)
      BY <2>1, <2>4
    <3>2. t.height[k] = 1 + Larger(M, x) /\ M - x \in -2 .. 2 /\ (Uneven(t, k) <=> M # x)
      BY <2>2, <3>1, Zenon DEF Uneven
    <3> HIDE DEF M, x
    <3> QED BY <1>17, <2>3, <3>2 DEF Larger
  <2>5. CASE d = 1
    <3>1. M = KidHeight(t, k, 1) /\ x = KidHeight(t, k, 0)
      BY <2>1, <2>5
    <3>2. t.height[k] = 1 + Larger(x, M) /\ x - M \in -2 .. 2 /\ (Uneven(t, k) <=> M # x)
      BY <2>2, <3>1, Zenon DEF Uneven
    <3> HIDE DEF M, x
    <3> QED BY <1>17, <2>3, <3>2 DEF Larger
  <2> QED BY <2>4, <2>5
<1>20. /\ KidHeight(u, k, d) = i /\ KidHeight(u, k, 1 - d) = x /\ KidHeight(u, c, d) = o
       /\ g = 1 + Larger(i, x)
       /\ \A n \in Owner(t), f \in {0, 1} :
            n \notin {k, c} /\ ~ (n = p /\ f = s) => KidHeight(u, n, f) = KidHeight(t, n, f)
       /\ \A n \in 0 .. MaxKey : n # k => u.height[n] = t.height[n]
  BY <1>11 DEF RotatedHeights
<1>21. u.height[c] = M
  BY <1>5, <1>17, <1>20
<1>22. /\ o = M - 1 \/ o = M - 2
       /\ \/ g = M + 1 /\ M = x /\ i # x
          \/ g = M
          \/ g = M - 1 /\ o = M - 1
       /\ i - x \in -2 .. 2 /\ x - i \in -2 .. 2
  <2>1. g = 1 + Larger(i, x) /\ M - x \in {0, 1, 2}
    BY <1>19, <1>20, Zenon
  <2> HIDE DEF M, x, i, o, g
  <2>2. /\ o = M - 1 \/ o = M - 2
        /\ \/ 1 + Larger(i, x) = M + 1 /\ M = x /\ i # x
           \/ 1 + Larger(i, x) = M
           \/ 1 + Larger(i, x) = M - 1 /\ o = M - 1
        /\ i - x \in -2 .. 2 /\ x - i \in -2 .. 2
    BY <1>17, <1>18, <2>1, RaisedIs, Zenon
  <2> QED BY <2>1, <2>2, Zenon
<1>23. /\ u.height[k] = 1 + Larger(KidHeight(u, k, 0), KidHeight(u, k, 1))
       /\ KidHeight(u, k, 0) - KidHeight(u, k, 1) \in -2 .. 2
       /\ Uneven(u, k) <=> i # x
  <2> HIDE DEF x, i
  <2>1. CASE d = 0
    <3>1. KidHeight(u, k, 0) = i /\ KidHeight(u, k, 1) = x
      BY <1>20, <2>1
    <3> QED BY <1>17, <1>20, <1>22, <3>1 DEF Larger, Uneven
  <2>2. CASE d = 1
    <3>1. KidHeight(u, k, 1) = i /\ KidHeight(u, k, 0) = x
      BY <1>20, <2>2
    <3> QED BY <1>17, <1>20, <1>22, <3>1 DEF Larger, Uneven
  <2> QED BY <2>1, <2>2
<1>24. OffPath(u, Q, {k})
  <2> SUFFICES ASSUME NEW n \in Nodes(u), n # k, \A j \in 1 .. Len(Q) : Q[j] # n
               PROVE  Bal(u, n)
    BY DEF OffPath
  <2>1. \A j \in 1 .. l : P[j] # n /\ j \in 1 .. l + 1
    <3>1. \A j \in 1 .. l : j \in 1 .. l + 1
      <4> HIDE DEF l
      <4> QED BY <1>1
    <3> QED BY <1>15, <3>1, Zenon
  <2>2. n # c /\ l + 1 \in 1 .. l + 1
    BY <1>1, <1>15
  <2>3. Bal(t, n)
    BY <1>13, <2>1 DEF Sinking, OffPath
  <2>4. n # p /\ n \in Owner(t) /\ n \in 0 .. MaxKey
    BY <1>1, <1>13, <2>1, NodeType DEF Owner
  <2>5. KidHeight(u, n, 0) = KidHeight(t, n, 0) /\ KidHeight(u, n, 1) = KidHeight(t, n, 1)
        /\ u.height[n] = t.height[n]
    BY <1>20, <2>2, <2>4
  <2> QED BY <2>3, <2>5 DEF Bal
<1>25. PICK E \in [Nat -> Int], U \in SUBSET Nat :
         /\ E[Len(P)] = t.height[k]
         /\ Len(P) \in U <=> Uneven(t, k)
         /\ Chain(t, k, P, E, U)
  BY DEF Sinking
<1> DEFINE F == [E EXCEPT ![l + 1] = g]
           W == IF Uneven(u, k) THEN U \cup {l + 1} ELSE U \ {l + 1}
<1>26. g \in Int /\ l + 1 \in Nat
  <2>1. g = 1 + Larger(i, x)
    BY <1>20, Zenon
  <2> HIDE DEF g, i, x, l
  <2> QED BY <1>1, <1>17, <2>1 DEF Larger
<1>27. /\ F \in [Nat -> Int] /\ W \in SUBSET Nat /\ F[l + 1] = g
       /\ l + 1 \in W <=> Uneven(u, k)
       /\ \A j : j # l + 1 => (j \in W <=> j \in U)
       /\ \A j \in Nat : j # l + 1 => F[j] = E[j]
  BY <1>26
<1> HIDE DEF F, W, Q, g
<1>28. \A j \in 2 .. l : Level(u, k, Q, j, F, W) \/ Raised(u, k, Q, j, F, W)
  <2> TAKE j \in 2 .. l
  <2> DEFINE a == P[j]
             f == 1 - Way(k, P, j)
  <2>1. j \in 1 .. l /\ j \in Nat /\ j - 1 \in Nat /\ j # l + 1 /\ j - 1 # l + 1 /\ 1 \in 1 .. l /\ 1 < j /\ 1 <= j
    BY <1>1, LastFrame
  <2>2. f \in {0, 1} /\ a \in Owner(t) /\ a # k /\ a # c /\ a \in Nodes(t)
    BY <1>7, <2>1, WayType, PathOutside
  <2>3. a = p => f # s
    <3>1. SUFFICES ASSUME a = p PROVE f # s
      OBVIOUS
    <3>2. Way(k, P, j) = s
      BY <3>1 DEF Way
    <3> QED BY <1>2, <3>2
  <2>4. Level(t, k, P, j, E, U) \/ Raised(t, k, P, j, E, U)
    BY <1>25 DEF Chain
  <2>5. Level(t, k, P, j, F, W) \/ Raised(t, k, P, j, F, W)
    BY <1>27, <2>1, <2>4, FrameRenamed
  <2> HIDE DEF a, f
  <2>6. KidHeight(u, a, f) = KidHeight(t, a, f) /\ u.height[a] = t.height[a]
    BY <1>20, <2>2, <2>3, NodeType
  <2>7. Beside(u, k, Q, j) = Beside(t, k, P, j) /\ Q[j] = P[j] /\ u.height[P[j]] = t.height[P[j]]
    BY <1>15, <2>1, <2>6, Zenon DEF Beside, a, f
  <2> QED BY <2>5, <2>7, FrameKept
<1>29. Raised(u, k, Q, l + 1, F, W)
  <2>1. Beside(u, k, Q, l + 1) = o
    <3>1. 1 - (1 - d) = d
      OBVIOUS
    <3> QED BY <1>15, <1>16, <1>20, <3>1 DEF Beside
  <2>2. (l + 1) - 1 = l /\ l # l + 1 /\ l \in Nat
    BY <1>1
  <2>3. F[l] = M + 1 /\ (l \in W <=> M # x)
    BY <1>19, <1>25, <1>27, <2>2, Zenon
  <2>4. u.height[Q[l + 1]] = M
    BY <1>15, <1>21
  <2> HIDE DEF M, x, i, o
  <2> QED BY <1>22, <1>23, <1>27, <2>1, <2>2, <2>3, <2>4, Zenon DEF Raised
<1>30. Chain(u, k, Q, F, W)
  <2>1. \A j \in 2 .. l + 1 : j \in 2 .. l \/ j = l + 1
    BY <1>1, LastFrame
  <2> QED BY <1>15, <1>28, <1>29, <2>1 DEF Chain
<1>31. Sinking(u, k, Q)
  <2>1. u.kid[Q[Len(Q)]][Way(k, Q, Len(Q))] = k
    BY <1>12, <1>15, <1>16
  <2>2. F[Len(Q)] = u.height[k] /\ (Len(Q) \in W <=> Uneven(u, k))
    BY <1>15, <1>27 DEF g
  <2> QED BY <1>23, <1>24, <1>27, <1>30, <2>1, <2>2 DEF Sinking
<1>32. Sunk(u, k, P, c)
  BY <1>9, <1>10, <1>15, <1>31 DEF Sunk, Q
<1> QED BY <1>12, <1>32

\* The node of k is deleted at the end of its branch.
LEMMA SinkEnds ==
  ASSUME NEW t, TreeType(t), NEW lo, NEW hi, Placed(t, lo, hi),
         NEW k \in Nodes(t), NEW P, PathOK(t, lo, hi, k, P), Sinking(t, k, P),
         NEW d \in {0, 1}, KidHeight(t, k, d) >= KidHeight(t, k, 1 - d), t.kid[k][d] = 0,
         NEW u, u = avl_rotate(t, P[Len(P)], Way(k, P, Len(P)), d)
  PROVE  /\ IsGone(t, u, P[Len(P)], Way(k, P, Len(P)), k)
         /\ Placed(u, lo, hi) /\ PathOK(u, lo, hi, k, P) /\ Rising(u, k, P)
<1> DEFINE l == Len(P)
           p == P[Len(P)]
           s == Way(k, P, Len(P))
<1>1. /\ l \in Nat /\ l > 0 /\ l \in 1 .. l /\ l \in Int
      /\ \A j \in 1 .. l - 1 : j \in 1 .. l /\ j < l /\ j <= l /\ j # l
      /\ \A j \in 1 .. l : j <= l
  BY PathElements
<1>2. p \in Owner(t) /\ s \in {0, 1} /\ 1 - s \in {0, 1} /\ 1 - s # s /\ k \in Owner(t)
      /\ k \in Key /\ 1 - d \in {0, 1} /\ k # 0
  <2>1. p \in Owner(t) /\ s \in {0, 1}
    BY <1>1, PathElements, WayType, Zenon
  <2>2. k \in Owner(t) /\ k \in Key /\ k # 0
    BY NodeType, Zenon DEF Owner
  <2> HIDE DEF p, s
  <2> QED BY <2>1, <2>2
<1>3. k = t.kid[p][s]
  BY DEF Sinking
<1>4. k # p
  BY <1>2, <1>3, KidPlace DEF KidAt
<1>5. \A j \in 1 .. l : P[j] # k /\ P[j] \in Owner(t)
  BY <1>1, PathElements DEF PathOK
<1>6. KidHeight(t, k, 0) = 0 /\ KidHeight(t, k, 1) = 0 /\ t.kid[k][0] = 0 /\ t.kid[k][1] = 0
  <2>1. KidHeight(t, k, d) = 0 /\ t.height[0] = 0
    BY NodeType DEF KidHeight
  <2>2. KidHeight(t, k, 1 - d) \in Nat
    BY <1>2, KidHeightType
  <2>3. KidHeight(t, k, 1 - d) = 0
    BY <2>1, <2>2
  <2>4. t.kid[k][1 - d] # 0 => t.kid[k][1 - d] \in Nodes(t)
    BY <1>2 DEF Placed, Kids
  <2>5. t.kid[k][1 - d] # 0 => KidHeight(t, k, 1 - d) > 0
    BY <2>4, NodeType DEF KidHeight
  <2>6. t.kid[k][1 - d] = 0
    BY <2>3, <2>5
  <2>7. CASE d = 0
    BY <2>1, <2>3, <2>6, <2>7
  <2>8. CASE d = 1
    BY <2>1, <2>3, <2>6, <2>8
  <2> QED BY <2>7, <2>8
<1>7. IsGone(t, u, p, s, k)
  BY <1>2, <1>3, <1>4, GoneIs
<1>8. Placed(u, lo, hi)
  BY <1>2, <1>3, <1>6, <1>7, GonePlaced
<1>9. /\ TreeType(u) /\ Nodes(u) = Nodes(t) \ {k} /\ u.kid[p][s] = 0
      /\ \A q \in Owner(t), e \in {0, 1} : q # k /\ ~ (q = p /\ e = s) => u.kid[q][e] = t.kid[q][e]
      /\ \A n \in 0 .. MaxKey : n # k => u.height[n] = t.height[n]
  BY <1>7 DEF IsGone
<1>10. PathOK(u, lo, hi, k, P)
  <2>1. \A j \in 1 .. l : P[j] \in Owner(u)
    BY <1>5, <1>9 DEF Owner
  <2>2. \A j \in 1 .. l - 1 : u.kid[P[j]][Way(k, P, j)] = t.kid[P[j]][Way(k, P, j)]
    <3>1. \A j \in 1 .. l - 1 : P[j] # p /\ P[j] \in Owner(t) /\ P[j] # k /\ Way(k, P, j) \in {0, 1}
      <4> SUFFICES ASSUME NEW j \in 1 .. l - 1
                   PROVE  P[j] # p /\ P[j] \in Owner(t) /\ P[j] # k /\ Way(k, P, j) \in {0, 1}
        OBVIOUS
      <4>1. j \in 1 .. l /\ j < l /\ j <= l
        BY <1>1, Zenon
      <4>2. P[j] # p
        BY <1>1, <4>1, PathOutside
      <4> QED BY <1>5, <4>1, <4>2, WayType, Zenon
    <3> QED BY <1>9, <3>1
  <2>3. MapO \notin Nodes(t)
    BY NodeType
  <2> QED BY <2>1, <2>2, <2>3, PathKept
<1>11. \A n \in Owner(t), e \in {0, 1} : n # k /\ ~ (n = p /\ e = s) => KidHeight(u, n, e) = KidHeight(t, n, e)
  <2> SUFFICES ASSUME NEW n \in Owner(t), NEW e \in {0, 1}, n # k, ~ (n = p /\ e = s)
               PROVE  KidHeight(u, n, e) = KidHeight(t, n, e)
    OBVIOUS
  <2>1. u.kid[n][e] = t.kid[n][e]
    BY <1>9
  <2>2. t.kid[n][e] # k
    BY <1>2, <1>3, OneParent
  <2>3. t.kid[n][e] \in 0 .. MaxKey
    BY KidType, NodeType
  <2> QED BY <1>9, <2>1, <2>2, <2>3 DEF KidHeight
<1>12. OffPath(u, P, {})
  <2> SUFFICES ASSUME NEW n \in Nodes(u), \A j \in 1 .. l : P[j] # n
               PROVE  Bal(u, n)
    BY DEF OffPath
  <2>1. n \in Nodes(t) /\ n # k /\ n \in Owner(t) /\ n \in 0 .. MaxKey /\ n # p
    BY <1>1, <1>9, NodeType DEF Owner
  <2>2. Bal(t, n)
    BY <2>1 DEF Sinking, OffPath
  <2>3. KidHeight(u, n, 0) = KidHeight(t, n, 0) /\ KidHeight(u, n, 1) = KidHeight(t, n, 1)
        /\ u.height[n] = t.height[n]
    BY <1>9, <1>11, <2>1
  <2> QED BY <2>2, <2>3 DEF Bal
<1>13. t.height[k] = 1
  BY <1>6 DEF Sinking, Larger
<1>14. PICK E \in [Nat -> Int], U \in SUBSET Nat :
         /\ E[Len(P)] = t.height[k]
         /\ Len(P) \in U <=> Uneven(t, k)
         /\ Chain(t, k, P, E, U)
  BY DEF Sinking
<1>15. Below(u, k, P, l) = 0
  <2>1. u.height[0] = 0
    BY <1>9, NodeType
  <2> QED BY <1>9, <2>1 DEF Below, KidHeight
<1>16. Chain(u, k, P, E, U)
  <2> SUFFICES ASSUME NEW j \in 2 .. l
               PROVE  Level(u, k, P, j, E, U) \/ Raised(u, k, P, j, E, U)
    BY DEF Chain
  <2> DEFINE a == P[j]
             f == 1 - Way(k, P, j)
  <2>1. j \in 1 .. l /\ 1 \in 1 .. l /\ 1 < j /\ 1 <= j
    BY <1>1, LastFrame
  <2>2. f \in {0, 1} /\ a \in Owner(t) /\ a # k /\ a \in Nodes(t)
    BY <1>5, <2>1, WayType, PathOutside
  <2>3. a = p => f # s
    <3>1. SUFFICES ASSUME a = p PROVE f # s
      OBVIOUS
    <3>2. Way(k, P, j) = s
      BY <3>1 DEF Way
    <3> QED BY <1>2, <3>2
  <2> HIDE DEF a, f
  <2>4. KidHeight(u, a, f) = KidHeight(t, a, f) /\ u.height[a] = t.height[a]
    BY <1>9, <1>11, <2>2, <2>3, NodeType
  <2>5. Beside(u, k, P, j) = Beside(t, k, P, j) /\ u.height[P[j]] = t.height[P[j]]
    BY <2>4 DEF Beside, a, f
  <2>6. Level(t, k, P, j, E, U) \/ Raised(t, k, P, j, E, U)
    BY <1>14 DEF Chain
  <2> QED BY <2>5, <2>6, FrameKept
<1>17. Rising(u, k, P)
  <2>1. E[l] = 1
    BY <1>13, <1>14
  <2>2. Shrunk(u, k, P, E, U)
    BY <1>15, <1>16, <2>1 DEF Shrunk
  <2> QED BY <1>12, <2>2 DEF Rising
<1> QED BY <1>7, <1>8, <1>10, <1>17

\* A new node makes one place higher.
LEMMA NewRises ==
  ASSUME NEW t, TreeType(t), NEW lo, NEW hi, Placed(t, lo, hi), Even(t),
         NEW k \in Key, NEW P, PathOK(t, lo, hi, k, P),
         t.kid[P[Len(P)]][Way(k, P, Len(P))] = 0, k \notin Nodes(t), NEW v,
         NEW u, IsNew(t, u, P[Len(P)], Way(k, P, Len(P)), k, v)
  PROVE  \E lo2, hi2 : Placed(u, lo2, hi2) /\ PathOK(u, lo2, hi2, k, P) /\ Rising(u, k, P)
<1> DEFINE l == Len(P)
           p == P[Len(P)]
           s == Way(k, P, Len(P))
           lo2 == [lo EXCEPT ![k] = SlotLo(lo, p, s)]
           hi2 == [hi EXCEPT ![k] = SlotHi(hi, p, s)]
<1>1. /\ l \in Nat /\ l > 0 /\ l \in 1 .. l /\ l \in Int
      /\ \A j \in 1 .. l - 1 : j \in 1 .. l /\ j < l /\ j <= l /\ j # l
      /\ \A j \in 1 .. l : j <= l
  BY PathElements
<1>2. p \in Owner(t) /\ s \in {0, 1} /\ 1 - s \in {0, 1} /\ 1 - s # s /\ k # 0 /\ k \in 0 .. MapO
      /\ k \in 1 .. MapO /\ k \in Int /\ p \in Int /\ k # MapO
  <2>1. p \in Owner(t) /\ p \in Int
    BY <1>1, PathElements, NodeType
  <2>2. s \in {0, 1} /\ 1 - s \in {0, 1} /\ 1 - s # s
    BY WayType
  <2>3. k # 0 /\ k \in 0 .. MapO /\ k \in 1 .. MapO /\ k \in Int /\ k # MapO
    BY Constants
  <2> QED BY <2>1, <2>2, <2>3
<1>3. lo[p] < k /\ k < hi[p] /\ p # k
  BY <1>1 DEF PathOK
<1>4. SlotLo(lo, p, s) < k /\ k < SlotHi(hi, p, s)
  <2>1. CASE k > p
    BY <1>3, <2>1 DEF Way, Side, SlotLo, SlotHi
  <2>2. CASE k < p
    BY <1>3, <2>2 DEF Way, Side, SlotLo, SlotHi
  <2> QED BY <1>2, <1>3, <2>1, <2>2
<1>5. \A j \in 1 .. l : P[j] # k /\ P[j] \in Owner(t) /\ P[j] \in 1 .. MapO
  <2>1. BoundsType(lo, hi)
    BY DEF Placed
  <2> QED BY <1>1, <2>1, PathElements, BoundsAre DEF PathOK
<1>6. /\ TreeType(u)
      /\ Nodes(u) = Nodes(t) \cup {k}
      /\ u.kid[p][s] = k /\ u.kid[k][0] = 0 /\ u.kid[k][1] = 0
      /\ \A q \in Owner(t), e \in {0, 1} : ~ (q = p /\ e = s) => u.kid[q][e] = t.kid[q][e]
      /\ u.height[k] = 1
      /\ \A n \in 0 .. MaxKey : n # k => u.height[n] = t.height[n]
  BY DEF IsNew
<1>7. Placed(u, lo2, hi2)
  <2>1. t.kid[p][s] = 0 /\ IsNew(t, u, p, s, k, v) /\ p \in Owner(t)
    BY <1>1, PathElements
  <2> HIDE DEF p, s
  <2> QED BY <1>2, <1>4, <2>1, NewPlaced
<1>8. PathOK(u, lo2, hi2, k, P)
  <2>1. \A j \in 1 .. l : P[j] \in Owner(u) /\ lo2[P[j]] = lo[P[j]] /\ hi2[P[j]] = hi[P[j]]
    <3>1. lo \in [1 .. MapO -> 0 .. Top] /\ hi \in [1 .. MapO -> 0 .. Top]
      BY DEF Placed, BoundsType
    <3> QED BY <1>5, <1>6, <3>1 DEF Owner
  <2>2. \A j \in 1 .. l - 1 : u.kid[P[j]][Way(k, P, j)] = t.kid[P[j]][Way(k, P, j)]
    <3>1. \A j \in 1 .. l - 1 : P[j] # p /\ P[j] \in Owner(t) /\ Way(k, P, j) \in {0, 1}
      BY <1>1, <1>5, PathOutside, WayType
    <3> QED BY <1>6, <3>1
  <2>3. MapO \notin Nodes(t)
    BY NodeType
  <2> HIDE DEF lo2, hi2
  <2> QED BY <2>1, <2>2, <2>3, PathKept
<1>9. \A n \in Owner(t), e \in {0, 1} : ~ (n = p /\ e = s) => KidHeight(u, n, e) = KidHeight(t, n, e)
  <2> SUFFICES ASSUME NEW n \in Owner(t), NEW e \in {0, 1}, ~ (n = p /\ e = s)
               PROVE  KidHeight(u, n, e) = KidHeight(t, n, e)
    OBVIOUS
  <2>1. u.kid[n][e] = t.kid[n][e]
    BY <1>6
  <2>2. t.kid[n][e] # k
    BY <1>2 DEF Placed, Kids
  <2>3. t.kid[n][e] \in 0 .. MaxKey
    BY KidType, NodeType
  <2> QED BY <1>6, <2>1, <2>2, <2>3 DEF KidHeight
<1>10. OffPath(u, P, {})
  <2> SUFFICES ASSUME NEW n \in Nodes(u), \A j \in 1 .. l : P[j] # n
               PROVE  Bal(u, n)
    BY DEF OffPath
  <2>1. CASE n = k
    <3>1. u.height[0] = 0
      BY <1>6, NodeType
    <3>2. KidHeight(u, n, 0) = 0 /\ KidHeight(u, n, 1) = 0
      BY <1>6, <2>1, <3>1 DEF KidHeight
    <3> QED BY <1>6, <2>1, <3>2 DEF Bal, Larger
  <2>2. CASE n # k
    <3>1. n \in Nodes(t) /\ n \in Owner(t) /\ n \in 0 .. MaxKey /\ n # p
      BY <1>1, <1>6, <2>2, NodeType DEF Owner
    <3>2. Bal(t, n)
      BY <3>1 DEF Even
    <3>3. KidHeight(u, n, 0) = KidHeight(t, n, 0) /\ KidHeight(u, n, 1) = KidHeight(t, n, 1)
          /\ u.height[n] = t.height[n]
      BY <1>6, <1>9, <2>2, <3>1
    <3> QED BY <3>2, <3>3 DEF Bal
  <2> QED BY <2>1, <2>2
<1>11. PICK E \in [Nat -> Int] : /\ E[Len(P)] = Below(t, k, P, Len(P))
                                 /\ \A U \in SUBSET {Len(P)} : Levels(t, k, P, E, U)
  BY EvenLevels
<1>12. Levels(t, k, P, E, {})
  BY <1>11
<1>13. Levels(u, k, P, E, {})
  <2> SUFFICES ASSUME NEW j \in 2 .. l PROVE Level(u, k, P, j, E, {})
    BY DEF Levels
  <2> DEFINE a == P[j]
             f == 1 - Way(k, P, j)
  <2>1. j \in 1 .. l /\ 1 \in 1 .. l /\ 1 < j /\ 1 <= j
    BY <1>1, LastFrame
  <2>2. f \in {0, 1} /\ a \in Owner(t) /\ a # k /\ a \in Nodes(t)
    BY <1>5, <2>1, WayType, PathOutside
  <2>3. a = p => f # s
    <3>1. SUFFICES ASSUME a = p PROVE f # s
      OBVIOUS
    <3>2. Way(k, P, j) = s
      BY <3>1 DEF Way
    <3> QED BY <1>2, <3>2
  <2> HIDE DEF a, f
  <2>4. KidHeight(u, a, f) = KidHeight(t, a, f) /\ u.height[a] = t.height[a]
    BY <1>6, <1>9, <2>2, <2>3, NodeType
  <2>5. Beside(u, k, P, j) = Beside(t, k, P, j) /\ u.height[P[j]] = t.height[P[j]]
    BY <2>4 DEF Beside, a, f
  <2>6. Level(t, k, P, j, E, {})
    BY <1>12 DEF Levels
  <2> QED BY <2>5, <2>6, FrameKept
<1>14. Below(u, k, P, l) = 1 /\ E[l] = 0
  BY <1>6, <1>11, NodeType DEF Below, KidHeight
<1>15. Grown(u, k, P, E, {})
  BY <1>13, <1>14 DEF Grown
<1>16. Rising(u, k, P)
  BY <1>10, <1>15 DEF Rising
<1> QED BY <1>7, <1>8, <1>16

\* Kids and heights are all that matters.
LEMMA SameHeights ==
  ASSUME NEW t, NEW u, u.kid = t.kid, u.height = t.height, Nodes(u) = Nodes(t), Even(t)
  PROVE  Even(u)
  BY DEF Even, Bal, KidHeight

\* A balanced tree needs nothing.
LEMMA EvenRises ==
  ASSUME NEW t, TreeType(t), NEW lo, NEW hi, Placed(t, lo, hi), Even(t),
         NEW k, NEW P, PathOK(t, lo, hi, k, P)
  PROVE  Rising(t, k, P)
<1>1. PICK E \in [Nat -> Int] : /\ E[Len(P)] = Below(t, k, P, Len(P))
                                /\ \A U \in SUBSET {Len(P)} : Levels(t, k, P, E, U)
  BY EvenLevels
<1>2. Grown(t, k, P, E, {})
  BY <1>1 DEF Grown
<1>3. OffPath(t, P, {})
  BY DEF OffPath, Even
<1> QED BY <1>2, <1>3 DEF Rising

\* At the map, everything is rebalanced.
LEMMA RisenIsEven ==
  ASSUME NEW t, TreeType(t), NEW lo, NEW hi, NEW k, NEW P, PathOK(t, lo, hi, k, P),
         Len(P) = 1, Rising(t, k, P)
  PROVE  Even(t)
<1>1. \A j \in 1 .. Len(P) : P[j] = MapO
  BY DEF PathOK
<1>2. MapO \notin Nodes(t)
  BY NodeType
<1> QED BY <1>1, <1>2 DEF Rising, OffPath, Even

-----------------------------------------------------------------------------
(***************************************************************************)
(* How high a balanced tree is                                             *)
(***************************************************************************)

LEMMA LeastOfKids ==
  ASSUME NEW a \in Nat, NEW b \in Nat, a - b \in {-1, 0, 1}
  PROVE  Least[1 + Larger(a, b)] <= Least[a] + Least[b]
<1>1. ASSUME NEW x \in Nat, NEW y \in Nat, y = x \/ y = x - 1
      PROVE  Least[x + 1] <= Least[x] + Least[y]
  <2>1. Least[x] \in Nat /\ Least[y] \in Nat /\ Least[x + 1] \in Nat
    BY LeastGrows
  <2>2. CASE x = 0
    <3>1. y = 0
      BY <1>1, <2>2
    <3>2. x + 1 = 1
      BY <2>2
    <3> QED BY <2>2, <3>1, <3>2, LeastValues
  <2>3. CASE x > 0
    <3>1. PICK z \in Nat : x = z + 1
      <4>1. x - 1 \in Nat /\ x = (x - 1) + 1
        BY <2>3
      <4> QED BY <4>1
    <3>2. Least[z + 2] = Least[z + 1] + Least[z] /\ x + 1 = z + 2
      BY <3>1, LeastValues
    <3>3. z <= y
      BY <1>1, <3>1
    <3>4. Least[z] <= Least[y] /\ Least[z] \in Nat
      BY <3>3, LeastGrows
    <3>5. Least[x + 1] = Least[x] + Least[z]
      BY <3>1, <3>2
    <3> QED BY <2>1, <3>4, <3>5
  <2> QED BY <2>2, <2>3
<1>2. CASE a >= b
  <2>1. Larger(a, b) = a /\ (b = a \/ b = a - 1) /\ 1 + a = a + 1
    BY <1>2 DEF Larger
  <2> QED BY <1>1, <2>1
<1>3. CASE b > a
  <2>1. Larger(a, b) = b /\ a = b - 1 /\ 1 + b = b + 1
    BY <1>3 DEF Larger
  <2>2. Least[b + 1] <= Least[b] + Least[a]
    BY <1>1, <2>1
  <2>3. Least[a] \in Nat /\ Least[b] \in Nat
    BY LeastGrows
  <2> QED BY <2>1, <2>2, <2>3
<1> QED BY <1>2, <1>3

\* A subtree of height h has Least[h] - 1 keys around its nodes.
LEMMA LeastWide ==
  ASSUME NEW t, TreeType(t), NEW lo, NEW hi, Placed(t, lo, hi), Even(t)
  PROVE  \A n \in Nodes(t) : Least[t.height[n]] <= hi[n] - lo[n]
<1> DEFINE Bad == {n \in Nodes(t) : ~ (Least[t.height[n]] <= hi[n] - lo[n])}
           T == {hi[n] - lo[n] : n \in Bad}
<1> SUFFICES ASSUME Bad # {} PROVE FALSE
  OBVIOUS
<1>1. \A n \in Nodes(t) : n \in Owner(t) /\ n \in Int /\ lo[n] \in Int /\ hi[n] \in Int
                          /\ lo[n] < n /\ n < hi[n]
  BY BoundsAre, NodeType DEF Placed, Wide
<1>2. T \subseteq Nat /\ T # {}
  <2>1. \A n \in Nodes(t) : hi[n] - lo[n] \in Nat
    BY <1>1
  <2> QED BY <2>1
<1>3. PICK w \in T : \A y \in T : w <= y
  BY <1>2, LeastOfSet
<1>4. PICK n \in Bad : w = hi[n] - lo[n]
  BY <1>3
<1>5. n \in Nodes(t) /\ ~ (Least[t.height[n]] <= hi[n] - lo[n])
  BY <1>4
<1>6. \A m \in Nodes(t) : hi[m] - lo[m] < hi[n] - lo[n] => Least[t.height[m]] <= hi[m] - lo[m]
  <2> SUFFICES ASSUME NEW m \in Nodes(t), hi[m] - lo[m] < hi[n] - lo[n],
                      ~ (Least[t.height[m]] <= hi[m] - lo[m])
               PROVE  FALSE
    OBVIOUS
  <2>1. hi[m] - lo[m] \in T
    OBVIOUS
  <2>2. hi[n] - lo[n] <= hi[m] - lo[m]
    BY <1>3, <1>4, <2>1
  <2>3. lo[m] \in Int /\ hi[m] \in Int /\ lo[n] \in Int /\ hi[n] \in Int
    BY <1>1, <1>5
  <2> HIDE DEF T, Bad
  <2> QED BY <2>2, <2>3
<1> HIDE DEF T, Bad
<1>7. ASSUME NEW s \in {0, 1}
      PROVE  Least[KidHeight(t, n, s)] <= SlotHi(hi, n, s) - SlotLo(lo, n, s)
  <2> DEFINE a == SlotLo(lo, n, s)
             b == SlotHi(hi, n, s)
             c == t.kid[n][s]
  <2>1. n \in Owner(t) /\ n \in Int /\ lo[n] \in Int /\ hi[n] \in Int /\ lo[n] < n /\ n < hi[n]
    BY <1>1, <1>5
  <2>2. a \in Int /\ b \in Int /\ a < b /\ b - a < hi[n] - lo[n]
    BY <2>1 DEF SlotLo, SlotHi
  <2>3. CASE c = 0
    <3>1. KidHeight(t, n, s) = 0
      BY <2>3, NodeType DEF KidHeight
    <3>2. Least[0] = 1
      BY LeastValues
    <3> HIDE DEF a, b
    <3>3. 1 <= b - a
      BY <2>2
    <3> QED BY <3>1, <3>2, <3>3 DEF a, b
  <2>4. CASE c # 0
    <3>1. c \in Nodes(t) /\ lo[c] = a /\ hi[c] = b
      BY <2>1, <2>4 DEF Placed, Kids
    <3>2. Least[t.height[c]] <= hi[c] - lo[c]
      BY <1>6, <2>2, <3>1
    <3> QED BY <3>1, <3>2 DEF KidHeight
  <2> QED BY <2>3, <2>4
<1>8. /\ t.height[n] = 1 + Larger(KidHeight(t, n, 0), KidHeight(t, n, 1))
      /\ KidHeight(t, n, 0) - KidHeight(t, n, 1) \in {-1, 0, 1}
  BY <1>5 DEF Even, Bal
<1>9. KidHeight(t, n, 0) \in Nat /\ KidHeight(t, n, 1) \in Nat
  BY <1>1, <1>5, KidHeightType
<1>10. Least[t.height[n]] <= Least[KidHeight(t, n, 0)] + Least[KidHeight(t, n, 1)]
  BY <1>8, <1>9, LeastOfKids
<1>11. Least[KidHeight(t, n, 0)] <= n - lo[n] /\ Least[KidHeight(t, n, 1)] <= hi[n] - n
  <2>1. SlotHi(hi, n, 0) = n /\ SlotLo(lo, n, 0) = lo[n] /\ SlotHi(hi, n, 1) = hi[n] /\ SlotLo(lo, n, 1) = n
    BY DEF SlotLo, SlotHi
  <2>2. Least[KidHeight(t, n, 0)] <= SlotHi(hi, n, 0) - SlotLo(lo, n, 0)
    BY <1>7
  <2>3. Least[KidHeight(t, n, 1)] <= SlotHi(hi, n, 1) - SlotLo(lo, n, 1)
    BY <1>7
  <2> QED BY <2>1, <2>2, <2>3
<1>12. /\ Least[KidHeight(t, n, 0)] \in Nat /\ Least[KidHeight(t, n, 1)] \in Nat
       /\ Least[t.height[n]] \in Nat
  BY <1>5, <1>9, LeastGrows, NodeType
<1>13. n \in Int /\ lo[n] \in Int /\ hi[n] \in Int
  BY <1>1, <1>5
<1> QED BY <1>5, <1>10, <1>11, <1>12, <1>13

\* The stack of an iterator is longer than the tree is high.
LEMMA NotTooHigh ==
  ASSUME NEW t, TreeType(t), NEW lo, NEW hi, Placed(t, lo, hi), Even(t)
  PROVE  KidHeight(t, MapO, 0) \in Nat /\ KidHeight(t, MapO, 0) < CO_AVL_STACK_MAX_DEPTH
<1> DEFINE h == KidHeight(t, MapO, 0)
           D == CO_AVL_STACK_MAX_DEPTH
           r == t.kid[MapO][0]
<1>1. MapO \in Owner(t)
  BY DEF Owner
<1>2. h \in Nat
  BY <1>1, KidHeightType
<1>3. D \in Nat /\ MaxKey + 1 < Least[D] /\ MaxKey \in Nat
  BY DepthAssumption, KeyAssumption
<1>4. Least[h] <= MaxKey + 1
  <2>1. CASE r = 0
    <3>1. h = 0
      BY <2>1, NodeType DEF KidHeight
    <3> QED BY <1>3, <3>1, LeastValues
  <2>2. CASE r # 0
    <3>1. r \in Nodes(t) /\ lo[r] = lo[MapO] /\ hi[r] = MapO
      BY <1>1, <2>2 DEF Placed, Kids, SlotLo, SlotHi
    <3>2. lo[r] = 0
      BY <3>1 DEF Placed, Wide
    <3>3. Least[t.height[r]] <= hi[r] - lo[r]
      BY <3>1, LeastWide
    <3>4. hi[r] - lo[r] = MaxKey + 1
      BY <1>3, <3>1, <3>2 DEF MapO
    <3> QED BY <3>3, <3>4 DEF KidHeight
  <2> QED BY <2>1, <2>2
<1>5. ASSUME D <= h PROVE FALSE
  <2>1. Least[D] <= Least[h] /\ Least[D] \in Nat /\ Least[h] \in Nat
    BY <1>2, <1>3, <1>5, LeastGrows
  <2> QED BY <1>3, <1>4, <2>1
<1> HIDE DEF h, D
<1>6. h < D
  BY <1>2, <1>3, <1>5
<1> QED BY <1>2, <1>6 DEF h, D

-----------------------------------------------------------------------------
(***************************************************************************)
(* A traversal                                                             *)
(***************************************************************************)

\* The last key visited, the node whose call is innermost, and the keys visited.
LastOf(V) == IF V = <<>> THEN 0 ELSE V[Len(V)]
TopOf(P)  == IF P = <<>> THEN MapO ELSE P[Len(P)]
SeenIn(V) == {V[j] : j \in DOMAIN V}
Ascends(V) == \A j, l \in DOMAIN V : j < l => V[j] < V[l]

\* what a callback that returned 0 for the key st leaves out
Skip(t, hi, V, st) == IF st \in SeenIn(V) THEN {n \in Nodes(t) : st < n /\ n < hi[st]} ELSE {}

\* The stack has nodes that are not seen yet, each to the left of the one that
\* was pushed before it, and there are as many as its heights leave room for.
Stack(t, hi, P, L) ==
  /\ P \in Seq(Nodes(t))
  /\ \A j \in 1 .. Len(P) : /\ hi[P[j]] = IF j = 1 THEN MapO ELSE P[j - 1]
                            /\ t.height[P[j]] + j <= KidHeight(t, MapO, 0) + 1
                            /\ L < P[j]
  /\ \A j, l \in 1 .. Len(P) : j < l => P[l] < P[j]

\* The nodes up to the last one are seen.
Passed(t, hi, V, st) ==
  /\ V \in Seq(Nodes(t)) /\ Ascends(V)
  /\ SeenIn(V) = {n \in Nodes(t) : n <= LastOf(V)} \ Skip(t, hi, V, st)
  /\ st \in SeenIn(V) => LastOf(V) = st \/ hi[st] <= LastOf(V)

\* The current node is below the top of the stack.
Point(t, hi, P, c) ==
  c # 0 => /\ c \in Nodes(t) /\ hi[c] = TopOf(P)
           /\ t.height[c] + Len(P) <= KidHeight(t, MapO, 0)

\* The next node is the leftmost one of the current node, if there is one, and
\* else on top of the stack.
Going(t, lo, hi, P, c, V, st) ==
  /\ c # 0 => lo[c] = LastOf(V)
  /\ c = 0 => \A n \in Nodes(t) : LastOf(V) < n /\ n < TopOf(P) => n \in Skip(t, hi, V, st)
  /\ st \in SeenIn(V) /\ LastOf(V) = st => c = 0 /\ TopOf(P) = hi[st]

\* the walk is about to go to c, or stands at the node c
Moving(t, lo, hi, P, c, V, st) ==
  Stack(t, hi, P, LastOf(V)) /\ Passed(t, hi, V, st) /\ Point(t, hi, P, c)
  /\ Going(t, lo, hi, P, c, V, st)

Standing(t, lo, hi, P, c, V, st) ==
  Stack(t, hi, P, LastOf(V)) /\ Passed(t, hi, V, st) /\ Point(t, hi, P, c)
  /\ c = LastOf(V) /\ c # 0

LEMMA SeqPushed ==
  ASSUME NEW S, NEW P \in Seq(S), NEW c \in S
  PROVE  /\ Append(P, c) \in Seq(S) /\ Len(Append(P, c)) = Len(P) + 1
         /\ Append(P, c)[Len(P) + 1] = c /\ \A j \in 1 .. Len(P) : Append(P, c)[j] = P[j]
         /\ Append(P, c) # <<>> /\ Len(P) \in Nat
         /\ DOMAIN P = 1 .. Len(P) /\ DOMAIN Append(P, c) = 1 .. Len(P) + 1
  OBVIOUS

LEMMA SeqPopped ==
  ASSUME NEW S, NEW P \in Seq(S), P # <<>>
  PROVE  LET Q == SubSeq(P, 1, Len(P) - 1)
         IN /\ Q \in Seq(S) /\ Len(Q) = Len(P) - 1 /\ Len(P) \in Nat /\ Len(P) > 0
            /\ \A j \in 1 .. Len(P) - 1 : Q[j] = P[j]
            /\ Q = <<>> <=> Len(P) = 1
<1> DEFINE Q == SubSeq(P, 1, Len(P) - 1)
<1>1. Len(P) \in Nat /\ Len(P) > 0
  <2>1. Len(P) \in Nat \ {0}
    BY EmptySeq
  <2> QED BY <2>1
<1>2. Q \in Seq(S) /\ Len(Q) = Len(P) - 1 /\ \A j \in 1 .. Len(P) - 1 : Q[j] = P[j]
  <2> DEFINE d == Len(P) - 1
  <2>1. d \in Int /\ 1 \in Int /\ d >= 0 /\ \A n \in 1 .. d : P[n] \in S
    BY <1>1
  <2> HIDE DEF d
  <2>2. /\ SubSeq(P, 1, d) \in Seq(S) /\ Len(SubSeq(P, 1, d)) = IF 1 <= d THEN d - 1 + 1 ELSE 0
        /\ \A n \in 1 .. d - 1 + 1 : SubSeq(P, 1, d)[n] = P[1 + n - 1]
    BY <2>1, SubSeqProperties
  <2>3. Len(SubSeq(P, 1, d)) = d /\ \A n \in 1 .. d : SubSeq(P, 1, d)[n] = P[n]
    BY <2>1, <2>2
  <2> QED BY <2>2, <2>3 DEF d
<1>4. Q = <<>> <=> Len(Q) = 0
  <2> HIDE DEF Q
  <2> QED BY <1>2, EmptySeq
<1> QED BY <1>1, <1>2, <1>4

LEMMA LastOfIs ==
  ASSUME NEW S, NEW V \in Seq(S), NEW m
  PROVE  /\ V = <<>> => LastOf(V) = 0 /\ SeenIn(V) = {}
         /\ V # <<>> => LastOf(V) \in S /\ LastOf(V) \in SeenIn(V)
         /\ m \in S => LastOf(Append(V, m)) = m /\ SeenIn(Append(V, m)) = SeenIn(V) \cup {m}
<1>1. V # <<>> => Len(V) \in DOMAIN V /\ V[Len(V)] \in S
  OBVIOUS
<1>2. ASSUME m \in S PROVE SeenIn(Append(V, m)) = SeenIn(V) \cup {m} /\ LastOf(Append(V, m)) = m
  <2> DEFINE W == Append(V, m)
  <2>1. /\ W \in Seq(S) /\ Len(W) = Len(V) + 1 /\ W[Len(V) + 1] = m /\ W # <<>> /\ Len(V) \in Nat
        /\ \A j \in 1 .. Len(V) : W[j] = V[j]
        /\ DOMAIN V = 1 .. Len(V) /\ DOMAIN W = 1 .. Len(V) + 1
    BY <1>2, SeqPushed
  <2> HIDE DEF W
  <2>2. 1 .. Len(V) + 1 = 1 .. Len(V) \cup {Len(V) + 1}
    BY <2>1
  <2>3. SeenIn(W) = SeenIn(V) \cup {m}
    BY <2>1, <2>2 DEF SeenIn
  <2>4. LastOf(W) = m
    BY <2>1 DEF LastOf
  <2> QED BY <2>3, <2>4 DEF W
<1>3. V = <<>> => SeenIn(V) = {}
  BY DEF SeenIn
<1> QED BY <1>1, <1>2, <1>3 DEF LastOf, SeenIn

LEMMA WalkFacts ==
  ASSUME NEW t, TreeType(t), NEW lo, NEW hi, Placed(t, lo, hi), Even(t)
  PROVE  /\ \A n \in Nodes(t) : /\ n \in Owner(t) /\ n \in Int /\ n # 0 /\ n > 0 /\ n < MapO
                                /\ lo[n] \in Int /\ hi[n] \in Int /\ lo[n] < n /\ n < hi[n]
                                /\ t.height[n] \in Nat /\ t.height[n] > 0
         /\ MapO \in Owner(t) /\ MapO \in Int /\ KidHeight(t, MapO, 0) \in Int
         /\ lo[MapO] = 0 /\ hi[MapO] = Top
         /\ \A n \in Nodes(t), s \in {0, 1} : t.kid[n][s] # 0 =>
              /\ t.kid[n][s] \in Nodes(t)
              /\ lo[t.kid[n][s]] = SlotLo(lo, n, s) /\ hi[t.kid[n][s]] = SlotHi(hi, n, s)
              /\ t.height[t.kid[n][s]] < t.height[n]
<1>1. MapO \in Owner(t) /\ MapO \in Int
  BY Constants DEF Owner
<1>2. \A n \in Nodes(t) : n \in Owner(t) /\ n \in Int /\ n # 0 /\ n > 0 /\ n < MapO
                          /\ t.height[n] \in Nat /\ t.height[n] > 0
  BY NodeType, Constants DEF Owner
<1>3. \A n \in Nodes(t) : lo[n] \in Int /\ hi[n] \in Int /\ lo[n] < n /\ n < hi[n]
  BY <1>2, BoundsAre DEF Placed, Wide
<1>4. lo[MapO] = 0 /\ hi[MapO] = Top /\ KidHeight(t, MapO, 0) \in Int
  BY <1>1, KidHeightType DEF Placed, Wide
<1>5. ASSUME NEW n \in Nodes(t), NEW s \in {0, 1}, t.kid[n][s] # 0
      PROVE  /\ t.kid[n][s] \in Nodes(t)
             /\ lo[t.kid[n][s]] = SlotLo(lo, n, s) /\ hi[t.kid[n][s]] = SlotHi(hi, n, s)
             /\ t.height[t.kid[n][s]] < t.height[n]
  <2>1. /\ t.kid[n][s] \in Nodes(t)
        /\ lo[t.kid[n][s]] = SlotLo(lo, n, s) /\ hi[t.kid[n][s]] = SlotHi(hi, n, s)
    BY <1>2, <1>5 DEF Placed, Kids
  <2>2. t.height[n] = 1 + Larger(KidHeight(t, n, 0), KidHeight(t, n, 1))
    BY DEF Even, Bal
  <2>3. KidHeight(t, n, 0) \in Int /\ KidHeight(t, n, 1) \in Int
    BY <1>2, KidHeightType
  <2>4. KidHeight(t, n, 0) < t.height[n] /\ KidHeight(t, n, 1) < t.height[n]
    <3> DEFINE a == KidHeight(t, n, 0)
               b == KidHeight(t, n, 1)
    <3>1. a \in Int /\ b \in Int /\ t.height[n] = 1 + Larger(a, b)
      BY <2>2, <2>3
    <3> HIDE DEF a, b
    <3>2. a < t.height[n] /\ b < t.height[n]
      BY <3>1 DEF Larger
    <3> QED BY <3>2 DEF a, b
  <2>5. KidHeight(t, n, s) < t.height[n]
    BY <2>4
  <2> QED BY <2>1, <2>5 DEF KidHeight
<1> QED BY <1>1, <1>2, <1>3, <1>4, <1>5

\* A traversal starts at the root.
LEMMA WalkStarts ==
  ASSUME NEW t, TreeType(t), NEW lo, NEW hi, Placed(t, lo, hi), Even(t), NEW st
  PROVE  Moving(t, lo, hi, <<>>, t.kid[MapO][0], <<>>, st)
<1> DEFINE c == t.kid[MapO][0]
<1>0. MapO \in Owner(t) /\ MapO \in Int /\ lo[MapO] = 0
  BY WalkFacts
<1>1. /\ c # 0 => c \in Nodes(t) /\ lo[c] = 0 /\ hi[c] = MapO
      /\ c = 0 => \A m \in Nodes(t) : ~ (0 < m /\ m < MapO)
  BY <1>0 DEF Placed, Kids, SlotLo, SlotHi
<1>2. LastOf(<<>>) = 0 /\ TopOf(<<>>) = MapO /\ SeenIn(<<>>) = {}
      /\ <<>> \in Seq(Nodes(t)) /\ Len(<<>>) = 0 /\ DOMAIN <<>> = {}
  BY EmptySeq DEF LastOf, TopOf, SeenIn
<1>3. Stack(t, hi, <<>>, LastOf(<<>>))
  <2>1. 1 .. Len(<<>>) = {}
    BY <1>2
  <2> QED BY <1>2, <2>1 DEF Stack
<1>4. Passed(t, hi, <<>>, st)
  <2>1. Ascends(<<>>)
    BY <1>2 DEF Ascends
  <2>2. {n \in Nodes(t) : n <= LastOf(<<>>)} = {}
    BY <1>2, WalkFacts
  <2> QED BY <1>2, <2>1, <2>2 DEF Passed
<1>5. Point(t, hi, <<>>, c)
  <2>1. c # 0 => t.height[c] + Len(<<>>) = KidHeight(t, MapO, 0)
    BY <1>1, <1>2, WalkFacts DEF KidHeight
  <2>2. KidHeight(t, MapO, 0) \in Int
    BY WalkFacts
  <2> QED BY <1>1, <1>2, <2>1, <2>2 DEF Point
<1>6. Going(t, lo, hi, <<>>, c, <<>>, st)
  BY <1>1, <1>2 DEF Going
<1> QED BY <1>3, <1>4, <1>5, <1>6 DEF Moving

LEMMA TopIs ==
  ASSUME NEW t, TreeType(t), NEW lo, NEW hi, Placed(t, lo, hi), Even(t),
         NEW P, NEW L, Stack(t, hi, P, L)
  PROVE  /\ P \in Seq(Nodes(t)) /\ Len(P) \in Nat /\ DOMAIN P = 1 .. Len(P)
         /\ TopOf(P) \in Owner(t) /\ TopOf(P) \in Int
         /\ \A j \in 1 .. Len(P) : TopOf(P) <= P[j] /\ P[j] \in Nodes(t)
         /\ P # <<>> => Len(P) \in 1 .. Len(P) /\ TopOf(P) = P[Len(P)] /\ TopOf(P) \in Nodes(t)
<1>1. P \in Seq(Nodes(t)) /\ Len(P) \in Nat /\ DOMAIN P = 1 .. Len(P) /\ \A j \in 1 .. Len(P) : P[j] \in Nodes(t)
  BY DEF Stack
<1>2. CASE P = <<>>
  <2>1. 1 .. Len(P) = {}
    BY <1>2
  <2> QED BY <1>1, <1>2, <2>1, WalkFacts DEF TopOf
<1>3. CASE P # <<>>
  <2>0. Len(P) \in Nat \ {0}
    BY <1>1, <1>3, EmptySeq
  <2>1. Len(P) \in 1 .. Len(P) /\ Len(P) > 0
    BY <2>0
  <2>2. TopOf(P) = P[Len(P)] /\ TopOf(P) \in Nodes(t) /\ TopOf(P) \in Int
    BY <1>1, <1>3, <2>1, WalkFacts DEF TopOf
  <2>3. \A j \in 1 .. Len(P) : TopOf(P) <= P[j]
    <3> TAKE j \in 1 .. Len(P)
    <3>1. j < Len(P) \/ j = Len(P)
      BY <2>0
    <3>2. j < Len(P) => P[Len(P)] < P[j]
      BY <2>1 DEF Stack
    <3>3. P[j] \in Int /\ P[Len(P)] \in Int
      BY <1>1, <2>1, WalkFacts
    <3> QED BY <2>2, <3>1, <3>2, <3>3
  <2> QED BY <1>1, <2>1, <2>2, <2>3, WalkFacts
<1> QED BY <1>2, <1>3

\* The node goes on the stack and its left kid is next.
LEMMA WalkLeft ==
  ASSUME NEW t, TreeType(t), NEW lo, NEW hi, Placed(t, lo, hi), Even(t),
         NEW P, NEW c, c # 0, NEW V, NEW st, Moving(t, lo, hi, P, c, V, st)
  PROVE  Moving(t, lo, hi, Append(P, c), t.kid[c][0], V, st)
<1> DEFINE Q == Append(P, c)
           L == LastOf(V)
           H == KidHeight(t, MapO, 0)
           e == t.kid[c][0]
<1>1. Stack(t, hi, P, L) /\ Passed(t, hi, V, st) /\ Point(t, hi, P, c) /\ Going(t, lo, hi, P, c, V, st)
  BY DEF Moving
<1>2. /\ P \in Seq(Nodes(t)) /\ Len(P) \in Nat
      /\ TopOf(P) \in Int
      /\ \A j \in 1 .. Len(P) : TopOf(P) <= P[j] /\ P[j] \in Nodes(t)
      /\ P # <<>> => TopOf(P) = P[Len(P)]
  BY <1>1, TopIs
<1>3. /\ c \in Nodes(t) /\ hi[c] = TopOf(P) /\ t.height[c] + Len(P) <= H
      /\ lo[c] = L /\ ~ (st \in SeenIn(V) /\ L = st)
  BY <1>1 DEF Point, Going
<1>4. c \in Owner(t) /\ c \in Int /\ L \in Int /\ L < c /\ c < TopOf(P) /\ t.height[c] \in Nat /\ H \in Int
  BY <1>3, WalkFacts
<1>5. /\ Q \in Seq(Nodes(t)) /\ Len(Q) = Len(P) + 1 /\ Q[Len(P) + 1] = c /\ Q # <<>>
      /\ \A j \in 1 .. Len(P) : Q[j] = P[j]
  BY <1>2, <1>3, SeqPushed
<1> HIDE DEF Q
<1>6. \A j \in 1 .. Len(Q) : j \in 1 .. Len(P) \/ j = Len(P) + 1
  BY <1>2, <1>5
<1>7. Stack(t, hi, Q, L)
  <2>1. ASSUME NEW j \in 1 .. Len(P)
        PROVE  /\ hi[Q[j]] = IF j = 1 THEN MapO ELSE Q[j - 1]
               /\ t.height[Q[j]] + j <= H + 1
               /\ L < Q[j]
    <3>1. j # 1 => j - 1 \in 1 .. Len(P)
      BY <1>2
    <3> QED BY <1>1, <1>5, <3>1 DEF Stack
  <2>2. /\ hi[c] = IF Len(P) + 1 = 1 THEN MapO ELSE Q[(Len(P) + 1) - 1]
        /\ t.height[c] + (Len(P) + 1) <= H + 1
        /\ L < c
    <3>1. CASE P = <<>>
      <4>1. Len(P) = 0 /\ TopOf(P) = MapO
        BY <3>1, EmptySeq DEF TopOf
      <4>2. Len(P) + 1 = 1 /\ t.height[c] + (Len(P) + 1) <= H + 1
        BY <1>3, <1>4, <4>1
      <4> QED BY <1>3, <1>4, <4>1, <4>2
    <3>2. CASE P # <<>>
      <4>1. Len(P) \in Nat \ {0}
        BY <1>2, <3>2, EmptySeq
      <4>2. Len(P) + 1 # 1 /\ (Len(P) + 1) - 1 = Len(P) /\ Len(P) \in 1 .. Len(P)
        BY <4>1
      <4>3. t.height[c] + (Len(P) + 1) <= H + 1
        BY <1>2, <1>3, <1>4
      <4> QED BY <1>2, <1>3, <1>4, <1>5, <3>2, <4>2, <4>3
    <3> QED BY <3>1, <3>2
  <2>3. ASSUME NEW j \in 1 .. Len(Q), NEW l \in 1 .. Len(Q), j < l PROVE Q[l] < Q[j]
    <3>1. j \in 1 .. Len(P)
      BY <1>2, <1>5, <2>3
    <3>2. CASE l \in 1 .. Len(P)
      BY <1>1, <1>5, <2>3, <3>1, <3>2 DEF Stack
    <3>3. CASE l = Len(P) + 1
      <4>1. Q[l] = c /\ Q[j] = P[j] /\ TopOf(P) <= P[j] /\ P[j] \in Int
        BY <1>2, <1>5, <3>1, <3>3, WalkFacts
      <4> QED BY <1>2, <1>4, <4>1
    <3> QED BY <1>6, <3>2, <3>3
  <2>4. ASSUME NEW j \in 1 .. Len(Q)
        PROVE  /\ hi[Q[j]] = IF j = 1 THEN MapO ELSE Q[j - 1]
               /\ t.height[Q[j]] + j <= H + 1
               /\ L < Q[j]
    <3>1. CASE j \in 1 .. Len(P)
      BY <2>1, <3>1
    <3>2. CASE j = Len(P) + 1
      BY <1>5, <2>2, <3>2
    <3> QED BY <1>6, <3>1, <3>2
  <2> QED BY <1>5, <2>3, <2>4 DEF Stack
<1>8. TopOf(Q) = c
  BY <1>5 DEF TopOf
<1>9. /\ e # 0 => /\ e \in Nodes(t) /\ lo[e] = L /\ hi[e] = c
                  /\ t.height[e] < t.height[c]
      /\ e = 0 => \A m \in Nodes(t) : ~ (L < m /\ m < c)
  <2>1. e # 0 => /\ e \in Nodes(t) /\ lo[e] = SlotLo(lo, c, 0) /\ hi[e] = SlotHi(hi, c, 0)
                 /\ t.height[e] < t.height[c]
    <3>1. \A n \in Nodes(t), s \in {0, 1} : t.kid[n][s] # 0 =>
            /\ t.kid[n][s] \in Nodes(t)
            /\ lo[t.kid[n][s]] = SlotLo(lo, n, s) /\ hi[t.kid[n][s]] = SlotHi(hi, n, s)
            /\ t.height[t.kid[n][s]] < t.height[n]
      BY WalkFacts
    <3> QED BY <1>3, <3>1, Zenon
  <2>2. e = 0 => \A m \in Nodes(t) : ~ (SlotLo(lo, c, 0) < m /\ m < SlotHi(hi, c, 0))
    BY <1>4 DEF Placed, Kids
  <2>3. SlotLo(lo, c, 0) = L /\ SlotHi(hi, c, 0) = c
    BY <1>3 DEF SlotLo, SlotHi
  <2> QED BY <2>1, <2>2, <2>3
<1>10. Point(t, hi, Q, e)
  <2>1. SUFFICES ASSUME e # 0 PROVE t.height[e] + Len(Q) <= H
    BY <1>8, <1>9 DEF Point
  <2>2. t.height[e] \in Nat
    BY <1>9, <2>1, WalkFacts
  <2> QED BY <1>2, <1>3, <1>4, <1>5, <1>9, <2>1, <2>2
<1>11. Going(t, lo, hi, Q, e, V, st)
  BY <1>3, <1>8, <1>9 DEF Going
<1>12. Moving(t, lo, hi, Q, e, V, st)
  BY <1>1, <1>7, <1>10, <1>11 DEF Moving
<1> QED BY <1>12 DEF Q

\* The node on top of the stack is the next one.
LEMMA WalkVisit ==
  ASSUME NEW t, TreeType(t), NEW lo, NEW hi, Placed(t, lo, hi), Even(t),
         NEW P, P # <<>>, NEW V, NEW st, Moving(t, lo, hi, P, 0, V, st)
  PROVE  Standing(t, lo, hi, SubSeq(P, 1, Len(P) - 1), P[Len(P)], Append(V, P[Len(P)]), st)
<1> DEFINE m == P[Len(P)]
           Q == SubSeq(P, 1, Len(P) - 1)
           W == Append(V, m)
           L == LastOf(V)
           H == KidHeight(t, MapO, 0)
<1>1. Stack(t, hi, P, L) /\ Passed(t, hi, V, st) /\ Going(t, lo, hi, P, 0, V, st)
  BY DEF Moving
<1>2. /\ P \in Seq(Nodes(t)) /\ Len(P) \in Nat /\ Len(P) \in 1 .. Len(P)
      /\ TopOf(P) = m /\ m \in Nodes(t)
      /\ \A j \in 1 .. Len(P) : P[j] \in Nodes(t)
  BY <1>1, TopIs
<1>3. /\ Q \in Seq(Nodes(t)) /\ Len(Q) = Len(P) - 1 /\ Len(P) > 0
      /\ \A j \in 1 .. Len(P) - 1 : Q[j] = P[j]
      /\ Q = <<>> <=> Len(P) = 1
  BY <1>2, SeqPopped
<1>4. /\ V \in Seq(Nodes(t)) /\ Ascends(V)
      /\ SeenIn(V) = {n \in Nodes(t) : n <= L} \ Skip(t, hi, V, st)
      /\ st \in SeenIn(V) => L = st \/ hi[st] <= L
      /\ DOMAIN V = 1 .. Len(V)
  BY <1>1 DEF Passed
<1>5. /\ \A n \in Nodes(t) : L < n /\ n < m => n \in Skip(t, hi, V, st)
      /\ st \in SeenIn(V) /\ L = st => m = hi[st]
  BY <1>1, <1>2 DEF Going
<1>6. /\ L < m /\ m \in Int /\ hi[m] \in Int /\ m < hi[m] /\ m # 0
      /\ \A n \in Nodes(t) : n \in Int /\ hi[n] \in Int /\ n < hi[n]
      /\ L \in Int
  <2>1. L < m
    BY <1>1, <1>2 DEF Stack
  <2>2. V = <<>> => L = 0
    BY DEF LastOf
  <2>3. V # <<>> => L \in Nodes(t)
    BY <1>4, LastOfIs
  <2> QED BY <1>2, <2>1, <2>2, <2>3, WalkFacts
<1>7. LastOf(W) = m /\ SeenIn(W) = SeenIn(V) \cup {m}
  BY <1>2, <1>4, LastOfIs
<1>8. /\ W \in Seq(Nodes(t)) /\ Len(W) = Len(V) + 1 /\ W[Len(V) + 1] = m /\ Len(V) \in Nat
      /\ \A j \in 1 .. Len(V) : W[j] = V[j]
      /\ DOMAIN W = 1 .. Len(V) + 1
  BY <1>2, <1>4, SeqPushed
<1>9. \A j \in 1 .. Len(V) : V[j] <= L /\ V[j] \in Nodes(t)
  <2> TAKE j \in 1 .. Len(V)
  <2>1. V[j] \in SeenIn(V)
    BY <1>4 DEF SeenIn
  <2> QED BY <1>4, <2>1
<1> HIDE DEF W, Q, m, L
<1>10. Ascends(W)
  <2> SUFFICES ASSUME NEW j \in 1 .. Len(V) + 1, NEW l \in 1 .. Len(V) + 1, j < l
               PROVE  W[j] < W[l]
    BY <1>8 DEF Ascends
  <2>1. j \in 1 .. Len(V) /\ (l \in 1 .. Len(V) \/ l = Len(V) + 1)
    BY <1>8
  <2>2. CASE l \in 1 .. Len(V)
    BY <1>4, <1>8, <2>1, <2>2 DEF Ascends
  <2>3. CASE l = Len(V) + 1
    <3>1. W[l] = m /\ W[j] = V[j] /\ V[j] <= L /\ V[j] \in Int
      BY <1>6, <1>8, <1>9, <2>1, <2>3
    <3> QED BY <1>6, <3>1
  <2> QED BY <2>1, <2>2, <2>3
<1>11. st \in SeenIn(V) => st \in Nodes(t) /\ hi[st] <= m /\ st <= L
  <2> SUFFICES ASSUME st \in SeenIn(V) PROVE st \in Nodes(t) /\ hi[st] <= m /\ st <= L
    OBVIOUS
  <2>1. st \in Nodes(t) /\ st <= L
    BY <1>4
  <2>2. hi[st] \in Int
    BY <1>6, <2>1
  <2> QED BY <1>4, <1>5, <1>6, <2>1, <2>2
<1>12. st = m => st \notin SeenIn(V)
  BY <1>6, <1>11
<1>13. SeenIn(W) = {n \in Nodes(t) : n <= m} \ Skip(t, hi, W, st)
  <2>1. CASE st \in SeenIn(V)
    <3>1. st \in SeenIn(W)
      BY <1>7, <2>1
    <3>2. Skip(t, hi, W, st) = Skip(t, hi, V, st) /\ Skip(t, hi, V, st) = {n \in Nodes(t) : st < n /\ n < hi[st]}
      BY <2>1, <3>1 DEF Skip
    <3>3. m \notin Skip(t, hi, V, st)
      BY <1>6, <1>11, <2>1, <3>2
    <3>4. ASSUME NEW n \in Nodes(t)
          PROVE  n <= m /\ n \notin Skip(t, hi, V, st) <=> (n <= L /\ n \notin Skip(t, hi, V, st)) \/ n = m
      <4>1. n \in Int
        BY <1>6
      <4>2. n <= m <=> (n <= L \/ (L < n /\ n < m) \/ n = m)
        BY <1>6, <4>1
      <4> QED BY <1>5, <3>3, <4>2
    <3> QED BY <1>2, <1>4, <1>7, <3>2, <3>4
  <2>2. CASE st \notin SeenIn(V)
    <3>1. Skip(t, hi, V, st) = {}
      BY <2>2 DEF Skip
    <3>2. \A n \in Nodes(t) : ~ (L < n /\ n < m)
      BY <1>5, <3>1
    <3>3. \A n \in Nodes(t) : n <= m => n \notin Skip(t, hi, W, st)
      <4>1. CASE st = m
        BY <1>6, <4>1 DEF Skip
      <4>2. CASE st # m
        BY <1>7, <2>2, <4>2 DEF Skip
      <4> QED BY <4>1, <4>2
    <3>4. \A n \in Nodes(t) : n <= m <=> n <= L \/ n = m
      BY <1>6, <3>2
    <3>5. \A n : n \in SeenIn(W) <=> n \in {o \in Nodes(t) : o <= m} \ Skip(t, hi, W, st)
      <4> TAKE n
      <4>1. n \in SeenIn(W) <=> (n \in Nodes(t) /\ n <= L) \/ n = m
        BY <1>4, <1>7, <3>1
      <4>2. n \in SeenIn(W) <=> n \in Nodes(t) /\ n <= m
        BY <1>2, <3>4, <4>1
      <4> QED BY <3>3, <4>2
    <3> QED BY <3>5
  <2> QED BY <2>1, <2>2
<1>14. Passed(t, hi, W, st)
  <2>1. st \in SeenIn(W) => m = st \/ hi[st] <= m
    BY <1>7, <1>11
  <2> QED BY <1>7, <1>8, <1>10, <1>13, <2>1 DEF Passed
<1>15. \A j \in 1 .. Len(Q) : j \in 1 .. Len(P) /\ j < Len(P) /\ Q[j] = P[j]
                              /\ (j # 1 => j - 1 \in 1 .. Len(P) - 1)
  BY <1>2, <1>3
<1>16. Stack(t, hi, Q, m)
  <2>1. ASSUME NEW j \in 1 .. Len(Q)
        PROVE  /\ hi[Q[j]] = IF j = 1 THEN MapO ELSE Q[j - 1]
               /\ t.height[Q[j]] + j <= H + 1
               /\ m < Q[j]
    <3>1. j # 1 => Q[j - 1] = P[j - 1]
      BY <1>3, <1>15
    <3>2. m < P[j]
      BY <1>1, <1>2, <1>15 DEF Stack, m
    <3> QED BY <1>1, <1>15, <3>1, <3>2 DEF Stack
  <2>2. \A j, l \in 1 .. Len(Q) : j < l => Q[l] < Q[j]
    BY <1>1, <1>15 DEF Stack
  <2> QED BY <1>3, <2>1, <2>2 DEF Stack
<1>17. Point(t, hi, Q, m)
  <2>1. /\ hi[m] = IF Len(P) = 1 THEN MapO ELSE P[Len(P) - 1]
        /\ t.height[m] + Len(P) <= H + 1
    BY <1>1, <1>2 DEF Stack, m
  <2>2. hi[m] = TopOf(Q)
    <3>1. CASE Len(P) = 1
      BY <1>3, <2>1, <3>1 DEF TopOf
    <3>2. CASE Len(P) # 1
      <4>1. Len(P) - 1 \in 1 .. Len(P) - 1
        BY <1>2, <1>3, <3>2
      <4> QED BY <1>3, <2>1, <3>2, <4>1 DEF TopOf
    <3> QED BY <3>1, <3>2
  <2>3. t.height[m] \in Nat /\ H \in Int
    BY <1>2, WalkFacts
  <2>4. t.height[m] + Len(Q) <= H
    BY <1>2, <1>3, <2>1, <2>3
  <2> QED BY <1>2, <2>2, <2>4 DEF Point
<1>18. Standing(t, lo, hi, Q, m, W, st)
  BY <1>6, <1>7, <1>14, <1>16, <1>17 DEF Standing
<1> QED BY <1>18 DEF Q, W, m

\* The right kid of the node is next.
LEMMA WalkRight ==
  ASSUME NEW t, TreeType(t), NEW lo, NEW hi, Placed(t, lo, hi), Even(t),
         NEW P, NEW c, NEW V, NEW st, c # st, Standing(t, lo, hi, P, c, V, st)
  PROVE  Moving(t, lo, hi, P, t.kid[c][1], V, st)
<1> DEFINE L == LastOf(V)
           H == KidHeight(t, MapO, 0)
           e == t.kid[c][1]
<1>1. Stack(t, hi, P, L) /\ Passed(t, hi, V, st) /\ Point(t, hi, P, c) /\ c = L /\ c # 0
  BY DEF Standing
<1>2. c \in Nodes(t) /\ hi[c] = TopOf(P) /\ t.height[c] + Len(P) <= H
  BY <1>1 DEF Point
<1>3. c \in Owner(t) /\ t.height[c] \in Nat /\ H \in Int /\ Len(P) \in Nat
  BY <1>1, <1>2, WalkFacts, TopIs
<1>4. /\ e # 0 => /\ e \in Nodes(t) /\ lo[e] = c /\ hi[e] = TopOf(P)
                  /\ t.height[e] < t.height[c] /\ t.height[e] \in Nat
      /\ e = 0 => \A m \in Nodes(t) : ~ (c < m /\ m < TopOf(P))
  <2>1. e # 0 => /\ e \in Nodes(t) /\ lo[e] = SlotLo(lo, c, 1) /\ hi[e] = SlotHi(hi, c, 1)
                 /\ t.height[e] < t.height[c]
    <3>1. \A n \in Nodes(t), s \in {0, 1} : t.kid[n][s] # 0 =>
            /\ t.kid[n][s] \in Nodes(t)
            /\ lo[t.kid[n][s]] = SlotLo(lo, n, s) /\ hi[t.kid[n][s]] = SlotHi(hi, n, s)
            /\ t.height[t.kid[n][s]] < t.height[n]
      BY WalkFacts
    <3> QED BY <1>2, <3>1, Zenon
  <2>2. e = 0 => \A m \in Nodes(t) : ~ (SlotLo(lo, c, 1) < m /\ m < SlotHi(hi, c, 1))
    BY <1>3 DEF Placed, Kids
  <2>3. SlotLo(lo, c, 1) = c /\ SlotHi(hi, c, 1) = TopOf(P)
    BY <1>2 DEF SlotLo, SlotHi
  <2> QED BY <2>1, <2>2, <2>3, WalkFacts
<1>5. Point(t, hi, P, e)
  <2>1. e # 0 => t.height[e] + Len(P) <= H
    BY <1>2, <1>3, <1>4
  <2> QED BY <1>4, <2>1 DEF Point
<1>6. Going(t, lo, hi, P, e, V, st)
  BY <1>1, <1>4 DEF Going
<1> QED BY <1>1, <1>5, <1>6 DEF Moving

\* After a callback that returned 0 the node on top of the stack is next.
LEMMA WalkStops ==
  ASSUME NEW t, TreeType(t), NEW lo, NEW hi, Placed(t, lo, hi), Even(t),
         NEW P, NEW V, NEW st, Standing(t, lo, hi, P, st, V, st)
  PROVE  Moving(t, lo, hi, P, 0, V, st)
<1> DEFINE L == LastOf(V)
<1>1. Stack(t, hi, P, L) /\ Passed(t, hi, V, st) /\ Point(t, hi, P, st) /\ st = L /\ st # 0
  BY DEF Standing
<1>2. hi[st] = TopOf(P)
  BY <1>1 DEF Point
<1>3. st \in SeenIn(V)
  <2>1. V \in Seq(Nodes(t))
    BY <1>1 DEF Passed
  <2>2. V # <<>>
    BY <1>1 DEF LastOf
  <2> QED BY <1>1, <2>1, <2>2, LastOfIs
<1>4. Going(t, lo, hi, P, 0, V, st)
  BY <1>1, <1>2, <1>3 DEF Going, Skip
<1> QED BY <1>1, <1>4 DEF Moving, Point

\* A traversal ends when there is nothing left.
Ended(t, hi, V, st) ==
  V \in Seq(Nodes(t)) /\ Ascends(V) /\ SeenIn(V) = Nodes(t) \ Skip(t, hi, V, st)

LEMMA WalkEnds ==
  ASSUME NEW t, TreeType(t), NEW lo, NEW hi, Placed(t, lo, hi), Even(t),
         NEW V, NEW st, Moving(t, lo, hi, <<>>, 0, V, st)
  PROVE  Ended(t, hi, V, st)
<1> DEFINE L == LastOf(V)
<1>1. Passed(t, hi, V, st) /\ Going(t, lo, hi, <<>>, 0, V, st)
  BY DEF Moving
<1>2. TopOf(<<>>) = MapO
  BY DEF TopOf
<1>3. \A n \in Nodes(t) : L < n => n \in Skip(t, hi, V, st)
  BY <1>1, <1>2, WalkFacts DEF Going
<1>4. V \in Seq(Nodes(t)) /\ Ascends(V) /\ SeenIn(V) = {n \in Nodes(t) : n <= L} \ Skip(t, hi, V, st)
  BY <1>1 DEF Passed
<1>5. L \in Int
  <2>1. V = <<>> => L = 0
    BY DEF LastOf
  <2>2. V # <<>> => L \in Nodes(t)
    BY <1>4, LastOfIs
  <2> QED BY <2>1, <2>2, WalkFacts
<1>6. \A n \in Nodes(t) : n <= L \/ L < n
  BY <1>5, WalkFacts
<1> QED BY <1>3, <1>4, <1>6 DEF Ended

\* The stack has room.
LEMMA StackFits ==
  ASSUME NEW t, TreeType(t), NEW lo, NEW hi, Placed(t, lo, hi), Even(t),
         NEW P, NEW L, Stack(t, hi, P, L)
  PROVE  Len(P) < CO_AVL_STACK_MAX_DEPTH
<1>1. KidHeight(t, MapO, 0) \in Nat /\ KidHeight(t, MapO, 0) < CO_AVL_STACK_MAX_DEPTH
  BY NotTooHigh
<1>2. P \in Seq(Nodes(t)) /\ Len(P) \in Nat /\ (P # <<>> => Len(P) \in 1 .. Len(P))
  BY TopIs
<1>3. CO_AVL_STACK_MAX_DEPTH \in Nat
  BY DepthAssumption
<1>4. CASE P = <<>>
  <2>1. Len(P) = 0
    BY <1>4, EmptySeq
  <2> QED BY <1>1, <1>3, <2>1
<1>5. CASE P # <<>>
  <2>1. t.height[P[Len(P)]] + Len(P) <= KidHeight(t, MapO, 0) + 1
    BY <1>2, <1>5 DEF Stack
  <2>2. P[Len(P)] \in Nodes(t)
    BY <1>2, <1>5
  <2>3. t.height[P[Len(P)]] \in Nat /\ t.height[P[Len(P)]] > 0
    BY <2>2, WalkFacts
  <2> QED BY <1>1, <1>2, <1>3, <2>1, <2>3
<1> QED BY <1>4, <1>5

-----------------------------------------------------------------------------
(***************************************************************************)
(* The inductive invariant                                                 *)
(***************************************************************************)

\* What a call may be doing, and a traversal or the caller.
Calls == {"add", "erase", "get", "adjust"}
Ops   == Calls \cup {"idle", "loop", "key", "each", "callback", "done"}

\* where a call or a traversal is
Working(t, lo, hi, o, k, w, P, c, V, st) ==
  /\ o \in Calls => k \in Key /\ PathOK(t, lo, hi, k, P) /\ V = <<>>
  /\ o = "add" => w \in Value
  /\ o = "erase" => Even(t) \/ Sinking(t, k, P)
  /\ o = "adjust" => Rising(t, k, P)
  /\ o \in {"loop", "each"} => Moving(t, lo, hi, P, c, V, st)
  /\ o \in {"key", "callback"} => Standing(t, lo, hi, P, c, V, st)
  /\ o \in {"loop", "key"} => st = 0
  /\ o = "done" => Ended(t, hi, V, st)
  /\ o = "idle" => V = <<>>

\* The invariant as a predicate on the values of the variables.
Good(t, o, k, w, P, c, V, st) ==
  /\ o \in Ops
  /\ TreeType(t)
  /\ o \notin {"erase", "adjust"} => Even(t)
  /\ \E lo, hi : Placed(t, lo, hi) /\ Working(t, lo, hi, o, k, w, P, c, V, st)

TreeInv == Good(tree, op, arg, new, path, current, visited, stop)
GoodNext == Good(tree', op', arg', new', path', current', visited', stop')

LEMMA EmptyIs ==
  /\ TreeType(EmptyTree) /\ Even(EmptyTree) /\ Nodes(EmptyTree) = {}
  /\ \E lo, hi : Placed(EmptyTree, lo, hi)
<1> DEFINE t == EmptyTree
           lo == [n \in 1 .. MapO |-> 0]
           hi == [n \in 1 .. MapO |-> Top]
<1>1. /\ t.kid = [n \in 0 .. MapO |-> [d \in {0, 1} |-> 0]]
      /\ t.height = [n \in 0 .. MaxKey |-> 0]
      /\ t.value = [n \in {} |-> 0]
      /\ t = [kid |-> t.kid, height |-> t.height, value |-> t.value]
  BY DEF EmptyTree, avl_nnil
<1> HIDE DEF t
<1>2. Nodes(t) = {}
  BY <1>1 DEF Nodes
<1>3. MaxKey \in Nat /\ MapO \in Nat /\ MapO \in 1 .. MapO /\ Top \in Nat /\ MapO < Top
  BY Constants DEF Top
<1>4. t.kid \in [0 .. MapO -> [{0, 1} -> 0 .. MaxKey]]
  BY <1>1, <1>3
<1>5. t.height \in [0 .. MaxKey -> Nat] /\ t.height[0] = 0
  BY <1>1, <1>3
<1>6. t.value \in [Nodes(t) -> Value]
  BY <1>1, <1>2
<1>7. TreeType(t)
  BY <1>1, <1>2, <1>4, <1>5, <1>6 DEF TreeType, TreeRecord
<1>8. Placed(t, lo, hi)
  <2>1. BoundsType(lo, hi)
    BY <1>3 DEF BoundsType
  <2>2. Wide(t, lo, hi) /\ Nest(t, lo, hi) /\ Above(t, lo, hi)
    BY <1>2, <1>3 DEF Wide, Nest, Above
  <2>3. Kids(t, lo, hi)
    <3>1. \A s \in {0, 1} : t.kid[MapO][s] = 0
      BY <1>1, <1>3
    <3> QED BY <1>2, <3>1 DEF Kids, Owner
  <2> QED BY <2>1, <2>2, <2>3 DEF Placed
<1>9. Even(t)
  BY <1>2 DEF Even
<1> QED BY <1>2, <1>7, <1>8, <1>9 DEF t

LEMMA InitGood == TreeInit => TreeInv
<1> SUFFICES ASSUME TreeInit PROVE Good(tree, op, arg, new, path, current, visited, stop)
  BY DEF TreeInv
<1>1. op = "idle" /\ visited = <<>> /\ tree = EmptyTree
  BY DEF TreeInit
<1>2. TreeType(tree) /\ Even(tree) /\ \E lo, hi : Placed(tree, lo, hi)
  BY <1>1, EmptyIs
<1> QED BY <1>1, <1>2 DEF Good, Working, Ops, Calls

\* A kid that is missing is no node; the node of the key is one.
LEMMA KeyThere ==
  ASSUME NEW t, TreeType(t), NEW lo, NEW hi, Placed(t, lo, hi),
         NEW k \in Key, NEW P, PathOK(t, lo, hi, k, P)
  PROVE  /\ P[Len(P)] \in Owner(t) /\ Way(k, P, Len(P)) \in {0, 1}
         /\ t.kid[P[Len(P)]][Way(k, P, Len(P))] = 0 => k \notin Nodes(t)
         /\ t.kid[P[Len(P)]][Way(k, P, Len(P))] = k => k \in Nodes(t)
<1> DEFINE p == P[Len(P)]
           s == Way(k, P, Len(P))
<1>1. Len(P) \in 1 .. Len(P) /\ p \in Owner(t) /\ s \in {0, 1}
  BY PathElements, WayType
<1>2. p \in Int /\ k \in Int /\ k # 0
  BY <1>1, NodeType, Constants
<1>3. lo[p] < k /\ k < hi[p] /\ p # k
  BY <1>1 DEF PathOK
<1>4. SlotLo(lo, p, s) < k /\ k < SlotHi(hi, p, s)
  <2>1. CASE k > p
    BY <1>3, <2>1 DEF Way, Side, SlotLo, SlotHi
  <2>2. CASE k < p
    BY <1>3, <2>2 DEF Way, Side, SlotLo, SlotHi
  <2> QED BY <1>2, <1>3, <2>1, <2>2
<1> HIDE DEF p, s
<1>5. t.kid[p][s] = 0 => k \notin Nodes(t)
  BY <1>1, <1>4 DEF Placed, Kids
<1>6. t.kid[p][s] = k => k \in Nodes(t)
  BY <1>1, <1>2 DEF Placed, Kids
<1> QED BY <1>1, <1>5, <1>6 DEF p, s

LEMMA StartsGood ==
  ASSUME TreeInv, NEW o \in {"add", "get", "erase"}, NEW k \in Key, NEW v,
         o = "add" => v \in Value, Starts(o, k, v)
  PROVE  GoodNext
<1>1. op \in {"idle", "key", "done"} /\ op' = o /\ arg' = k /\ new' = v /\ path' = <<MapO>>
      /\ visited' = <<>> /\ tree' = tree
  BY DEF Starts, CallerRuns, NoTraversal
<1>2. TreeType(tree) /\ Even(tree) /\ \E lo, hi : Placed(tree, lo, hi)
  BY <1>1 DEF TreeInv, Good
<1>3. PICK lo, hi : Placed(tree, lo, hi)
  BY <1>2
<1>4. PathOK(tree, lo, hi, k, <<MapO>>)
  BY <1>2, <1>3, PathStarts
<1>5. Working(tree', lo, hi, op', arg', new', path', current', visited', stop')
  BY <1>1, <1>2, <1>4 DEF Working, Calls
<1> QED BY <1>1, <1>2, <1>3, <1>5 DEF GoodNext, Good, Ops, Calls

LEMMA ClearGood == ASSUME TreeInv, MapClear PROVE GoodNext
<1>1. op' = "idle" /\ visited' = <<>> /\ tree' = EmptyTree
  BY DEF MapClear, NoTraversal
<1>2. TreeType(tree') /\ Even(tree') /\ \E lo, hi : Placed(tree', lo, hi)
  BY <1>1, EmptyIs
<1> QED BY <1>1, <1>2 DEF GoodNext, Good, Working, Ops, Calls

\* What is known inside a call.
InCall(lo, hi) ==
  /\ TreeType(tree) /\ Placed(tree, lo, hi) /\ arg \in Key
  /\ PathOK(tree, lo, hi, arg, path) /\ visited = <<>>
  /\ Root = tree.kid[path[Len(path)]][Way(arg, path, Len(path))]
  /\ Innermost = path[Len(path)] /\ Side(arg, Innermost) = Way(arg, path, Len(path))
  /\ op = "add" => new \in Value
  /\ op \in {"add", "get"} => Even(tree)
  /\ op = "erase" => Even(tree) \/ Sinking(tree, arg, path)
  /\ op = "adjust" => Rising(tree, arg, path)

LEMMA CallIs ==
  ASSUME TreeInv, op \in Calls PROVE \E lo, hi : InCall(lo, hi)
<1>1. PICK lo, hi : /\ Placed(tree, lo, hi)
                    /\ Working(tree, lo, hi, op, arg, new, path, current, visited, stop)
  BY DEF TreeInv, Good
<1>2. TreeType(tree) /\ (op \in {"add", "get"} => Even(tree))
  BY DEF TreeInv, Good
<1> QED BY <1>1, <1>2 DEF InCall, Working, Root, Innermost, Way

\* A call goes on with the tree u.
LEMMA CallGoesOn ==
  ASSUME NEW lo, NEW hi, TreeType(tree'), Placed(tree', lo, hi), op' \in Calls, arg' \in Key,
         PathOK(tree', lo, hi, arg', path'), visited' = <<>>,
         op' = "add" => new' \in Value,
         op' \in {"add", "get"} => Even(tree'),
         op' = "erase" => Even(tree') \/ Sinking(tree', arg', path'),
         op' = "adjust" => Rising(tree', arg', path')
  PROVE  GoodNext
<1>1. Working(tree', lo, hi, op', arg', new', path', current', visited', stop')
  BY DEF Working, Calls
<1>2. op' \in Ops /\ (op' \notin {"erase", "adjust"} => Even(tree'))
  BY DEF Ops, Calls
<1> QED BY <1>1, <1>2 DEF GoodNext, Good

LEMMA IdleGood ==
  ASSUME NEW lo, NEW hi, TreeType(tree'), Even(tree'), Placed(tree', lo, hi),
         op' = "idle", visited' = <<>>
  PROVE  GoodNext
  BY DEF GoodNext, Good, Working, Ops, Calls

LEMMA NotSinking ==
  ASSUME NEW lo, NEW hi, InCall(lo, hi), Root # arg PROVE op = "erase" => Even(tree)
  BY DEF InCall, Sinking

LEMMA CallForKidGood == ASSUME TreeInv, CallForKid PROVE GoodNext
<1>1. /\ op \in {"add", "erase", "get"} /\ op \in Calls /\ Root # 0 /\ Root # arg
      /\ path' = Append(path, Root)
      /\ tree' = tree /\ op' = op /\ arg' = arg /\ new' = new /\ visited' = visited
  BY DEF CallForKid, Calls, avl_nnil
<1>2. PICK lo, hi : InCall(lo, hi)
  BY <1>1, CallIs
<1>3. Even(tree)
  BY <1>1, <1>2, NotSinking DEF InCall
<1>4. PathOK(tree, lo, hi, arg, Append(path, Root))
  <2>1. TreeType(tree) /\ Placed(tree, lo, hi) /\ arg \in Key /\ PathOK(tree, lo, hi, arg, path)
        /\ Root = tree.kid[path[Len(path)]][Way(arg, path, Len(path))]
    BY <1>2 DEF InCall
  <2> QED BY <1>1, <2>1, PathPushed
<1>5. TreeType(tree') /\ Placed(tree', lo, hi) /\ Even(tree') /\ op' \in Calls /\ arg' \in Key
      /\ PathOK(tree', lo, hi, arg', path') /\ visited' = <<>> /\ (op' = "add" => new' \in Value)
      /\ op' # "adjust"
  BY <1>1, <1>2, <1>3, <1>4 DEF InCall
<1> QED BY <1>5, CallGoesOn

LEMMA InsertNewGood == ASSUME TreeInv, InsertNew PROVE GoodNext
<1>1. /\ op = "add" /\ op \in Calls /\ Root = 0
      /\ tree' = avl_new_node(tree, Innermost, Side(arg, Innermost), arg, new)
      /\ op' = "adjust" /\ op' \in Calls /\ arg' = arg /\ path' = path /\ visited' = visited
  BY DEF InsertNew, Unwinds, Calls, avl_nnil
<1>2. PICK lo, hi : InCall(lo, hi)
  BY <1>1, CallIs
<1> DEFINE p == path[Len(path)]
           s == Way(arg, path, Len(path))
           u == avl_new_node(tree, p, s, arg, new)
<1>3. /\ TreeType(tree) /\ Placed(tree, lo, hi) /\ arg \in Key /\ PathOK(tree, lo, hi, arg, path)
      /\ Even(tree) /\ new \in Value /\ tree.kid[p][s] = 0 /\ tree' = u /\ visited = <<>>
  BY <1>1, <1>2 DEF InCall
<1>4. p \in Owner(tree) /\ s \in {0, 1} /\ arg \notin Nodes(tree)
  BY <1>3, KeyThere
<1> HIDE DEF p, s
<1>5. IsNew(tree, u, p, s, arg, new)
  BY <1>3, <1>4, NewNodeIs
<1> HIDE DEF u
<1>6. TreeType(u)
  BY <1>5 DEF IsNew
<1>7. PICK lo2, hi2 : Placed(u, lo2, hi2) /\ PathOK(u, lo2, hi2, arg, path) /\ Rising(u, arg, path)
  BY <1>3, <1>4, <1>5, NewRises DEF p, s
<1>8. /\ TreeType(tree') /\ Placed(tree', lo2, hi2) /\ PathOK(tree', lo2, hi2, arg', path')
      /\ Rising(tree', arg', path') /\ arg' \in Key /\ visited' = <<>>
  BY <1>1, <1>3, <1>6, <1>7
<1>9. op' # "add" /\ op' # "get" /\ op' # "erase"
  BY <1>1
<1> QED BY <1>1, <1>8, <1>9, CallGoesOn

LEMMA ErrorGood == ASSUME TreeInv, InsertError PROVE GoodNext
<1>1. op = "add" /\ op \in Calls /\ op' = "idle" /\ visited' = visited /\ tree' = tree
  BY DEF InsertError, Returns, Calls
<1>2. PICK lo, hi : InCall(lo, hi)
  BY <1>1, CallIs
<1>3. TreeType(tree') /\ Even(tree') /\ Placed(tree', lo, hi) /\ visited' = <<>>
  BY <1>1, <1>2 DEF InCall
<1> QED BY <1>1, <1>3, IdleGood

LEMMA QueryGood == ASSUME TreeInv, QueryEnds PROVE GoodNext
<1>1. op = "get" /\ op \in Calls /\ op' = "idle" /\ visited' = visited /\ tree' = tree
  BY DEF QueryEnds, Returns, Calls
<1>2. PICK lo, hi : InCall(lo, hi)
  BY <1>1, CallIs
<1>3. TreeType(tree') /\ Even(tree') /\ Placed(tree', lo, hi) /\ visited' = <<>>
  BY <1>1, <1>2 DEF InCall
<1> QED BY <1>1, <1>3, IdleGood

\* A value of a node is replaced.
Replaced(t, k, v) == [t EXCEPT !.value[k] = v]

\* u has the nodes of t, with the same kids and heights.
SameNodes(t, u) ==
  TreeType(u) /\ u.kid = t.kid /\ u.height = t.height /\ Nodes(u) = Nodes(t)

LEMMA ValueIs ==
  ASSUME NEW t, TreeType(t), NEW k \in Nodes(t), NEW v \in Value
  PROVE  /\ SameNodes(t, Replaced(t, k, v))
         /\ Replaced(t, k, v).value = [t.value EXCEPT ![k] = v]
<1> DEFINE u == Replaced(t, k, v)
<1>1. t = [kid |-> t.kid, height |-> t.height, value |-> t.value]
  BY DEF TreeType, TreeRecord
<1>2. /\ u = [kid |-> t.kid, height |-> t.height, value |-> [t.value EXCEPT ![k] = v]]
      /\ u.kid = t.kid /\ u.height = t.height /\ u.value = [t.value EXCEPT ![k] = v]
  BY <1>1 DEF Replaced
<1>3. Nodes(u) = Nodes(t)
  BY <1>2 DEF Nodes
<1>4. u.value \in [Nodes(u) -> Value]
  BY <1>2, <1>3 DEF TreeType
<1>5. u = [kid |-> u.kid, height |-> u.height, value |-> u.value]
  BY <1>2
<1>6. TreeType(u)
  <2>1. TreeRecord(u)
    BY <1>5 DEF TreeRecord
  <2>2. /\ u.kid \in [0 .. MapO -> [{0, 1} -> 0 .. MaxKey]]
        /\ u.height \in [0 .. MaxKey -> Nat]
        /\ Nodes(u) \subseteq Key
        /\ u.height[0] = 0
        /\ \A n \in Nodes(u) : u.height[n] > 0
    BY <1>2, <1>3 DEF TreeType
  <2> QED BY <1>4, <2>1, <2>2 DEF TreeType
<1> QED BY <1>2, <1>3, <1>6 DEF SameNodes

LEMMA ReplaceGood == ASSUME TreeInv, ReplaceValue PROVE GoodNext
<1>1. /\ op = "add" /\ op \in Calls /\ Root = arg
      /\ tree' = [tree EXCEPT !.value[arg] = new]
      /\ op' = "adjust" /\ op' \in Calls /\ arg' = arg /\ path' = path /\ visited' = visited
  BY DEF ReplaceValue, Unwinds, Calls
<1>2. PICK lo, hi : InCall(lo, hi)
  BY <1>1, CallIs
<1>3. /\ TreeType(tree) /\ Placed(tree, lo, hi) /\ arg \in Key /\ PathOK(tree, lo, hi, arg, path)
      /\ Even(tree) /\ new \in Value /\ visited = <<>>
      /\ tree.kid[path[Len(path)]][Way(arg, path, Len(path))] = arg
  BY <1>1, <1>2 DEF InCall
<1>4. arg \in Nodes(tree)
  BY <1>3, KeyThere
<1> DEFINE u == Replaced(tree, arg, new)
<1>5. TreeType(u) /\ u.kid = tree.kid /\ u.height = tree.height /\ Nodes(u) = Nodes(tree)
  BY <1>3, <1>4, ValueIs DEF SameNodes
<1> HIDE DEF u
<1>6. Placed(u, lo, hi) /\ Even(u)
  BY <1>3, <1>5, SamePlaced, SameHeights
<1>7. PathOK(u, lo, hi, arg, path)
  BY <1>3, <1>5 DEF PathOK, Owner, Held
<1>8. Rising(u, arg, path)
  BY <1>5, <1>6, <1>7, EvenRises
<1>9. /\ TreeType(tree') /\ Placed(tree', lo, hi) /\ PathOK(tree', lo, hi, arg', path')
      /\ Rising(tree', arg', path') /\ arg' \in Key /\ visited' = <<>>
  BY <1>1, <1>3, <1>5, <1>6, <1>7, <1>8 DEF u, Replaced
<1>10. op' # "add" /\ op' # "get" /\ op' # "erase"
  BY <1>1
<1> QED BY <1>1, <1>9, <1>10, CallGoesOn

LEMMA NothingGood == ASSUME TreeInv, DeleteNothing PROVE GoodNext
<1>1. /\ op = "erase" /\ op \in Calls /\ Root = 0 /\ tree' = tree
      /\ op' = "adjust" /\ op' \in Calls /\ arg' = arg /\ path' = path /\ visited' = visited
  BY DEF DeleteNothing, Unwinds, Calls, avl_nnil
<1>2. PICK lo, hi : InCall(lo, hi)
  BY <1>1, CallIs
<1>3. /\ TreeType(tree) /\ Placed(tree, lo, hi) /\ arg \in Key /\ PathOK(tree, lo, hi, arg, path)
      /\ visited = <<>>
  BY <1>2 DEF InCall
<1>4. arg # 0
  BY <1>3, Constants
<1>5. Even(tree)
  BY <1>1, <1>2, <1>4, NotSinking
<1>6. Rising(tree, arg, path)
  BY <1>3, <1>5, EvenRises
<1>7. op' # "add" /\ op' # "get" /\ op' # "erase"
  BY <1>1
<1>8. /\ TreeType(tree') /\ Placed(tree', lo, hi) /\ PathOK(tree', lo, hi, arg', path')
      /\ Rising(tree', arg', path') /\ arg' \in Key /\ visited' = <<>>
  BY <1>1, <1>3, <1>6
<1> QED BY <1>1, <1>7, <1>8, CallGoesOn

\* DeleteRotates deletes the node or moves it down.
GoneStep(lo, hi) ==
  /\ IsGone(tree, tree', path[Len(path)], Way(arg, path, Len(path)), arg)
  /\ Placed(tree', lo, hi) /\ PathOK(tree', lo, hi, arg, path) /\ Rising(tree', arg, path)
  /\ op' = "adjust" /\ path' = path

SunkStep(c) ==
  /\ Sunk(tree', arg, path, c) /\ tree'.value = tree.value
  /\ op' = "erase" /\ path' = Append(path, c)

LEMMA RotatesIs ==
  ASSUME TreeInv, DeleteRotates
  PROVE  \E lo, hi : InCall(lo, hi) /\ (GoneStep(lo, hi) \/ \E c : SunkStep(c))
<1> DEFINE p == path[Len(path)]
           s == Way(arg, path, Len(path))
           d == IF avl_get_ballance_diff(tree, arg) < 0 THEN 1 ELSE 0
           u == avl_rotate(tree, p, s, d)
           c == tree.kid[arg][d]
<1>1. /\ op = "erase" /\ op \in Calls /\ Root = arg
      /\ visited' = visited /\ arg' = arg
  BY DEF DeleteRotates, Unwinds, Calls
<1>2. PICK lo, hi : InCall(lo, hi)
  BY <1>1, CallIs
<1>3. /\ TreeType(tree) /\ Placed(tree, lo, hi) /\ arg \in Key /\ PathOK(tree, lo, hi, arg, path)
      /\ visited = <<>> /\ tree.kid[p][s] = arg
      /\ Even(tree) \/ Sinking(tree, arg, path)
      /\ Innermost = p /\ Side(arg, Innermost) = s
  BY <1>1, <1>2 DEF InCall
<1>4. arg \in Nodes(tree)
  BY <1>3, KeyThere
<1>5. Sinking(tree, arg, path)
  BY <1>3, <1>4, EvenSinks
<1>6. /\ tree' = u
      /\ \/ u.kid[p][s] = 0 /\ op' = "adjust" /\ path' = path
         \/ u.kid[p][s] # 0 /\ op' = op /\ path' = Append(path, u.kid[p][s])
  BY <1>1, <1>3 DEF DeleteRotates, Unwinds, avl_nnil
<1>7. d \in {0, 1} /\ KidHeight(tree, arg, d) >= KidHeight(tree, arg, 1 - d)
  <2> DEFINE a == KidHeight(tree, arg, 0)
             b == KidHeight(tree, arg, 1)
  <2>1. a \in Int /\ b \in Int
    BY <1>3, <1>4, KidHeightType DEF Owner
  <2>2. avl_get_ballance_diff(tree, arg) = a - b
    BY DEF avl_get_ballance_diff, KidHeight
  <2> HIDE DEF a, b
  <2>3. CASE a - b < 0
    <3>1. d = 1 /\ b >= a
      BY <2>1, <2>2, <2>3
    <3>2. 1 - 1 = 0
      OBVIOUS
    <3> QED BY <3>1, <3>2 DEF a, b
  <2>4. CASE ~ (a - b < 0)
    <3>1. d = 0 /\ a >= b
      BY <2>1, <2>2, <2>4
    <3>2. 1 - 0 = 1
      OBVIOUS
    <3> QED BY <3>1, <3>2 DEF a, b
  <2> QED BY <2>3, <2>4
<1> HIDE DEF d
<1>8. CASE c = 0
  <2>1. /\ IsGone(tree, u, p, s, arg)
        /\ Placed(u, lo, hi) /\ PathOK(u, lo, hi, arg, path) /\ Rising(u, arg, path)
    BY <1>3, <1>4, <1>5, <1>7, <1>8, SinkEnds
  <2>2. u.kid[p][s] = 0
    BY <2>1 DEF IsGone
  <2>3. op' = "adjust" /\ path' = path
    BY <1>6, <2>2
  <2>4. GoneStep(lo, hi)
    BY <1>6, <2>1, <2>3 DEF GoneStep
  <2> QED BY <1>2, <2>4
<1>9. CASE c # 0
  <2>1. Sunk(u, arg, path, c) /\ u.kid[p][s] = c /\ u.value = tree.value
    BY <1>3, <1>4, <1>5, <1>7, <1>9, SinkRotates
  <2>2. op' = "erase" /\ path' = Append(path, c)
    BY <1>1, <1>6, <1>9, <2>1
  <2>3. SunkStep(c)
    BY <1>6, <2>1, <2>2 DEF SunkStep
  <2> QED BY <1>2, <2>3
<1> QED BY <1>8, <1>9

LEMMA RotatesGood == ASSUME TreeInv, DeleteRotates PROVE GoodNext
<1>1. visited' = visited /\ arg' = arg /\ op = "erase"
  BY DEF DeleteRotates, Unwinds
<1>2. PICK lo, hi : InCall(lo, hi) /\ (GoneStep(lo, hi) \/ \E c : SunkStep(c))
  BY RotatesIs
<1>3. arg' \in Key /\ visited' = <<>>
  BY <1>1, <1>2 DEF InCall
<1>4. CASE GoneStep(lo, hi)
  <2>1. op' = "adjust" /\ path' = path /\ op' \in Calls
    BY <1>4 DEF GoneStep, Calls
  <2>2. /\ TreeType(tree') /\ Placed(tree', lo, hi) /\ PathOK(tree', lo, hi, arg', path')
        /\ Rising(tree', arg', path')
    BY <1>1, <1>4, <2>1 DEF GoneStep, IsGone
  <2>3. op' # "add" /\ op' # "get" /\ op' # "erase"
    BY <2>1
  <2> QED BY <1>3, <2>1, <2>2, <2>3, CallGoesOn
<1>5. CASE \E c : SunkStep(c)
  <2>1. PICK c : SunkStep(c)
    BY <1>5
  <2>2. Sunk(tree', arg', path, c) /\ op' = "erase" /\ op' \in Calls /\ path' = Append(path, c)
    BY <1>1, <2>1 DEF SunkStep, Calls
  <2>3. PICK lo2, hi2 : Placed(tree', lo2, hi2) /\ PathOK(tree', lo2, hi2, arg', path')
    BY <2>2 DEF Sunk
  <2>4. TreeType(tree') /\ Sinking(tree', arg', path')
    BY <2>2 DEF Sunk
  <2>5. op' # "add" /\ op' # "get" /\ op' # "adjust"
    BY <2>2
  <2> QED BY <1>3, <2>2, <2>3, <2>4, <2>5, CallGoesOn
<1> QED BY <1>2, <1>4, <1>5

LEMMA AdjustGood == ASSUME TreeInv, AdjustBalance PROVE GoodNext
<1> DEFINE p == path[Len(path) - 1]
           s == Way(arg, path, Len(path) - 1)
           r == path[Len(path)]
           u == avl_adjust_balance(tree, p, s)
           Q == SubSeq(path, 1, Len(path) - 1)
<1>1. /\ op = "adjust" /\ op \in Calls /\ Len(path) > 1
      /\ tree' = u /\ path' = Q
      /\ op' = op /\ arg' = arg /\ visited' = visited
  BY DEF AdjustBalance, Calls, Popped, Way
<1>2. PICK lo, hi : InCall(lo, hi)
  BY <1>1, CallIs
<1>3. /\ TreeType(tree) /\ Placed(tree, lo, hi) /\ arg \in Key /\ PathOK(tree, lo, hi, arg, path)
      /\ visited = <<>> /\ Rising(tree, arg, path)
  BY <1>1, <1>2 DEF InCall
<1>4. Adjusted(tree, u, lo, hi, p, s, r) /\ Rising(u, arg, Q)
  BY <1>1, <1>3, AdjustRises
<1>5. /\ PathOK(tree, lo, hi, arg, Q)
      /\ Len(Q) = Len(path) - 1
      /\ \A j \in 1 .. Len(path) - 1 : Q[j] = path[j] /\ Way(arg, Q, j) = Way(arg, path, j)
  <2>1. PathOK(tree, lo, hi, arg, Q) /\ AsOn(path, arg, Q)
    BY <1>1, <1>3, PathPopped, Zenon
  <2> QED BY <2>1, Zenon DEF AsOn
<1> HIDE DEF u, Q
<1>6. PICK lo2, hi2 :
        /\ Placed(u, lo2, hi2)
        /\ \A q \in Owner(tree) : q \notin Held(tree, lo, hi, p, s) => lo2[q] = lo[q] /\ hi2[q] = hi[q]
  BY <1>4 DEF Adjusted
<1>7. /\ TreeType(u) /\ u.value = tree.value
      /\ \A q \in Owner(tree), e \in {0, 1} :
           q \notin Held(tree, lo, hi, p, s) /\ ~ (q = p /\ e = s) => u.kid[q][e] = tree.kid[q][e]
  BY <1>4 DEF Adjusted
<1>8. Owner(u) = Owner(tree)
  BY <1>7 DEF Owner, Nodes
<1>9. /\ Len(path) - 1 \in 1 .. Len(path)
      /\ \A j \in 1 .. Len(path) - 1 : j \in 1 .. Len(path) /\ j <= Len(path) - 1
      /\ \A j \in 1 .. Len(Q) - 1 : j \in 1 .. Len(path) - 1 /\ j < Len(path) - 1 /\ j \in 1 .. Len(path)
  <2>1. Len(path) \in Nat
    BY <1>3, PathElements
  <2> QED BY <1>1, <1>5, <2>1
<1>10. \A j \in 1 .. Len(path) - 1 : path[j] \in Owner(tree) /\ path[j] \notin Held(tree, lo, hi, p, s)
  BY <1>3, <1>9, PathElements, PathOutside
<1>11. \A j \in 1 .. Len(Q) : Q[j] \in Owner(u) /\ lo2[Q[j]] = lo[Q[j]] /\ hi2[Q[j]] = hi[Q[j]]
  BY <1>5, <1>6, <1>8, <1>10
<1>12. \A j \in 1 .. Len(Q) - 1 : u.kid[Q[j]][Way(arg, Q, j)] = tree.kid[Q[j]][Way(arg, Q, j)]
  <2>1. \A j \in 1 .. Len(Q) - 1 : path[j] # p
    BY <1>3, <1>9, PathOutside
  <2>2. \A j \in 1 .. Len(Q) - 1 : Q[j] = path[j] /\ Way(arg, Q, j) \in {0, 1} /\ path[j] \in Owner(tree)
                                   /\ path[j] \notin Held(tree, lo, hi, p, s)
    BY <1>5, <1>9, <1>10, WayType
  <2> HIDE DEF p, s
  <2> QED BY <1>7, <2>1, <2>2
<1>13. PathOK(u, lo2, hi2, arg, Q)
  <2>1. MapO \notin Nodes(tree)
    BY <1>3, NodeType
  <2> QED BY <1>5, <1>11, <1>12, <2>1, PathKept
<1>14. /\ TreeType(tree') /\ Placed(tree', lo2, hi2) /\ PathOK(tree', lo2, hi2, arg', path')
       /\ Rising(tree', arg', path') /\ arg' \in Key /\ visited' = <<>> /\ op' \in Calls
  BY <1>1, <1>3, <1>4, <1>6, <1>7, <1>13
<1>15. op' # "add" /\ op' # "get" /\ op' # "erase"
  BY <1>1
<1> QED BY <1>14, <1>15, CallGoesOn

LEMMA ReturnsGood == ASSUME TreeInv, MapReturns PROVE GoodNext
<1>1. op = "adjust" /\ op \in Calls /\ Len(path) = 1 /\ op' = "idle" /\ visited' = visited /\ tree' = tree
  BY DEF MapReturns, Returns, Calls
<1>2. PICK lo, hi : InCall(lo, hi)
  BY <1>1, CallIs
<1>3. /\ TreeType(tree) /\ Placed(tree, lo, hi) /\ PathOK(tree, lo, hi, arg, path)
      /\ visited = <<>> /\ Rising(tree, arg, path)
  BY <1>1, <1>2 DEF InCall
<1>4. Even(tree)
  BY <1>1, <1>3, RisenIsEven
<1>5. TreeType(tree') /\ Even(tree') /\ Placed(tree', lo, hi) /\ visited' = <<>>
  BY <1>1, <1>3, <1>4
<1> QED BY <1>1, <1>5, IdleGood

LEMMA TraversesGood ==
  ASSUME TreeInv, NEW o \in {"loop", "each"}, NEW k, o = "loop" => k = 0, Traverses(o, k)
  PROVE  GoodNext
<1>1. op \in {"idle", "key", "done"} /\ op' = o /\ path' = <<>> /\ visited' = <<>> /\ stop' = k
      /\ current' = tree.kid[MapO][0] /\ tree' = tree
  BY DEF Traverses, CallerRuns
<1>2. TreeType(tree) /\ Even(tree) /\ \E lo, hi : Placed(tree, lo, hi)
  BY <1>1 DEF TreeInv, Good
<1>3. PICK lo, hi : Placed(tree, lo, hi)
  BY <1>2
<1>4. Moving(tree, lo, hi, <<>>, tree.kid[MapO][0], <<>>, k)
  BY <1>2, <1>3, WalkStarts
<1>5. Working(tree', lo, hi, op', arg', new', path', current', visited', stop')
  BY <1>1, <1>4 DEF Working, Calls
<1> QED BY <1>1, <1>2, <1>3, <1>5 DEF GoodNext, Good, Ops, Calls

\* What is known on the way.
OnWay(lo, hi) ==
  /\ TreeType(tree) /\ Even(tree) /\ Placed(tree, lo, hi)
  /\ op \in {"loop", "each"} => Moving(tree, lo, hi, path, current, visited, stop)
  /\ op \in {"key", "callback"} => Standing(tree, lo, hi, path, current, visited, stop)
  /\ op \in {"loop", "key"} => stop = 0

LEMMA WayIs ==
  ASSUME TreeInv, op \in {"loop", "each", "key", "callback"} PROVE \E lo, hi : OnWay(lo, hi)
<1>1. PICK lo, hi : /\ Placed(tree, lo, hi)
                    /\ Working(tree, lo, hi, op, arg, new, path, current, visited, stop)
  BY DEF TreeInv, Good
<1>2. TreeType(tree) /\ Even(tree)
  BY DEF TreeInv, Good
<1> QED BY <1>1, <1>2 DEF OnWay, Working

LEMMA MovesOn ==
  ASSUME NEW lo, NEW hi, TreeType(tree), Even(tree), Placed(tree, lo, hi), tree' = tree,
         op' \in {"loop", "each"}, op' = "loop" => stop' = 0,
         Moving(tree, lo, hi, path', current', visited', stop')
  PROVE  GoodNext
<1>1. Working(tree', lo, hi, op', arg', new', path', current', visited', stop')
  BY DEF Working, Calls
<1> QED BY <1>1 DEF GoodNext, Good, Ops, Calls

LEMMA LeftGood == ASSUME TreeInv, GoLeft PROVE GoodNext
<1>1. /\ op \in {"loop", "each"} /\ current # 0 /\ path' = Append(path, current)
      /\ current' = tree.kid[current][0]
      /\ tree' = tree /\ op' = op /\ visited' = visited /\ stop' = stop
  BY DEF GoLeft, avl_nnil
<1>2. PICK lo, hi : OnWay(lo, hi)
  BY <1>1, WayIs
<1>3. /\ TreeType(tree) /\ Even(tree) /\ Placed(tree, lo, hi)
      /\ Moving(tree, lo, hi, path, current, visited, stop) /\ (op = "loop" => stop = 0)
  BY <1>1, <1>2 DEF OnWay
<1>4. Moving(tree, lo, hi, Append(path, current), tree.kid[current][0], visited, stop)
  BY <1>1, <1>3, WalkLeft
<1>5. Moving(tree, lo, hi, path', current', visited', stop')
  BY <1>1, <1>4
<1> QED BY <1>1, <1>3, <1>5, MovesOn

LEMMA VisitGood == ASSUME TreeInv, Visit PROVE GoodNext
<1>1. /\ op \in {"loop", "each"} /\ current = 0 /\ path # <<>>
      /\ current' = path[Len(path)] /\ path' = SubSeq(path, 1, Len(path) - 1)
      /\ visited' = Append(visited, path[Len(path)])
      /\ op' = IF op = "loop" THEN "key" ELSE "callback"
      /\ tree' = tree /\ stop' = stop
  BY DEF Visit, avl_nnil, Innermost, Popped
<1>2. PICK lo, hi : OnWay(lo, hi)
  BY <1>1, WayIs
<1>3. /\ TreeType(tree) /\ Even(tree) /\ Placed(tree, lo, hi)
      /\ Moving(tree, lo, hi, path, 0, visited, stop) /\ (op = "loop" => stop = 0)
  BY <1>1, <1>2 DEF OnWay
<1>4. Standing(tree, lo, hi, SubSeq(path, 1, Len(path) - 1), path[Len(path)],
               Append(visited, path[Len(path)]), stop)
  BY <1>1, <1>3, WalkVisit
<1>5. Standing(tree, lo, hi, path', current', visited', stop')
  BY <1>1, <1>4
<1>6. op' \in {"key", "callback"} /\ (op' = "key" => stop' = 0)
  BY <1>1, <1>3
<1>7. Working(tree', lo, hi, op', arg', new', path', current', visited', stop')
  BY <1>1, <1>5, <1>6 DEF Working, Calls
<1> QED BY <1>1, <1>3, <1>6, <1>7 DEF GoodNext, Good, Ops, Calls

LEMMA LoopNextGood == ASSUME TreeInv, coMapLoopNext PROVE GoodNext
<1>1. /\ op = "key" /\ op' = "loop" /\ current' = tree.kid[current][1]
      /\ tree' = tree /\ path' = path /\ visited' = visited /\ stop' = stop
  BY DEF coMapLoopNext
<1>2. PICK lo, hi : OnWay(lo, hi)
  BY <1>1, WayIs
<1>3. /\ TreeType(tree) /\ Even(tree) /\ Placed(tree, lo, hi)
      /\ Standing(tree, lo, hi, path, current, visited, stop) /\ stop = 0
  BY <1>1, <1>2 DEF OnWay
<1>4. current # stop
  BY <1>3 DEF Standing
<1>5. Moving(tree, lo, hi, path, tree.kid[current][1], visited, stop)
  BY <1>3, <1>4, WalkRight
<1>6. Moving(tree, lo, hi, path', current', visited', stop')
  BY <1>1, <1>5
<1> QED BY <1>1, <1>3, <1>6, MovesOn

LEMMA CallbackGood == ASSUME TreeInv, CallbackReturns PROVE GoodNext
<1>1. /\ op = "callback" /\ op' = "each"
      /\ current' = IF current = stop THEN 0 ELSE tree.kid[current][1]
      /\ tree' = tree /\ path' = path /\ visited' = visited /\ stop' = stop
  BY DEF CallbackReturns, avl_nnil
<1>2. PICK lo, hi : OnWay(lo, hi)
  BY <1>1, WayIs
<1>3. /\ TreeType(tree) /\ Even(tree) /\ Placed(tree, lo, hi)
      /\ Standing(tree, lo, hi, path, current, visited, stop)
  BY <1>1, <1>2 DEF OnWay
<1>4. Moving(tree, lo, hi, path', current', visited', stop')
  <2>1. CASE current = stop
    <3>1. Standing(tree, lo, hi, path, stop, visited, stop)
      BY <1>3, <2>1
    <3>2. Moving(tree, lo, hi, path, 0, visited, stop)
      BY <1>3, <3>1, WalkStops
    <3> QED BY <1>1, <2>1, <3>2
  <2>2. CASE current # stop
    <3>1. Moving(tree, lo, hi, path, tree.kid[current][1], visited, stop)
      BY <1>3, <2>2, WalkRight
    <3> QED BY <1>1, <2>2, <3>1
  <2> QED BY <2>1, <2>2
<1> QED BY <1>1, <1>3, <1>4, MovesOn

LEMMA EndsGood == ASSUME TreeInv, TraversalEnds PROVE GoodNext
<1>1. /\ op \in {"loop", "each"} /\ current = 0 /\ path = <<>> /\ op' = "done"
      /\ tree' = tree /\ visited' = visited /\ stop' = stop
  BY DEF TraversalEnds, avl_nnil
<1>2. PICK lo, hi : OnWay(lo, hi)
  BY <1>1, WayIs
<1>3. /\ TreeType(tree) /\ Even(tree) /\ Placed(tree, lo, hi)
      /\ Moving(tree, lo, hi, <<>>, 0, visited, stop)
  BY <1>1, <1>2 DEF OnWay
<1>4. Ended(tree, hi, visited, stop)
  BY <1>3, WalkEnds
<1>5. Working(tree', lo, hi, op', arg', new', path', current', visited', stop')
  BY <1>1, <1>4 DEF Working, Calls
<1> QED BY <1>1, <1>3, <1>5 DEF GoodNext, Good, Ops, Calls

\* One case per action.
LEMMA NextGood == ASSUME TreeInv, TreeNext PROVE GoodNext
<1>1. CASE \E k \in Key, v \in Value : MapAdd(k, v)
  BY <1>1, StartsGood DEF MapAdd
<1>2. CASE \E k \in Key : MapGet(k) \/ MapErase(k)
  <2>1. PICK k \in Key : Starts("get", k, avl_nnil) \/ Starts("erase", k, avl_nnil)
    BY <1>2 DEF MapGet, MapErase
  <2>2. CASE Starts("get", k, avl_nnil)
    BY <2>2, StartsGood
  <2>3. CASE Starts("erase", k, avl_nnil)
    BY <2>3, StartsGood
  <2> QED BY <2>1, <2>2, <2>3
<1>3. CASE coMapLoopFirst
  BY <1>3, TraversesGood DEF coMapLoopFirst, avl_nnil
<1>4. CASE \E k \in Key \cup {MapO} : coMapForEach(k)
  <2>1. PICK k : Traverses("each", k)
    BY <1>4 DEF coMapForEach
  <2> QED BY <2>1, TraversesGood
<1> QED
  BY <1>1, <1>2, <1>3, <1>4, ClearGood, CallForKidGood, InsertNewGood, ErrorGood, ReplaceGood,
     NothingGood, RotatesGood, QueryGood, AdjustGood, ReturnsGood, LoopNextGood, LeftGood,
     VisitGood, CallbackGood, EndsGood
  DEF TreeNext

THEOREM TreeInvariant == TreeSpec => []TreeInv
<1>1. TreeInit => TreeInv
  BY InitGood
<1>2. TreeInv /\ [TreeNext]_treeVars => TreeInv'
  <2>1. GoodNext <=> TreeInv'
    BY DEF GoodNext, TreeInv
  <2>2. ASSUME TreeInv, UNCHANGED treeVars PROVE GoodNext
    <3>1. /\ tree' = tree /\ op' = op /\ arg' = arg /\ new' = new /\ path' = path
          /\ current' = current /\ visited' = visited /\ stop' = stop
      BY <2>2 DEF treeVars
    <3> QED BY <2>2, <3>1 DEF GoodNext, TreeInv
  <2> QED BY <2>1, <2>2, NextGood
<1> QED BY <1>1, <1>2, PTL DEF TreeSpec

\* co.c:714-1120: after every call the tree is an AVL search tree with all its
\* nodes, whatever the number of keys.
THEOREM TreeIsAvl == TreeSpec => []AvlTree
<1>1. ASSUME TreeInv PROVE AvlTree
  <2> SUFFICES ASSUME op = "idle"
               PROVE  /\ Subtree(tree.kid[MapO][0]) = Nodes(tree)
                      /\ \A n \in Nodes(tree) :
                           /\ \A m \in Subtree(tree.kid[n][0]) : m < n
                           /\ \A m \in Subtree(tree.kid[n][1]) : m > n
                           /\ tree.height[n] =
                                1 + Larger(tree.height[tree.kid[n][0]], tree.height[tree.kid[n][1]])
                           /\ avl_get_ballance_diff(tree, n) \in {-1, 0, 1}
                      /\ tree.height[avl_nnil] = 0
    BY DEF AvlTree
  <2>1. TreeType(tree) /\ Even(tree) /\ \E lo, hi : Placed(tree, lo, hi)
    BY <1>1 DEF TreeInv, Good
  <2>2. PICK lo, hi : Placed(tree, lo, hi)
    BY <2>1
  <2>3. \A p \in Owner(tree), s \in {0, 1} : Subtree(tree.kid[p][s]) = Held(tree, lo, hi, p, s)
    BY <2>1, <2>2, SubtreeIs
  <2>4. Subtree(tree.kid[MapO][0]) = Nodes(tree)
    <3>1. MapO \in Owner(tree)
      BY DEF Owner
    <3> QED BY <2>1, <2>2, <2>3, <3>1, HeldByMap
  <2>5. ASSUME NEW n \in Nodes(tree)
        PROVE  /\ \A m \in Subtree(tree.kid[n][0]) : m < n
               /\ \A m \in Subtree(tree.kid[n][1]) : m > n
    <3>1. n \in Owner(tree) /\ n \in Int
      BY <2>1, NodeType DEF Owner
    <3>2. Subtree(tree.kid[n][0]) = Held(tree, lo, hi, n, 0)
          /\ Subtree(tree.kid[n][1]) = Held(tree, lo, hi, n, 1)
      BY <2>3, <3>1
    <3>3. \A m \in Held(tree, lo, hi, n, 0) : m < n
      BY DEF Held, SlotHi
    <3>4. \A m \in Held(tree, lo, hi, n, 1) : n < m
      BY DEF Held, SlotLo
    <3>5. \A m \in Nodes(tree) : m \in Int
      BY <2>1, NodeType
    <3>6. \A m \in Held(tree, lo, hi, n, 1) : m > n
      BY <3>1, <3>4, <3>5 DEF Held
    <3> QED BY <3>2, <3>3, <3>6
  <2>6. \A n \in Nodes(tree) :
          /\ tree.height[n] =
               1 + Larger(tree.height[tree.kid[n][0]], tree.height[tree.kid[n][1]])
          /\ avl_get_ballance_diff(tree, n) \in {-1, 0, 1}
    BY <2>1 DEF Even, Bal, KidHeight, avl_get_ballance_diff
  <2>7. tree.height[avl_nnil] = 0
    BY <2>1, NodeType DEF avl_nnil
  <2> QED BY <2>4, <2>5, <2>6, <2>7
<1> QED BY <1>1, TreeInvariant, PTL

\* What TraversedInOrder leaves out is what the walk left out.
LEMMA SkippedIs ==
  ASSUME TreeType(tree), NEW lo, NEW hi, Placed(tree, lo, hi),
         stop \in SeenIn(visited) => stop \in Nodes(tree)
  PROVE  Seen = SeenIn(visited) /\ Skipped = Skip(tree, hi, visited, stop)
<1>1. Seen = SeenIn(visited)
  BY DEF Seen, SeenIn
<1>2. CASE stop \in SeenIn(visited)
  <2>1. stop \in Owner(tree)
    BY <1>2 DEF Owner
  <2>2. Subtree(tree.kid[stop][1]) = Held(tree, lo, hi, stop, 1)
    BY <2>1, SubtreeIs
  <2>3. Held(tree, lo, hi, stop, 1) = {n \in Nodes(tree) : stop < n /\ n < hi[stop]}
    BY DEF Held, SlotLo, SlotHi
  <2> QED BY <1>1, <1>2, <2>2, <2>3 DEF Skipped, Skip
<1>3. CASE stop \notin SeenIn(visited)
  BY <1>1, <1>3 DEF Skipped, Skip
<1> QED BY <1>1, <1>2, <1>3

\* co.c:1047-1120: a traversal sees the keys in ascending order, leaves out what
\* its callback makes it skip and nothing else, and its stack always has room.
THEOREM TraversalIsInOrder == TreeSpec => []TraversedInOrder
<1>1. ASSUME TreeInv PROVE TraversedInOrder
  <2>1. PICK lo, hi : /\ Placed(tree, lo, hi)
                      /\ Working(tree, lo, hi, op, arg, new, path, current, visited, stop)
    BY <1>1 DEF TreeInv, Good
  <2>2. TreeType(tree) /\ op \in Ops
    BY <1>1 DEF TreeInv, Good
  <2>3. CASE op \in {"idle", "add", "erase", "get", "adjust"}
    <3>1. visited = <<>>
      BY <2>1, <2>3 DEF Working, Calls
    <3>2. DOMAIN visited = {}
      BY <3>1
    <3> QED BY <2>3, <3>2 DEF TraversedInOrder
  <2>4. CASE op = "done"
    <3>1. Ended(tree, hi, visited, stop)
      BY <2>1, <2>4 DEF Working
    <3>2. stop \in SeenIn(visited) => stop \in Nodes(tree)
      BY <3>1 DEF Ended
    <3>3. Seen = SeenIn(visited) /\ Skipped = Skip(tree, hi, visited, stop)
      BY <2>1, <2>2, <3>2, SkippedIs
    <3> QED BY <2>4, <3>1, <3>3 DEF TraversedInOrder, Ended, Ascends
  <2>5. CASE op \in {"loop", "each", "key", "callback"}
    <3>1. Even(tree)
      BY <1>1, <2>5 DEF TreeInv, Good
    <3>2. /\ op \in {"loop", "each"} => Moving(tree, lo, hi, path, current, visited, stop)
          /\ op \in {"key", "callback"} => Standing(tree, lo, hi, path, current, visited, stop)
      BY <2>1 DEF Working
    <3>3. /\ Stack(tree, hi, path, LastOf(visited)) /\ Passed(tree, hi, visited, stop)
          /\ op \in {"key", "callback"} => current = LastOf(visited)
      BY <2>5, <3>2 DEF Moving, Standing
    <3>4. Len(path) < CO_AVL_STACK_MAX_DEPTH
      BY <2>1, <2>2, <3>1, <3>3, StackFits
    <3>5. stop \in SeenIn(visited) => stop \in Nodes(tree)
      BY <3>3 DEF Passed
    <3>6. Seen = SeenIn(visited) /\ Skipped = Skip(tree, hi, visited, stop)
      BY <2>1, <2>2, <3>5, SkippedIs
    <3>7. op # "done"
      BY <2>5
    <3> QED BY <3>3, <3>4, <3>6, <3>7 DEF TraversedInOrder, Passed, Ascends
  <2> QED BY <2>2, <2>3, <2>4, <2>5 DEF Ops, Calls
<1> QED BY <1>1, TreeInvariant, PTL

-----------------------------------------------------------------------------
(***************************************************************************)
(* The dictionary                                                          *)
(***************************************************************************)

LEMMA DictionaryDef ==
  /\ Dictionary!Init <=> tree.value = [k \in {} |-> 0] /\ answer = [of |-> "none", is |-> "none"]
  /\ \A k, v : Dictionary!Add(k, v) <=>
       \/ /\ answer' = [of |-> "add", is |-> v]
          /\ tree'.value = [j \in Nodes(tree) \cup {k} |-> IF j = k THEN v ELSE tree.value[j]]
       \/ /\ answer' = [of |-> "add", is |-> "error"] /\ k \notin Nodes(tree)
          /\ tree'.value = tree.value
  /\ \A k : Dictionary!Get(k) <=>
       /\ answer' = [of |-> "get", is |-> IF k \in Nodes(tree) THEN tree.value[k] ELSE "absent"]
       /\ tree'.value = tree.value
  /\ \A k : Dictionary!Erase(k) <=>
       /\ answer' = [of |-> "none", is |-> "none"]
       /\ tree'.value = [j \in Nodes(tree) \ {k} |-> tree.value[j]]
  /\ Dictionary!Clear <=> answer' = [of |-> "none", is |-> "none"] /\ tree'.value = [k \in {} |-> 0]
  /\ Dictionary!Read <=> /\ \E is \in {"none", "all", "some"} : answer' = [of |-> "none", is |-> is]
                         /\ tree'.value = tree.value
  /\ Dictionary!Next <=>
       \/ \E k \in Key, v \in Value : Dictionary!Add(k, v)
       \/ Dictionary!Clear
       \/ Dictionary!Read
       \/ \E k \in Key : Dictionary!Get(k)
       \/ \E k \in Key : Dictionary!Erase(k)
  BY DEF Dictionary!Init, Dictionary!Add, Dictionary!Get, Dictionary!Erase, Dictionary!Clear,
         Dictionary!Read, Dictionary!Next, Dictionary!Answers, Nodes

\* what a step may do
DictStep == Dictionary!Next \/ (tree'.value = tree.value /\ answer' = answer)

LEMMA ReadStep ==
  ASSUME NEW is \in {"none", "all", "some"}, Says("none", is), tree'.value = tree.value
  PROVE  DictStep
<1>1. Dictionary!Read
  BY DictionaryDef DEF Says
<1> QED BY <1>1, DictionaryDef DEF DictStep

LEMMA InsertStep == ASSUME TreeInv, InsertNew PROVE DictStep
<1>1. /\ op \in Calls /\ op = "add" /\ Root = 0
      /\ tree' = avl_new_node(tree, Innermost, Side(arg, Innermost), arg, new)
      /\ answer' = [of |-> "add", is |-> new]
  BY DEF InsertNew, Calls, avl_nnil, Says
<1>2. PICK lo, hi : InCall(lo, hi)
  BY <1>1, CallIs
<1>3. arg \in Key /\ new \in Value
  BY <1>1, <1>2 DEF InCall
<1>4. tree'.value = [j \in Nodes(tree) \cup {arg} |-> IF j = arg THEN new ELSE tree.value[j]]
  BY <1>1 DEF avl_new_node
<1>5. Dictionary!Add(arg, new)
  BY <1>1, <1>4, DictionaryDef
<1> QED BY <1>3, <1>5, DictionaryDef DEF DictStep

LEMMA ErrorStep == ASSUME TreeInv, InsertError PROVE DictStep
<1>1. /\ op \in Calls /\ op = "add" /\ Root = 0 /\ tree' = tree
      /\ answer' = [of |-> "add", is |-> "error"]
  BY DEF InsertError, Calls, avl_nnil, Says
<1>2. PICK lo, hi : InCall(lo, hi)
  BY <1>1, CallIs
<1>3. arg \in Key /\ new \in Value
  BY <1>1, <1>2 DEF InCall
<1>4. arg \notin Nodes(tree)
  BY <1>1, <1>2, KeyThere DEF InCall
<1>5. Dictionary!Add(arg, new)
  BY <1>1, <1>4, DictionaryDef
<1> QED BY <1>3, <1>5, DictionaryDef DEF DictStep

LEMMA ReplaceStep == ASSUME TreeInv, ReplaceValue PROVE DictStep
<1>1. /\ op \in Calls /\ op = "add" /\ Root = arg
      /\ tree' = Replaced(tree, arg, new)
      /\ answer' = [of |-> "add", is |-> new]
  BY DEF ReplaceValue, Calls, Says, Replaced
<1>2. PICK lo, hi : InCall(lo, hi)
  BY <1>1, CallIs
<1>3. arg \in Key /\ new \in Value /\ TreeType(tree)
  BY <1>1, <1>2 DEF InCall
<1>4. arg \in Nodes(tree)
  BY <1>1, <1>2, KeyThere DEF InCall
<1>5. tree'.value = [tree.value EXCEPT ![arg] = new]
  BY <1>1, <1>3, <1>4, ValueIs
<1>6. Nodes(tree) \cup {arg} = Nodes(tree) /\ Nodes(tree) = DOMAIN tree.value
      /\ tree.value \in [Nodes(tree) -> Value]
  BY <1>3, <1>4 DEF Nodes, TreeType
<1>7. tree'.value = [j \in Nodes(tree) \cup {arg} |-> IF j = arg THEN new ELSE tree.value[j]]
  BY <1>5, <1>6
<1>8. Dictionary!Add(arg, new)
  BY <1>1, <1>7, DictionaryDef
<1> QED BY <1>3, <1>8, DictionaryDef DEF DictStep

LEMMA QueryStep == ASSUME TreeInv, QueryEnds PROVE DictStep
<1>1. /\ op \in Calls /\ op = "get" /\ Root \in {0, arg} /\ tree' = tree
      /\ answer' = [of |-> "get", is |-> IF Root = arg THEN tree.value[arg] ELSE "absent"]
  BY DEF QueryEnds, Calls, avl_nnil, Says
<1>2. PICK lo, hi : InCall(lo, hi)
  BY <1>1, CallIs
<1>3. arg \in Key
  BY <1>1, <1>2 DEF InCall
<1>4. Root = arg <=> arg \in Nodes(tree)
  <2>1. /\ Root = 0 => arg \notin Nodes(tree)
        /\ Root = arg => arg \in Nodes(tree)
    BY <1>2, KeyThere DEF InCall
  <2> QED BY <1>1, <2>1
<1>5. Dictionary!Get(arg)
  BY <1>1, <1>4, DictionaryDef
<1> QED BY <1>3, <1>5, DictionaryDef DEF DictStep

LEMMA RotateStep == ASSUME TreeInv, DeleteRotates PROVE DictStep
<1>1. op = "erase" /\ Says("none", "none") /\ answer' = [of |-> "none", is |-> "none"]
  BY DEF DeleteRotates, SaysNothing, Says
<1>2. PICK lo, hi : InCall(lo, hi) /\ (GoneStep(lo, hi) \/ \E c : SunkStep(c))
  BY RotatesIs
<1>3. arg \in Key
  BY <1>2 DEF InCall
<1>4. CASE GoneStep(lo, hi)
  <2>1. tree'.value = [j \in Nodes(tree) \ {arg} |-> tree.value[j]]
    BY <1>4 DEF GoneStep, IsGone
  <2>2. Dictionary!Erase(arg)
    BY <1>1, <2>1, DictionaryDef
  <2> QED BY <1>3, <2>2, DictionaryDef DEF DictStep
<1>5. CASE \E c : SunkStep(c)
  <2>1. tree'.value = tree.value
    BY <1>5 DEF SunkStep
  <2> QED BY <1>1, <2>1, ReadStep
<1> QED BY <1>2, <1>4, <1>5

\* Rebalancing moves no values.
LEMMA AdjustStep == ASSUME TreeInv, AdjustBalance PROVE DictStep
<1> DEFINE u == avl_adjust_balance(tree, path[Len(path) - 1], Way(arg, path, Len(path) - 1))
<1>1. op = "adjust" /\ op \in Calls /\ Len(path) > 1 /\ tree' = u /\ answer' = answer
  BY DEF AdjustBalance, Calls, Way
<1>2. PICK lo, hi : InCall(lo, hi)
  BY <1>1, CallIs
<1>3. /\ TreeType(tree) /\ Placed(tree, lo, hi) /\ arg \in Key /\ PathOK(tree, lo, hi, arg, path)
      /\ Rising(tree, arg, path)
  BY <1>1, <1>2 DEF InCall
<1>4. Adjusted(tree, u, lo, hi, path[Len(path) - 1], Way(arg, path, Len(path) - 1), path[Len(path)])
  BY <1>1, <1>3, AdjustRises
<1>5. tree'.value = tree.value
  BY <1>1, <1>4 DEF Adjusted
<1> QED BY <1>1, <1>5 DEF DictStep

\* One case per action.
LEMMA NextIsDict == ASSUME TreeInv, TreeNext PROVE DictStep
<1>1. CASE \/ \E k \in Key, v \in Value : MapAdd(k, v)
           \/ \E k \in Key : MapGet(k) \/ MapErase(k)
           \/ coMapLoopFirst
           \/ \E k \in Key \cup {MapO} : coMapForEach(k)
           \/ DeleteNothing
  <2>1. Says("none", "none") /\ tree' = tree
    BY <1>1 DEF MapAdd, MapGet, MapErase, Starts, coMapLoopFirst, coMapForEach, Traverses,
                DeleteNothing, SaysNothing
  <2> QED BY <2>1, ReadStep
<1>2. CASE MapClear
  <2>1. answer' = [of |-> "none", is |-> "none"] /\ tree'.value = [k \in {} |-> 0]
    BY <1>2 DEF MapClear, SaysNothing, Says, EmptyTree
  <2>2. Dictionary!Clear
    BY <2>1, DictionaryDef
  <2> QED BY <2>2, DictionaryDef DEF DictStep
<1>3. CASE CallForKid \/ MapReturns \/ coMapLoopNext \/ GoLeft \/ Visit \/ CallbackReturns
  <2>1. tree' = tree /\ answer' = answer
    BY <1>3 DEF CallForKid, MapReturns, coMapLoopNext, GoLeft, Visit, CallbackReturns
  <2> QED BY <2>1 DEF DictStep
<1>4. CASE TraversalEnds
  <2>1. PICK is \in {"all", "some"} : Says("none", is) /\ tree' = tree
    BY <1>4 DEF TraversalEnds
  <2> QED BY <2>1, ReadStep
<1> QED
  BY <1>1, <1>2, <1>3, <1>4, InsertStep, ErrorStep, ReplaceStep, RotateStep, QueryStep, AdjustStep
  DEF TreeNext

\* The map (co.c:938-1085) is a dictionary to its users, through all the
\* rotations, and also when an allocation fails.
THEOREM DictionaryImplemented == TreeSpec => IsDictionary
<1>1. TreeInit => Dictionary!Init
  BY DictionaryDef DEF TreeInit, EmptyTree
<1>2. TreeInv /\ [TreeNext]_treeVars => [Dictionary!Next]_<<tree.value, answer>>
  <2>1. ASSUME UNCHANGED treeVars PROVE UNCHANGED <<tree.value, answer>>
    BY <2>1 DEF treeVars
  <2>2. ASSUME TreeInv, TreeNext PROVE Dictionary!Next \/ UNCHANGED <<tree.value, answer>>
    <3>1. DictStep
      BY <2>2, NextIsDict
    <3> QED BY <3>1 DEF DictStep
  <2> QED BY <2>1, <2>2
<1> QED BY <1>1, <1>2, TreeInvariant, PTL DEF TreeSpec, IsDictionary, Dictionary!Spec

=============================================================================
