-------------------------------- MODULE CoAvl --------------------------------
(***************************************************************************)
(* The AVL tree behind a map object (co/co.c, lines 714 to 1120), its      *)
(* traversal with a callback and its iterator.  Keys are numbers, compared *)
(* as strcmp compares the strings, and name the node that holds them.  A   *)
(* recursive function is a stack of the nodes whose call is running: it    *)
(* goes down one node per step, and rebalances one node per return.        *)
(* Key strings and values are deleted by the map: see CoMapKeys, CoObject. *)
(***************************************************************************)
EXTENDS Integers, Sequences

CONSTANTS
  MaxKey,    \* the keys are 1 .. MaxKey
  Value,     \* the values that are stored
  NoError,   \* TRUE: no allocation fails
  CO_AVL_STACK_MAX_DEPTH  \* length of the node array of an iterator

\* One more than the fewest nodes that an AVL tree of height h has.
Least[h \in Nat] == IF h < 2 THEN h + 1 ELSE Least[h - 1] + Least[h - 2]

\* the stack of an iterator is as long as the tallest tree that the keys allow
ASSUME KeyAssumption == MaxKey \in Nat
ASSUME DepthAssumption ==
  CO_AVL_STACK_MAX_DEPTH \in Nat /\ MaxKey + 1 < Least[CO_AVL_STACK_MAX_DEPTH]

VARIABLES
  tree,      \* the nodes: their kids, their heights, the values of those that
             \* are allocated
  op,        \* the call that is running: "idle" when none is, or "add", "erase",
             \* "get" (down to the key), "adjust" (back up), "loop" (iterator)
             \* and its "key", "each" (coMapForEach) and its "callback", "done"
  arg,       \* the key of the call, avl_nnil when there is none
  new,       \* the value that coMapAdd has for it
  path,      \* the nodes whose call is running; for an iterator its stack
             \* node[0 .. depth - 1]
  current,   \* current_node of the traversal
  visited,   \* the keys that it has seen
  stop,      \* the key for which the callback returns 0
  answer     \* what the last operation says, see CoMapSpec

treeVars ==
  <<tree, op, arg, new, path, current, visited, stop, answer>>

Key == 1 .. MaxKey

-----------------------------------------------------------------------------
(* Trees.  A rootp of the code is the kid s of a node p.                   *)

avl_nnil == 0

\* o, the map: its m.root is its left kid
MapO == MaxKey + 1

Nodes(t) == DOMAIN t.value

EmptyTree ==
  [kid    |-> [n \in 0 .. MapO |-> [d \in {0, 1} |-> avl_nnil]],
   height |-> [n \in 0 .. MaxKey |-> 0],
   value  |-> [n \in {} |-> 0]]

\* kid[c > 0] after c = strcmp(key, root->key)
Side(k, n) == IF k > n THEN 1 ELSE 0

avl_new_node(t, p, s, k, v) ==
  [kid    |-> [t.kid EXCEPT ![p][s] = k, ![k] = [d \in {0, 1} |-> avl_nnil]],
   height |-> [t.height EXCEPT ![k] = 1],
   value  |-> [n \in Nodes(t) \cup {k} |-> IF n = k THEN v ELSE t.value[n]]]

avl_delete_node(t, n) ==
  [kid    |-> [t.kid EXCEPT ![n] = [d \in {0, 1} |-> avl_nnil]],
   height |-> [t.height EXCEPT ![n] = 0],
   value  |-> [m \in Nodes(t) \ {n} |-> t.value[m]]]

Larger(a, b) == IF a > b THEN a ELSE b

avl_set_height(t, n) ==
  [t EXCEPT !.height[n] =
     1 + Larger(t.height[t.kid[n][0]], t.height[t.kid[n][1]])]

avl_get_ballance_diff(t, n) ==
  t.height[t.kid[n][0]] - t.height[t.kid[n][1]]

\* p->kid[s] = n
Linked(t, p, s, n) == [t EXCEPT !.kid[p][s] = n]

\* the kid in direction dir becomes the root; a root without one is deleted.
\* The height of the new root is left to avl_adjust_balance.
avl_rotate(t, p, s, dir) ==
  LET old_r == t.kid[p][s]
      new_r == t.kid[old_r][dir]
      root  == Linked(t, p, s, new_r)
      moved == Linked(root, old_r, dir, t.kid[new_r][1 - dir])
  IN IF new_r = avl_nnil
       THEN avl_delete_node(root, old_r)
       ELSE Linked(avl_set_height(moved, old_r), new_r, 1 - dir, old_r)

\* integer division of C rounds towards zero
Half(n) == IF n < 0 THEN -((-n) \div 2) ELSE n \div 2

\* (mutant: no double rotation)
AdjustSingle(t, p, s) ==
  LET root == t.kid[p][s]
      b    == Half(avl_get_ballance_diff(t, root))
      u    == IF b = 0 THEN t ELSE avl_rotate(t, p, s, (1 - b) \div 2)
  IN IF u.kid[p][s] = avl_nnil THEN u ELSE avl_set_height(u, u.kid[p][s])

avl_adjust_balance(t, p, s) ==
  LET root  == t.kid[p][s]
      b     == Half(avl_get_ballance_diff(t, root))
      dir   == (1 - b) \div 2
      inner == IF avl_get_ballance_diff(t, t.kid[root][dir]) = -b
                 THEN avl_rotate(t, root, dir, 1 - dir) ELSE t
      u     == IF b = 0 THEN t ELSE avl_rotate(inner, p, s, dir)
  IN IF u.kid[p][s] = avl_nnil THEN u ELSE avl_set_height(u, u.kid[p][s])

-----------------------------------------------------------------------------
(* The calls.  An iterator is over when the map is used otherwise.         *)

Innermost == path[Len(path)]
Popped    == SubSeq(path, 1, Len(path) - 1)

\* root of the innermost call
Root == tree.kid[Innermost][Side(arg, Innermost)]

Says(of, is) == answer' = [of |-> of, is |-> is]
SaysNothing  == Says("none", "none")

\* the application has control
CallerRuns == op \in {"idle", "key", "done"}

NoTraversal == current' = avl_nnil /\ visited' = <<>> /\ stop' = avl_nnil

Starts(o, k, v) ==
  /\ CallerRuns
  /\ op' = o /\ arg' = k /\ new' = v /\ path' = <<MapO>>
  /\ SaysNothing
  /\ NoTraversal
  /\ UNCHANGED tree

Returns ==
  /\ op' = "idle" /\ arg' = avl_nnil /\ new' = avl_nnil /\ path' = <<>>
  /\ UNCHANGED <<current, visited, stop>>

\* the innermost call returns to those that called it
Unwinds ==
  /\ op' = "adjust"
  /\ UNCHANGED <<arg, new, path, current, visited, stop>>

MapAdd(k, v) == Starts("add", k, v)
MapGet(k)    == Starts("get", k, avl_nnil)
MapErase(k)  == Starts("erase", k, avl_nnil)

\* coMapClear: avl_delete_all deletes every node
MapClear ==
  /\ CallerRuns
  /\ tree' = EmptyTree
  /\ op' = "idle"
  /\ SaysNothing
  /\ NoTraversal
  /\ path' = <<>>
  /\ UNCHANGED <<arg, new>>

\* avl_insert, avl_delete and avl_query call themselves for a kid of the root
CallForKid ==
  /\ op \in {"add", "erase", "get"}
  /\ Root \notin {avl_nnil, arg}
  /\ path' = Append(path, Root)
  /\ UNCHANGED <<tree, op, arg, new, current, visited, stop, answer>>

\* avl_insert at the end of a branch
InsertNew ==
  /\ op = "add"
  /\ Root = avl_nnil
  /\ tree' = avl_new_node(tree, Innermost, Side(arg, Innermost), arg, new)
  /\ Says("add", new)
  /\ Unwinds

\* every call returns NULL at once; the tree stays as it is
InsertError ==
  /\ op = "add"
  /\ ~NoError
  /\ Root = avl_nnil
  /\ Says("add", "error")
  /\ Returns
  /\ UNCHANGED tree

\* (mutant: the value of an existing key is kept)
KeepValue ==
  /\ op = "add"
  /\ Root = arg
  /\ Says("add", new)
  /\ Unwinds
  /\ UNCHANGED tree

ReplaceValue ==
  /\ op = "add"
  /\ Root = arg
  /\ tree' = [tree EXCEPT !.value[arg] = new]
  /\ Says("add", new)
  /\ Unwinds

\* avl_delete of a key that the map does not have
DeleteNothing ==
  /\ op = "erase"
  /\ Root = avl_nnil
  /\ SaysNothing
  /\ Unwinds
  /\ UNCHANGED tree

\* avl_delete at the node: rotate it towards the end of a branch, where it is
\* deleted.  The call for the new root calls itself for the kid with the node.
DeleteRotates ==
  /\ op = "erase"
  /\ Root = arg
  /\ LET p == Innermost
         s == Side(arg, Innermost)
         d == IF avl_get_ballance_diff(tree, Root) < 0 THEN 1 ELSE 0
     IN /\ tree' = avl_rotate(tree, p, s, d)
        /\ \/ tree'.kid[p][s] = avl_nnil /\ Unwinds
           \/ /\ tree'.kid[p][s] # avl_nnil
              /\ path' = Append(path, tree'.kid[p][s])
              /\ UNCHANGED <<op, arg, new, current, visited, stop>>
  /\ SaysNothing

QueryEnds ==
  /\ op = "get"
  /\ Root \in {avl_nnil, arg}
  /\ Says("get", IF Root = arg THEN tree.value[arg] ELSE "absent")
  /\ Returns
  /\ UNCHANGED tree

\* a call of avl_insert or avl_delete goes on after the call for a kid
AdjustBalance ==
  /\ op = "adjust"
  /\ Len(path) > 1
  /\ LET p == path[Len(path) - 1]
     IN tree' = avl_adjust_balance(tree, p, Side(arg, p))
  /\ path' = Popped
  /\ UNCHANGED <<op, arg, new, current, visited, stop, answer>>

MapReturns ==
  /\ op = "adjust"
  /\ Len(path) = 1
  /\ Returns
  /\ UNCHANGED <<tree, answer>>

Traverses(o, k) ==
  /\ CallerRuns
  /\ op' = o
  /\ path' = <<>>
  /\ current' = tree.kid[MapO][0]
  /\ visited' = <<>>
  /\ stop' = k
  /\ SaysNothing
  /\ UNCHANGED <<tree, arg, new>>

coMapLoopFirst  == Traverses("loop", avl_nnil)

\* coMapForEach with a callback that returns 0 for the key k, if it is one
coMapForEach(k) == Traverses("each", k)

\* one round of the loop of avl_loop_sub; avl_for_each calls itself
GoLeft ==
  /\ op \in {"loop", "each"}
  /\ current # avl_nnil
  /\ path' = Append(path, current)
  /\ current' = tree.kid[current][0]
  /\ UNCHANGED <<tree, op, arg, new, visited, stop, answer>>

\* (mutant: the depth is not reduced)
VisitWithoutPop ==
  /\ op \in {"loop", "each"}
  /\ current = avl_nnil
  /\ path # <<>>
  /\ current' = Innermost
  /\ visited' = Append(visited, Innermost)
  /\ op' = IF op = "loop" THEN "key" ELSE "callback"
  /\ UNCHANGED <<tree, arg, new, path, stop, answer>>

\* avl_loop_sub returns with a node, avl_for_each calls visitCB
Visit ==
  /\ op \in {"loop", "each"}
  /\ current = avl_nnil
  /\ path # <<>>
  /\ current' = Innermost
  /\ path' = Popped
  /\ visited' = Append(visited, Innermost)
  /\ op' = IF op = "loop" THEN "key" ELSE "callback"
  /\ UNCHANGED <<tree, arg, new, stop, answer>>

coMapLoopNext ==
  /\ op = "key"
  /\ op' = "loop"
  /\ current' = tree.kid[current][1]
  /\ UNCHANGED <<tree, arg, new, path, visited, stop, answer>>

\* The callback returns.  A call whose callback returned 0 returns 0, but the
\* results of the recursive calls are not looked at.
CallbackReturns ==
  /\ op = "callback"
  /\ op' = "each"
  /\ current' = IF current = stop THEN avl_nnil ELSE tree.kid[current][1]
  /\ UNCHANGED <<tree, arg, new, path, visited, stop, answer>>

\* avl_loop_sub returns 0; the outermost avl_for_each returns 0 when its own
\* callback did
TraversalEnds ==
  /\ op \in {"loop", "each"}
  /\ current = avl_nnil
  /\ path = <<>>
  /\ op' = "done"
  /\ Says("none", IF op = "each" /\ stop # tree.kid[MapO][0] THEN "all" ELSE "some")
  /\ UNCHANGED <<tree, arg, new, path, current, visited, stop>>

TreeInit ==
  /\ tree = EmptyTree
  /\ op = "idle" /\ arg = avl_nnil /\ new = avl_nnil /\ path = <<>>
  /\ current = avl_nnil /\ visited = <<>> /\ stop = avl_nnil
  /\ answer = [of |-> "none", is |-> "none"]

TreeNext ==
  \/ \E k \in Key, v \in Value : MapAdd(k, v)
  \/ \E k \in Key : MapGet(k) \/ MapErase(k)
  \/ MapClear
  \/ CallForKid
  \/ InsertNew \/ InsertError \/ ReplaceValue
  \/ DeleteNothing \/ DeleteRotates
  \/ QueryEnds
  \/ AdjustBalance \/ MapReturns
  \/ coMapLoopFirst \/ coMapLoopNext
  \/ \E k \in Key \cup {MapO} : coMapForEach(k)
  \/ GoLeft \/ Visit \/ CallbackReturns \/ TraversalEnds

TreeSpec == TreeInit /\ [][TreeNext]_treeVars

-----------------------------------------------------------------------------
(* Properties *)

\* The nodes of the subtree n: they are in every set of nodes that has n and
\* the kids of its elements.
Subtree(n) ==
  LET Closed(S) == \A m \in S, d \in {0, 1} : tree.kid[m][d] \in S \cup {avl_nnil}
  IN {m \in Nodes(tree) : \A S \in SUBSET Nodes(tree) :
                             Closed(S) /\ {n} \cap Nodes(tree) \subseteq S => m \in S}

\* After every call the nodes that exist form an AVL search tree: the left kids
\* of a node have smaller keys and the right kids larger ones, each node knows
\* its height, and its two subtrees differ in height by at most one.
AvlTree ==
  op = "idle" =>
    /\ Subtree(tree.kid[MapO][0]) = Nodes(tree)
    /\ \A n \in Nodes(tree) :
         /\ \A m \in Subtree(tree.kid[n][0]) : m < n
         /\ \A m \in Subtree(tree.kid[n][1]) : m > n
         /\ tree.height[n] =
              1 + Larger(tree.height[tree.kid[n][0]], tree.height[tree.kid[n][1]])
         /\ avl_get_ballance_diff(tree, n) \in {-1, 0, 1}
    /\ tree.height[avl_nnil] = 0

Seen == {visited[j] : j \in DOMAIN visited}

\* what the callback that returned 0 left out: its right kids
Skipped == IF stop \in Seen THEN Subtree(tree.kid[stop][1]) ELSE {}

\* A traversal sees the keys in ascending order and leaves none out until a
\* callback returns 0.  Then it does not end, as co.h has it (ForEachStops): it
\* skips the right kids of that key and goes on with the keys behind them.  The
\* stack of an iterator never reaches the end of its array (the assertion of
\* avl_loop_sub, co.c:1099).
TraversedInOrder ==
  /\ \A j, l \in DOMAIN visited : j < l => visited[j] < visited[l]
  /\ op \in {"key", "callback"} =>
       Seen = {n \in Nodes(tree) : n <= current} \ Skipped
  /\ op = "done" => Seen = Nodes(tree) \ Skipped
  /\ op \in {"loop", "key"} => Len(path) < CO_AVL_STACK_MAX_DEPTH

\* coMapForEach "returns 0 as soon as the callback function returns 0"
\* (co.h:318-320, a2l_info.c:719): the key for which it does is the last one
\* that is visited, and the result is 0.
ForEachStops ==
  stop \in Seen =>
    /\ visited[Len(visited)] = stop
    /\ op = "done" => answer.is = "some"

\* The map of co.c:938-1085 is the dictionary of co.h (CoMapSpec).
Dictionary == INSTANCE CoMapSpec WITH dict <- tree.value
IsDictionary == Dictionary!Spec
=============================================================================
