------------------------------ MODULE MCObject ------------------------------
(* CoObject on a small heap, in three parts: all kinds of objects and every    *)
(* memory error with few addresses; vectors of strings, which are appended to  *)
(* each other and to themselves, with memory errors and more addresses; all    *)
(* containers with as many addresses and without memory errors.                *)
EXTENDS CoObject, FiniteSets, TLC

Addresses  == Permutations(Obj)
OwningOnly == {{"CO_FREE_VALS"}}
OwningOrFirst == {{"CO_FREE_VALS"}, {"CO_FREE_FIRST"}}

VARIABLE part

\* the heap of each part; CO_FREE_FIRST also marks the pairs of a vector made
\* of a map, which no local variable holds
Bounded ==
  /\ part = "errors" =>
       /\ Cardinality(Live) <= 3
       /\ \A o \in Obj : kind[o] # "str" /\ cnt[o] <= 2
  /\ part = "append" =>
       \A o \in Obj : kind[o] \notin {"map", "mem"} /\ "CO_FREE_FIRST" \notin flags[o]
  /\ part = "clean" =>
       /\ \A o \in Obj : kind[o] # "mem" /\ cnt[o] <= 2
       /\ \A o \in held : "CO_FREE_FIRST" \notin flags[o]

ObjectInit ==
  /\ Init
  /\ part \in {"errors", "append", "clean"}
  /\ oom <=> part # "clean"

ObjectNext ==
  /\ Next
  /\ UNCHANGED part
  /\ Bounded'

ObjectSpec == ObjectInit /\ [][ObjectNext]_<<vars, part>>
=============================================================================
