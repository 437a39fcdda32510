-------------------------------- MODULE MCMap --------------------------------
(* A map object, seen in two ways: its AVL tree with a few keys (CoAvl), and   *)
(* the buffers behind its keys and values (CoMapKeys).                         *)
EXTENDS CoMapKeys, CoAvl

VARIABLE part  \* which of the two the behaviour is about

\* a map without key flags that both functions add to
BothFunctions ==
  {[flags |-> {}, ops |-> {"coMapAdd", "coMapAddValueKey"}, null |-> FALSE,
    oom |-> FALSE]}

mapVars  == <<keyVars, treeVars, part>>

Views == KeysInit /\ TreeInit

MapInit ==
  /\ Views
  /\ part \in {"tree", "keys"}
  /\ part = "tree" => use = CHOOSE u \in Uses : TRUE

MapNext ==
  /\ UNCHANGED part
  /\ \/ part = "tree" /\ TreeNext /\ UNCHANGED keyVars
     \/ part = "keys" /\ KeysNext /\ UNCHANGED treeVars

MapSpec == MapInit /\ [][MapNext]_mapVars
=============================================================================
