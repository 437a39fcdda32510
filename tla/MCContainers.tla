----------------------------- MODULE MCContainers -----------------------------
(* The two containers: the storage of a vector object (CoVector), and a map    *)
(* object seen as its tree and as the buffers behind it (MCMap).               *)
EXTENDS CoVector, MCMap

Adding(f) == [flags |-> f, ops |-> {"coMapAdd"}, null |-> TRUE, oom |-> TRUE]
ValueKeys(f, e) ==
  [flags |-> f, ops |-> {"coMapAddValueKey"}, null |-> FALSE, oom |-> e]

\* each map is added to with one of the two functions, or copies its keys
SafeUses ==
  {Adding({}), Adding({"CO_STRDUP"}), Adding({"CO_STRFREE"}),
   ValueKeys({}, TRUE),
   [flags |-> {"CO_STRDUP"}, ops |-> {"coMapAdd", "coMapAddValueKey"}, null |-> FALSE,
    oom |-> FALSE]}

allVars == <<vars, mapVars>>

\* the others wait in one of their initial states
ContainersInit ==
  /\ Init /\ Views
  /\ part \in {"vector", "tree", "keys"}
  /\ part # "keys" => use = Adding({})

ContainersNext ==
  \/ part = "vector" /\ Next /\ UNCHANGED mapVars
  \/ MapNext /\ UNCHANGED vars

ContainersSpec == ContainersInit /\ [][ContainersNext]_allVars
===============================================================================
