------------------------------ MODULE CoMapSpec ------------------------------
(***************************************************************************)
(* What co/co.h promises about a map object: a dictionary.  coMapAdd       *)
(* stores or replaces, or reports a memory error and changes nothing;      *)
(* coMapGet returns the value of a key, if there is one; coMapErase        *)
(* removes a key that may be absent; coMapClear empties; an iterator only  *)
(* reads.                                                                  *)
(***************************************************************************)
CONSTANTS Key, Value

VARIABLES
  dict,   \* a function from the keys that exist to their values
  answer  \* what the last operation says: which operation, and its result

Answers(of, is) == answer' = [of |-> of, is |-> is]

Init == dict = [k \in {} |-> 0] /\ answer = [of |-> "none", is |-> "none"]

Add(k, v) ==
  \/ /\ Answers("add", v)
     /\ dict' = [j \in DOMAIN dict \cup {k} |-> IF j = k THEN v ELSE dict[j]]
  \/ Answers("add", "error") /\ k \notin DOMAIN dict /\ UNCHANGED dict

Get(k) ==
  /\ Answers("get", IF k \in DOMAIN dict THEN dict[k] ELSE "absent")
  /\ UNCHANGED dict

Erase(k) ==
  /\ Answers("none", "none")
  /\ dict' = [j \in DOMAIN dict \ {k} |-> dict[j]]

Clear == Answers("none", "none") /\ dict' = [k \in {} |-> 0]

Read ==
  /\ \E is \in {"none", "all", "some"} : Answers("none", is)
  /\ UNCHANGED dict

Next ==
  \/ \E k \in Key, v \in Value : Add(k, v)
  \/ Clear
  \/ Read
  \/ \E k \in Key : Get(k)
  \/ \E k \in Key : Erase(k)

Spec == Init /\ [][Next]_<<dict, answer>>
=============================================================================
