------------------------------ MODULE CoDocument ------------------------------
(***************************************************************************)
(* What the recursive readers of JSON (CoJson) and A2L (CoA2l) share: the  *)
(* tree of objects they build, the calls that are active, and the account  *)
(* of what is allocated.                                                   *)
(*                                                                         *)
(* A string is the sequence of its characters.  An object is a record with *)
(* its type t.                                                             *)
(***************************************************************************)
EXTENDS CoReader, SequencesExt, FiniteSetsExt

CONSTANTS
  COV_EXTEND, \* a vector grows by that many elements
  Oom         \* TRUE: an allocation may fail

ASSUME DocumentAssumption == COV_EXTEND \in Nat \ {0} /\ Oom \in BOOLEAN

VARIABLES
  input,   \* what is read: a record with format, file and string
  reader,
  pc,
  stack,   \* the containers under construction, with the key of the pair that is
           \* read: one for each active call of a function that reads a container
  ret,     \* what the function that has just returned has returned
  live,    \* how many objects, strings and nodes exist
  lost,    \* history: how many of them have been left undeleted by an error path
  badfree, \* history: a string that is not allocated has been freed
  failed,  \* history: an allocation has failed
  result

vars == <<input, reader, pc, stack, ret, live, lost, badfree, failed, result>>

-----------------------------------------------------------------------------
(* Objects *)

Null   == [t |-> "null"]
Str(s) == [t |-> "str", s |-> s, buf |-> "malloc"]
Vec(e) == [t |-> "vec", e |-> e]
Map(m) == [t |-> "map", m |-> m]

EmptyMap == [k \in {} |-> Null]

Put(m, k, v) == [x \in DOMAIN m \cup {k} |-> IF x = k THEN v ELSE m[x]]

\* how many allocations an object is; a node of a map counts with its key
RECURSIVE Size(_)
Size(v) ==
  CASE v.t = "null" -> 0
    [] v.t = "str"  -> IF v.buf = "malloc" THEN 2 ELSE 1
    [] v.t = "vec"  -> 1 + FoldSeq(LAMBDA x, n : n + Size(x), 0, v.e)
    [] v.t = "map"  -> 1 + MapThenSumSet(LAMBDA k : 2 + Size(v.m[k]), DOMAIN v.m)
    [] OTHER -> 1

\* is there a string object that coDelete frees the static buffer of?
RECURSIVE FreesStatic(_)
FreesStatic(v) ==
  CASE v.t = "str" -> v.buf = "static, freed"
    [] v.t = "vec" -> \E i \in DOMAIN v.e : FreesStatic(v.e[i])
    [] v.t = "map" -> \E k \in DOMAIN v.m : FreesStatic(v.m[k])
    [] OTHER -> FALSE

-----------------------------------------------------------------------------
(* Calls *)

Goto(next) == pc' = next

Top == Last(stack)
Full == Len(Top.obj.e) > 0 /\ Len(Top.obj.e) % COV_EXTEND = 0

\* n allocations more, of which k are not in the tree
Allocated(n, k) ==
  /\ live' = live + n /\ lost' = lost + k
  /\ UNCHANGED <<badfree, failed>>

AllocationFails(k) ==
  /\ Oom /\ failed' = TRUE /\ lost' = lost + k
  /\ live' = live + k
  /\ UNCHANGED badfree

\* coDelete of v, and extra allocations that are freed with it
Deleted(v, extra) ==
  /\ live' = live - Size(v) - extra
  /\ badfree' = (badfree \/ FreesStatic(v))

\* the function of the top frame returns v
Return(v) == Goto("ret") /\ ret' = v /\ stack' = Front(stack)

\* a function that has no frame returns v
Yield(v) == Goto("ret") /\ ret' = v /\ UNCHANGED stack

Push(obj) == stack' = Append(stack, [obj |-> obj, key |-> Null]) /\ UNCHANGED ret

\* what was returned is in the container, which has no key any more
Added(obj) ==
  stack' = Append(Front(stack), [obj |-> obj, key |-> Null]) /\ ret' = Null

\* the vector is deleted; the element that could not be added is not
AddFails ==
  /\ Oom /\ Full /\ failed' = TRUE
  /\ Deleted(Top.obj, 0)
  /\ lost' = lost + Size(ret)
  /\ Return(Null)

Finish ==
  /\ pc = "ret" /\ stack = <<>>
  /\ Goto("done") /\ result' = ret
  /\ UNCHANGED <<input, reader, stack, ret, live, lost, badfree, failed>>

InitWith(inputs, start) ==
  /\ input \in inputs
  /\ reader = IF input.string THEN coReaderInitByString(input.file)
              ELSE coReaderInitByFP(input.file)
  /\ pc = IF reader.bom \in Supported THEN start[input.format] ELSE "done"
  /\ stack = <<>> /\ ret = Null
  /\ live = 0 /\ lost = 0 /\ badfree = FALSE /\ failed = FALSE
  /\ result = Null

\* what the active calls and the caller have
Owned ==
  FoldSeq(LAMBDA f, n : n + Size(f.obj) + (IF f.key # Null THEN 1 ELSE 0), 0, stack)
  + (IF pc = "ret" THEN Size(ret) ELSE 0) + Size(result)
=============================================================================
