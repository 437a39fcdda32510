---------------------------- MODULE CoPredecessor ----------------------------
(***************************************************************************)
(* The binary search in the vector of a map (co/co.c, lines 1204 to 1221), *)
(* step by step.  The vector has a key/value pair per element; a key is a  *)
(* number here, in the order strcmp gives the strings.                     *)
(***************************************************************************)
EXTENDS Integers

CONSTANTS
  Keys,    \* the keys
  MaxSize  \* bound: the number of elements

ASSUME KeysAssumption == Keys \subseteq Int /\ MaxSize \in Nat

VARIABLES
  v,           \* the keys of the vector, v[i] for i in 0 .. size - 1
  size,        \* coVectorSize of the vector
  search_key,
  lower_pos,
  upper_pos,
  result       \* what was returned; -2 before that

searchVars == <<v, size, search_key, lower_pos, upper_pos, result>>

Sorted(s, n) == \A i, j \in 0 .. n - 1 : i <= j => s[i] <= s[j]

mid_pos == (upper_pos + lower_pos) \div 2

\* (mutant: the key that was found is left of the predecessor)
GreaterOrEqual(mid_str, key) == mid_str >= key

\* strcmp(mid_str, search_key) > 0
Greater(mid_str, key) == mid_str > key

\* (mutant: lower_pos stays at the middle)
CompareWithoutStep ==
  /\ result = -2
  /\ lower_pos < upper_pos
  /\ IF Greater(v[mid_pos], search_key)
       THEN upper_pos' = mid_pos /\ UNCHANGED lower_pos
       ELSE lower_pos' = mid_pos /\ UNCHANGED upper_pos
  /\ UNCHANGED <<v, size, search_key, result>>

Compare ==
  /\ result = -2
  /\ lower_pos < upper_pos
  /\ IF Greater(v[mid_pos], search_key)
       THEN upper_pos' = mid_pos /\ UNCHANGED lower_pos
       ELSE lower_pos' = mid_pos + 1 /\ UNCHANGED upper_pos
  /\ UNCHANGED <<v, size, search_key, result>>

Found ==
  /\ result = -2
  /\ lower_pos >= upper_pos
  /\ result' = upper_pos - 1
  /\ UNCHANGED <<v, size, search_key, lower_pos, upper_pos>>

\* the call, with any sorted vector
SearchInit ==
  /\ size \in 0 .. MaxSize
  /\ v \in [0 .. size - 1 -> Keys]
  /\ Sorted(v, size)
  /\ search_key \in Keys
  /\ lower_pos = 0
  /\ upper_pos = size
  /\ result = -2

SearchNext == Compare \/ Found

SearchSpec == SearchInit /\ [][SearchNext]_searchVars

-----------------------------------------------------------------------------
(* Properties *)

\* The search reads only elements of the vector.
ReadsInside == result = -2 /\ lower_pos < upper_pos => mid_pos \in 0 .. size - 1

\* In a vector that is sorted, as it must be, the result is the predecessor: the
\* position of the last key that is lower or equal to search_key, -1 if there is none
\* (co.c:1174-1203).
Predecessor ==
  Sorted(v, size) /\ result # -2 =>
    /\ -1 <= result /\ result < size
    /\ \A i \in 0 .. size - 1 : v[i] <= search_key <=> i <= result
=============================================================================
