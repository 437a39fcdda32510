------------------------------ MODULE CoMapKeys ------------------------------
(***************************************************************************)
(* The character buffers behind the keys of a map object and behind the    *)
(* string objects stored in it (co/co.c: coMapAdd, coMapAddValueKey,       *)
(* coMapErase, coMapClear, with coStrInit and coStrDestroy).  The map has  *)
(* CO_FREE_VALS; CO_STRDUP and CO_STRFREE decide who frees a key.          *)
(*                                                                         *)
(* The application keeps to co.h: a key that the map does not free stays   *)
(* allocated as long as the map refers to it, and what the map freed is    *)
(* not used again.  The tree of the map is in CoAvl.                       *)
(***************************************************************************)
CONSTANTS
  Buf,        \* addresses of character buffers
  NULL,       \* the NULL pointer
  Static,     \* address of the static empty string of coStrGet
  Name,       \* the strings that are used as keys
  Empty,      \* the empty string, which is not used as a key
  Uses        \* the ways a map is used, a set of records

(* A use is a record.  flags: those of CO_STRDUP and CO_STRFREE the map is    *)
(* made with;  ops: the functions, of coMapAdd and coMapAddValueKey, that add *)
(* to it;  null: does coMapAdd get NULL values?  oom: may an allocation fail? *)

ASSUME MapKeysAssumption ==
  /\ NULL \notin Buf \cup Name \cup {Empty}
  /\ Static \notin Buf /\ Empty \notin Name

VARIABLES
  use,    \* how the map is used; never changes
  flags,  \* the CO_STR flags of the map
  text,   \* text[b]: the string in b, NULL when b is not allocated
  app,    \* the buffers that the application frees
  node,   \* node[n]: the map entry that was made for n: the key
          \* pointer of its tree node, and its value
  lost    \* buffers that nothing will free

keyVars == <<use, flags, text, app, node, lost>>

-----------------------------------------------------------------------------
(* Buffers, values and entries *)

\* A string object: its buffer, and whether it has CO_STRFREE.
NoValue == [str |-> NULL, free |-> FALSE]
Values  == {NoValue} \cup [str : Buf, free : BOOLEAN]

StrDup  == "CO_STRDUP" \in flags
StrFree == "CO_STRFREE" \in flags

Unused  == {b \in Buf : text[b] = NULL}
Entries == DOMAIN node

Put(n, k, v) == [m \in Entries \cup {n} |->
                   IF m = n THEN [key |-> k, value |-> v] ELSE node[m]]

\* what deleting a value, and deleting a key, frees
FreedByValue(v) == IF v.free THEN {v.str} ELSE {}
FreedByKey(k)   == IF StrFree THEN {k} ELSE {}
FreedWith(n)    == FreedByKey(node[n].key) \cup FreedByValue(node[n].value)

\* the buffers of gone are freed, those of new are allocated with text n
Buffers(gone, new, n) ==
  text' = [b \in Buf |-> IF b \in gone THEN NULL
                         ELSE IF b \in new THEN n ELSE text[b]]

-----------------------------------------------------------------------------
(* The application makes and frees the strings it passes *)

NewString(b, n) ==
  /\ b \in Unused
  /\ Buffers({}, {b}, n)
  /\ app' = app \cup {b}
  /\ UNCHANGED <<use, flags, node, lost>>

FreeString(b) ==
  /\ b \in app
  /\ \A n \in Entries : StrDup \/ node[n].key # b
  /\ Buffers({b}, {}, NULL)
  /\ app' = app \ {b}
  /\ UNCHANGED <<use, flags, node, lost>>

-----------------------------------------------------------------------------
(* Adding to the map *)

\* (mutant: the new value is freed)
InsertFreesNewValue(n, k, v, made) ==
  /\ Buffers(IF n \in Entries THEN FreedByKey(k) \cup FreedByValue(v) ELSE {},
             made, n)
  /\ node' = Put(n, IF n \in Entries THEN node[n].key ELSE k, v)
  /\ app' = app \ FreedByKey(k)

\* avl_insert of the key k and the value v for the name n, which the buffers of
\* made were allocated for: an existing entry keeps its key, then k and the old
\* value are deleted
Insert(n, k, v, made) ==
  /\ Buffers(IF n \in Entries THEN FreedByKey(k) \cup FreedByValue(node[n].value)
                              ELSE {}, made, n)
  /\ node' = Put(n, IF n \in Entries THEN node[n].key ELSE k, v)
  /\ app' = app \ FreedByKey(k)

\* a value that the application made for the map: NULL, or a string object
\* with a buffer of its own
NewValue(v, made) ==
  \/ use.null /\ v = NoValue /\ made = {}
  \/ \E b \in Unused : v = [str |-> b, free |-> TRUE] /\ made = {b}

coMapAdd(b) ==
  /\ "coMapAdd" \in use.ops
  /\ b \in app
  /\ \E n \in {text[b]}, v \in Values, made \in SUBSET Unused :
       /\ NewValue(v, made)
       /\ IF StrDup
            THEN \E k \in Unused \ made : Insert(n, k, v, made \cup {k})
            ELSE Insert(n, b, v, made)
  /\ UNCHANGED <<use, flags, lost>>

\* coMapAdd without memory for the node: the copy of the key is not freed; a
\* key and a value that were to be moved stay with the application
coMapAddFails(b) ==
  /\ "coMapAdd" \in use.ops /\ use.oom
  /\ b \in app /\ text[b] \notin Entries
  /\ StrDup
  /\ \E k \in Unused : Buffers({}, {k}, text[b]) /\ lost' = lost \cup {k}
  /\ UNCHANGED <<use, flags, app, node>>

\* coMapAddValueKey with CO_STRDUP: the value refers to the key of the node
AddDupKey(n) ==
  \E k \in Unused : Insert(n, k, [str |-> k, free |-> FALSE], {k})

\* coMapAddValueKey without CO_STRDUP: the key of the node is the string in
\* the value
AddValueAsKey(n) ==
  \E k \in Unused : Insert(n, k, [str |-> k, free |-> TRUE], {k})

\* an entry that exists and has a value is returned as it is
HasValue(n) == n \in Entries /\ node[n].value # NoValue

\* a map that frees its keys must copy them (the assertion at co.c:984)
MayAddValueKey(b) ==
  /\ "coMapAddValueKey" \in use.ops
  /\ b \in app
  /\ ~HasValue(text[b])
  /\ StrFree => StrDup

coMapAddValueKey(b) ==
  /\ MayAddValueKey(b)
  /\ IF StrDup THEN AddDupKey(text[b]) ELSE AddValueAsKey(text[b])
  /\ UNCHANGED <<use, flags, lost>>

\* no memory for the string object: a NULL value is stored, with the copy of the
\* key or, without CO_STRDUP, with the empty string that coStrGet(NULL) returns
coMapAddValueKeyFails(b) ==
  /\ MayAddValueKey(b) /\ use.oom
  /\ IF StrDup THEN \E k \in Unused : Insert(text[b], k, NoValue, {k})
               ELSE Insert(Empty, Static, NoValue, {})
  /\ UNCHANGED <<use, flags, lost>>

-----------------------------------------------------------------------------
(* Removing from the map *)

coMapErase(n) ==
  /\ n \in Entries
  /\ Buffers(FreedWith(n), {}, NULL)
  /\ node' = [m \in Entries \ {n} |-> node[m]]
  /\ UNCHANGED <<use, flags, app, lost>>

coMapClear ==
  /\ Buffers(UNION {FreedWith(n) : n \in Entries}, {}, NULL)
  /\ node' = [m \in {} |-> NULL]
  /\ UNCHANGED <<use, flags, app, lost>>

\* coMapInit: CO_STRDUP sets CO_STRFREE
KeysInit ==
  /\ use \in Uses
  /\ flags = use.flags \cup (IF "CO_STRDUP" \in use.flags THEN {"CO_STRFREE"} ELSE {})
  /\ text = [b \in Buf |-> NULL]
  /\ app = {}
  /\ node = [m \in {} |-> NULL]
  /\ lost = {}

KeysNext ==
  \/ \E b \in Buf, n \in Name : NewString(b, n)
  \/ \E b \in Buf : \/ FreeString(b)
                    \/ coMapAdd(b)
                    \/ coMapAddFails(b)
                    \/ coMapAddValueKey(b)
                    \/ coMapAddValueKeyFails(b)
  \/ \E n \in Name \cup {Empty} : coMapErase(n)
  \/ coMapClear

KeysSpec == KeysInit /\ [][KeysNext]_keyVars

-----------------------------------------------------------------------------
(* Properties *)

\* The tree never compares with a freed key: the key of every entry is
\* allocated and is still the string the entry was made for.
KeysLive ==
  \A n \in Entries : node[n].key # Static => text[node[n].key] = n

\* Nor does a string object of the map ever refer to a freed buffer.
EntriesLive ==
  /\ KeysLive
  /\ \A n \in Entries :
       node[n].value # NoValue => text[node[n].value.str] # NULL

\* coDelete of the map frees no buffer twice and none of the application's, and
\* leaves none but the key copies of a coMapAdd that failed.
FreedExactlyOnce ==
  /\ \A n \in Entries :
       /\ FreedWith(n) \cap (app \cup lost) = {}
       /\ StrFree => node[n].key \notin FreedByValue(node[n].value)
       /\ \A m \in Entries \ {n} : FreedWith(n) \cap FreedWith(m) = {}
  /\ \A b \in Buf \ Unused :
       b \in app \cup lost \/ \E n \in Entries : b \in FreedWith(n)

\* The map refers to allocated buffers only, and frees each of its own once.
BuffersOwned == EntriesLive /\ FreedExactlyOnce
=============================================================================
