-------------------------------- MODULE CoJson --------------------------------
(***************************************************************************)
(* The JSON reader and the JSON writer (co/co.c).  coJSONGetValue,         *)
(* coJSONGetArray and coJSONGetMap call each other; a container is a frame *)
(* of the stack, and pc is where the function of the top frame is.         *)
(*                                                                         *)
(* A number stands for itself as it is written; the words true, false and  *)
(* null are constants, as short as the bounds need them.                   *)
(***************************************************************************)
EXTENDS CoDocument

CONSTANTS
  true, false, null, \* the identifiers
  COJ_STR_BUF        \* characters of a string that are buffered

ASSUME JsonAssumption == COJ_STR_BUF \in Nat \ {0}

Char_of == [quote |-> 34, comma |-> 44, slash |-> 47, colon |-> 58, u |-> 117,
            backslash |-> 92, arrayB |-> 91, arrayE |-> 93, mapB |-> 123, mapE |-> 125]

-----------------------------------------------------------------------------
(* Tokens: what is read, and the reader after it *)

Letters == (65 .. 90) \cup (97 .. 122)
Numeric == (48 .. 57) \cup {43, 45, 46, 69, 101}   \* digits, + - . E e

RECURSIVE While(_, _, _)
While(r, s, chars) ==
  IF r.curr \in chars THEN While(coReaderNext(r), Append(s, r.curr), chars)
  ELSE [reader |-> coReaderSkipWhiteSpace(r), s |-> s]

coJSONGetIdentifier(r) == While(r, <<>>, Letters)

Number(r) == While(r, <<>>, Numeric)

HexDigit(c) ==
  CASE c \in 48 .. 57  -> c - 48
    [] c \in 97 .. 102 -> c - 87
    [] c \in 65 .. 70  -> c - 55
    [] OTHER -> -1

\* The four digits after \u as UTF-8: of the reader at u, the reader after the
\* digits, or at the character that is none
RECURSIVE Hex(_, _, _)
Hex(r, n, u) ==
  LET next == coReaderNext(r)
      d    == HexDigit(next.curr)
  IN IF n = 0 THEN [reader |-> next, s |-> Reverse(coEncodeUTF8(u)), ok |-> TRUE]
     ELSE IF d < 0 THEN [reader |-> next, s |-> <<>>, ok |-> FALSE]
     ELSE Hex(next, n - 1, 16 * u + d)

Escapes == (110 :> 10) @@ (116 :> 9) @@ (98 :> 8) @@ (102 :> 12) @@ (114 :> 13)

\* of the reader at the character after the backslash
Escape(r) ==
  IF r.curr = Char_of.u THEN Hex(r, 4, 0)
  ELSE [reader |-> coReaderNext(r), ok |-> TRUE,
        s |-> <<IF r.curr \in DOMAIN Escapes THEN Escapes[r.curr] ELSE r.curr % 256>>]

\* The string up to its closing quote.  More than COJ_STR_BUF characters are moved
\* to an allocated string; stops are the readers where that happens and may fail.
\* After another error the string is left: leak.
RECURSIVE StrRest(_, _, _, _)
StrRest(r, s, idx, stops) ==
  LET Error(q)   == [reader |-> q, ok |-> FALSE, stops |-> stops,
                     leak |-> IF stops # {} THEN 1 ELSE 0]
      Go(q, more) ==
        LET flush == idx + Len(more) > COJ_STR_BUF IN
          StrRest(q, s \o more, IF flush THEN 0 ELSE idx + Len(more),
                  IF flush THEN stops \cup {q} ELSE stops)
      esc == Escape(coReaderNext(r))
      last == coReaderSkipWhiteSpace(coReaderNext(r))
  IN CASE r.curr < 0 -> Error(r)
       [] r.curr = Char_of.quote ->
            [reader |-> last, ok |-> TRUE, leak |-> 0, s |-> CString(s),
             stops |-> stops \cup {last}]
       [] r.curr = Char_of.backslash ->
            IF esc.ok THEN Go(esc.reader, esc.s) ELSE Error(esc.reader)
       [] OTHER -> Go(coReaderNext(r), <<r.curr>>)

coJSONGetStr(r) ==
  IF r.curr # Char_of.quote THEN [reader |-> r, ok |-> FALSE, leak |-> 0, stops |-> {}]
  ELSE StrRest(coReaderNext(r), <<>>, 0, {})

\* no memory for the characters, but for the object
StringFails ==
  /\ Oom /\ failed' = TRUE /\ live' = live + 1
  /\ UNCHANGED <<lost, badfree>>

\* past one character and white space
Skip(r) == coReaderSkipWhiteSpace(coReaderNext(r))

-----------------------------------------------------------------------------
(* coJSONGetValue *)

Sees(c) == pc = "value" /\ reader.curr = c

\* Without memory for the vector, coJSONGetArray still sees the end of the file.
BeginArray ==
  /\ Sees(Char_of.arrayB)
  /\ reader' = Skip(reader)
  /\ \/ Push(Vec(<<>>)) /\ Allocated(1, 0) /\ Goto("array")
     \/ /\ AllocationFails(0)
        /\ IF reader'.curr < 0 THEN Yield(Null) ELSE Goto("halt") /\ UNCHANGED <<stack, ret>>
  /\ UNCHANGED <<input, result>>

BeginMap ==
  /\ Sees(Char_of.mapB)
  /\ \/ Push(Map(EmptyMap)) /\ Allocated(1, 0) /\ Goto("map") /\ reader' = Skip(reader)
     \/ AllocationFails(0) /\ Yield(Null) /\ UNCHANGED reader
  /\ UNCHANGED <<input, result>>

\* coNewStr makes an empty string of the NULL that coJSONGetStr returns after an
\* error, in a static buffer and with the flag that has it freed.
StaticStr == [t |-> "str", s |-> <<>>, buf |-> "static, freed"]

StringValue ==
  /\ Sees(Char_of.quote)
  /\ \E str \in {coJSONGetStr(reader)} :
       \/ /\ reader' = str.reader
          /\ IF str.ok THEN Yield(Str(str.s)) /\ Allocated(2, 0)
             ELSE Yield(StaticStr) /\ Allocated(1 + str.leak, str.leak)
       \/ /\ reader' \in str.stops
          /\ Yield(StaticStr) /\ StringFails
       \/ /\ reader' = str.reader
          /\ Yield(Null) /\ AllocationFails(IF str.ok THEN 1 ELSE str.leak)
  /\ UNCHANGED <<input, result>>

NumberValue ==
  /\ pc = "value" /\ reader.curr \in Numeric
  /\ \E num \in {Number(reader)} :
       /\ reader' = num.reader
       /\ \/ Yield([t |-> "dbl", s |-> num.s]) /\ Allocated(1, 0)
          \/ AllocationFails(0) /\ Yield(Null)
  /\ UNCHANGED <<input, result>>

\* any other character is not read, and the value is NULL
WordValue ==
  /\ pc = "value"
  /\ reader.curr \notin {Char_of.arrayB, Char_of.mapB, Char_of.quote}
  /\ reader.curr \notin Numeric
  /\ \E word \in {coJSONGetIdentifier(reader)} :
       /\ reader' = word.reader
       /\ IF word.s \in {true, false}
          THEN \/ Yield([t |-> "bool", b |-> word.s = true]) /\ Allocated(1, 0)
               \/ AllocationFails(0) /\ Yield(Null)
          ELSE Yield(Null) /\ Allocated(0, 0)
  /\ UNCHANGED <<input, result>>

-----------------------------------------------------------------------------
(* coJSONGetArray *)

EndArray ==
  /\ pc = "array" /\ reader.curr = Char_of.arrayE
  /\ reader' = Skip(reader)
  /\ Return(Top.obj)
  /\ UNCHANGED <<input, live, lost, badfree, failed, result>>

\* the end of the file, or no comma between two elements
ArrayError ==
  /\ pc = "array"
  /\ reader.curr < 0 \/ (Top.obj.e # <<>> /\ reader.curr \notin {Char_of.arrayE, Char_of.comma})
  /\ Deleted(Top.obj, 0) /\ Return(Null)
  /\ UNCHANGED <<input, reader, lost, failed, result>>

NextElement ==
  /\ pc = "array" /\ reader.curr \notin {EOF, Char_of.arrayE}
  /\ Top.obj.e # <<>> => reader.curr = Char_of.comma
  /\ reader' = IF Top.obj.e # <<>> THEN Skip(reader) ELSE reader
  /\ Goto("value")
  /\ UNCHANGED <<input, stack, ret, live, lost, badfree, failed, result>>

InVector == pc = "ret" /\ stack # <<>> /\ Top.obj.t = "vec"
InMap    == pc = "ret" /\ stack # <<>> /\ Top.obj.t = "map"

AddElement ==
  /\ InVector
  /\ Goto("array") /\ Added(Vec(Append(Top.obj.e, ret)))
  /\ UNCHANGED <<input, reader, live, lost, badfree, failed, result>>

AddElementFails ==
  /\ InVector /\ AddFails
  /\ UNCHANGED <<input, reader, result>>

-----------------------------------------------------------------------------
(* coJSONGetMap *)

EndMap ==
  /\ pc = "map" /\ reader.curr = Char_of.mapE
  /\ reader' = Skip(reader)
  /\ Return(Top.obj)
  /\ UNCHANGED <<input, live, lost, badfree, failed, result>>

\* the map is not deleted
MapAtEnd ==
  /\ pc = "map" /\ reader.curr < 0
  /\ lost' = lost + Size(Top.obj) /\ Return(Null)
  /\ UNCHANGED <<input, reader, live, badfree, failed, result>>

\* after the first pair a comma is skipped, if there is one
AtKey ==
  IF DOMAIN Top.obj.m # {} /\ reader.curr = Char_of.comma THEN Skip(reader) ELSE reader

GetKey ==
  /\ pc = "map" /\ reader.curr \notin {EOF, Char_of.mapE}
  /\ \E key \in {coJSONGetStr(AtKey)} :
       \/ /\ key.ok /\ key.reader.curr = Char_of.colon
          /\ reader' = Skip(key.reader)
          /\ Goto("value")
          /\ stack' = Append(Front(stack), [Top EXCEPT !.key = [t |-> "key", s |-> key.s]])
          /\ Allocated(1, 0) /\ UNCHANGED ret
       \/ /\ key.ok /\ key.reader.curr # Char_of.colon
          /\ reader' = key.reader
          /\ Deleted(Top.obj, 0) /\ Return(Null)
          /\ UNCHANGED <<lost, failed>>
       \/ /\ ~key.ok /\ reader' = key.reader
          /\ Deleted(Top.obj, -key.leak) /\ Return(Null)
          /\ lost' = lost + key.leak /\ UNCHANGED failed
       \/ /\ Oom /\ failed' = TRUE /\ reader' \in key.stops
          /\ Deleted(Top.obj, 0) /\ Return(Null)
          /\ UNCHANGED lost
  /\ UNCHANGED <<input, result>>

\* (mutant: the old value is not deleted)
AddPairKeepsOld ==
  /\ InMap
  /\ LET k == Top.key.s IN
       /\ live' = IF k \in DOMAIN Top.obj.m THEN live - 1 ELSE live + 1
       /\ badfree' = (badfree \/ (k \in DOMAIN Top.obj.m /\ FreesStatic(Top.obj.m[k])))
       /\ Added(Map(Put(Top.obj.m, k, ret)))
  /\ Goto("map")
  /\ UNCHANGED <<input, reader, lost, failed, result>>

\* coMapAdd: a key that is there already stays, the new one and the old value are
\* deleted
AddPair ==
  /\ InMap
  /\ LET k == Top.key.s IN
       /\ IF k \in DOMAIN Top.obj.m THEN Deleted(Top.obj.m[k], 1)
          ELSE live' = live + 1 /\ UNCHANGED badfree
       /\ Added(Map(Put(Top.obj.m, k, ret)))
  /\ Goto("map")
  /\ UNCHANGED <<input, reader, lost, failed, result>>

\* no memory for the node: the value is not deleted
AddPairFails ==
  /\ InMap
  /\ Oom /\ failed' = TRUE /\ Top.key.s \notin DOMAIN Top.obj.m
  /\ Deleted(Top.obj, 1)
  /\ lost' = lost + Size(ret)
  /\ Return(Null)
  /\ UNCHANGED <<input, reader, result>>

JsonNext ==
  \/ BeginArray \/ BeginMap \/ StringValue \/ NumberValue \/ WordValue
  \/ EndArray \/ ArrayError \/ NextElement \/ AddElement \/ AddElementFails
  \/ EndMap \/ MapAtEnd \/ GetKey \/ AddPair \/ AddPairFails

-----------------------------------------------------------------------------
(* The writer *)

\* (mutant: the backslash is not escaped)
BackslashBare(c, isUTF8) ==
  LET HexChar(d) == IF d < 10 THEN 48 + d ELSE 87 + d IN
    CASE c \in {34, 47} -> <<92, c>>
      [] \E e \in DOMAIN Escapes : Escapes[e] = c ->
           <<92, CHOOSE e \in DOMAIN Escapes : Escapes[e] = c>>
      [] (c < 32 /\ \A e \in DOMAIN Escapes : Escapes[e] # c) \/ (~isUTF8 /\ c > 127) ->
           <<92, 117, 48, 48, HexChar(c \div 16), HexChar(c % 16)>>
      [] OTHER -> <<c>>

\* a character of a string; without isUTF8 each byte above 127 is a code point
writeChar(c, isUTF8) ==
  LET HexChar(d) == IF d < 10 THEN 48 + d ELSE 87 + d IN
    CASE c \in {34, 47, 92} -> <<92, c>>
      [] \E e \in DOMAIN Escapes : Escapes[e] = c ->
           <<92, CHOOSE e \in DOMAIN Escapes : Escapes[e] = c>>
      [] (c < 32 /\ \A e \in DOMAIN Escapes : Escapes[e] # c) \/ (~isUTF8 /\ c > 127) ->
           <<92, 117, 48, 48, HexChar(c \div 16), HexChar(c % 16)>>
      [] OTHER -> <<c>>

writeString(s, isUTF8) ==
  <<34>> \o FlattenSeq([i \in DOMAIN s |-> writeChar(s[i], isUTF8)]) \o <<34>>

\* the items of a container, one to a line unless the output is compact
Lines(items, depth, opening, closing) ==
  LET NL        == IF depth >= 0 THEN <<10>> ELSE <<>>
      Indent(d) == [i \in 1 .. 2 * (IF d > 0 THEN d ELSE 0) |-> 32]
  IN <<opening>> \o NL
     \o FlattenSeq([i \in DOMAIN items |->
          Indent(depth + 1) \o items[i]
          \o (IF i < Len(items) THEN <<Char_of.comma>> ELSE <<>>) \o NL])
     \o Indent(depth) \o <<closing>>

\* strcmp
RECURSIVE Before(_, _)
Before(a, b) ==
  b # <<>> /\ (a = <<>> \/ Head(a) < Head(b) \/ (Head(a) = Head(b) /\ Before(Tail(a), Tail(b))))

RECURSIVE coWriteJSONTraverse(_, _, _)
coWriteJSONTraverse(v, depth, isUTF8) ==
  CASE v.t = "null" -> null
    [] v.t = "str"  -> writeString(v.s, isUTF8)
    [] v.t = "dbl"  -> v.s
    [] v.t = "bool" -> IF v.b THEN true ELSE false
    [] v.t = "vec"  ->
         Lines([i \in DOMAIN v.e |-> coWriteJSONTraverse(v.e[i], depth + 1, isUTF8)],
               depth, Char_of.arrayB, Char_of.arrayE)
    [] v.t = "map"  ->
         LET keys == SetToSortSeq(DOMAIN v.m, Before) IN
           Lines([i \in DOMAIN keys |->
                    writeString(keys[i], isUTF8) \o <<Char_of.colon>>
                    \o coWriteJSONTraverse(v.m[keys[i]], depth + 2, isUTF8)],
                 depth, Char_of.mapB, Char_of.mapE)

coWriteJSON(v, isCompact, isUTF8) ==
  coWriteJSONTraverse(v, IF isCompact THEN -10000 ELSE 0, isUTF8)
=============================================================================
