-------------------------------- MODULE CoA2l --------------------------------
(***************************************************************************)
(* The A2L reader (co/co_extra.c).  coA2LGetArray reads the tokens of one  *)
(* block, "/begin name ... /end name", and calls itself for a block in it; *)
(* each active call is a frame of the stack.                               *)
(*                                                                         *)
(* The words /begin and /end, and those that have a static string, are     *)
(* constants, as short as the bounds need them.                            *)
(***************************************************************************)
EXTENDS CoDocument

CONSTANTS
  begin, end,  \* the words that begin and end a block
  StaticWords, \* no string is allocated for them
  NoToken,     \* NULL
  CO_A2L_IDENTIFIER_STRING_MAX

ASSUME A2lAssumption == CO_A2L_IDENTIFIER_STRING_MAX \in Nat

\* characters
DQuote    == 34
Star      == 42
Slash     == 47
Backslash == 92
Newline   == {10, 13}

-----------------------------------------------------------------------------
(* Tokens: what is read, and the reader after it *)

Token(r, s) == [reader |-> r, s |-> s]

Escaped == (110 :> 10) @@ (116 :> 9) @@ (98 :> 8) @@ (102 :> 12) @@ (114 :> 13)

\* the string has its quotes
RECURSIVE StringRest(_, _)
StringRest(r, s) ==
  LET next    == coReaderNext(r)
      Go(q, c) == IF Len(s) + 1 + 8 >= CO_A2L_IDENTIFIER_STRING_MAX THEN Token(q, NoToken)
                  ELSE StringRest(q, Append(s, c))
  IN CASE r.curr < 0 -> Token(r, NoToken)
       [] r.curr = DQuote -> Token(coReaderSkipWhiteSpace(next), Append(s, DQuote))
       [] r.curr = Backslash ->
            Go(coReaderNext(next),
               IF next.curr \in DOMAIN Escaped THEN Escaped[next.curr] ELSE next.curr % 256)
       [] OTHER -> Go(next, r.curr)

coA2LGetString(r) == StringRest(coReaderNext(r), <<DQuote>>)

RECURSIVE coA2LGetIdentifier(_, _)
coA2LGetIdentifier(r, s) ==
  IF r.curr <= 32 \/ r.curr \in {Slash, DQuote} THEN Token(coReaderSkipWhiteSpace(r), s)
  ELSE IF Len(s) + 2 >= CO_A2L_IDENTIFIER_STRING_MAX THEN Token(r, NoToken)
  ELSE coA2LGetIdentifier(coReaderNext(r), Append(s, r.curr))

RECURSIVE LineComment(_)
LineComment(r) ==
  CASE r.curr < 0 -> r
    [] r.curr \in Newline -> coReaderSkipWhiteSpace(r)
    [] OTHER -> LineComment(coReaderNext(r))

\* (mutant: a star that does not end the comment takes the next character along)
RECURSIVE StarTakesNext(_)
StarTakesNext(r) ==
  LET next == coReaderNext(r) IN
    CASE r.curr < 0 -> r
      [] r.curr = Star /\ next.curr = Slash -> coReaderSkipWhiteSpace(coReaderNext(next))
      [] r.curr = Star /\ next.curr # Slash -> StarTakesNext(coReaderNext(next))
      [] OTHER -> StarTakesNext(next)

RECURSIVE BlockComment(_)
BlockComment(r) ==
  LET next == coReaderNext(r) IN
    CASE r.curr < 0 -> r
      [] r.curr = Star /\ next.curr = Slash -> coReaderSkipWhiteSpace(coReaderNext(next))
      [] OTHER -> BlockComment(next)

\* an empty token is a comment
coA2LGetSlashPrefixedToken(r) ==
  LET next == coReaderNext(r) IN
    CASE next.curr = Slash -> Token(LineComment(coReaderNext(next)), <<>>)
      [] next.curr = Star  -> Token(BlockComment(coReaderNext(next)), <<>>)
      [] OTHER -> coA2LGetIdentifier(next, <<Slash>>)

RECURSIVE coA2LGetToken(_)
coA2LGetToken(r) ==
  LET slash == coA2LGetSlashPrefixedToken(r) IN
    CASE r.curr < 0 -> Token(r, <<>>)
      [] r.curr = DQuote -> coA2LGetString(r)
      [] r.curr = Slash -> IF slash.s = <<>> THEN coA2LGetToken(slash.reader) ELSE slash
      [] OTHER -> coA2LGetIdentifier(r, <<>>)

-----------------------------------------------------------------------------
(* coA2LGetArray *)

\* without memory for the vector the call goes on with NULL
Call ==
  /\ pc = "call"
  /\ \/ Push(Vec(<<>>)) /\ Allocated(1, 0)
     \/ Push(Null) /\ AllocationFails(0)
  /\ Goto("token")
  /\ UNCHANGED <<input, reader, result>>

\* the end of the file after a token, which is dropped, returns what has been read
AtEnd(token) ==
  /\ token.reader.curr < 0
  /\ reader' = token.reader
  /\ Return(Top.obj)
  /\ UNCHANGED <<live, lost, badfree, failed>>

TokenError(token) ==
  /\ token.reader.curr >= 0 /\ token.s = NoToken
  /\ reader' = token.reader
  /\ Deleted(Top.obj, 0) /\ Return(Null)
  /\ UNCHANGED <<lost, failed>>

BeginBlock(token) ==
  /\ token.reader.curr >= 0 /\ token.s = begin
  /\ reader' = token.reader
  /\ Goto("call")
  /\ UNCHANGED <<stack, ret, live, lost, badfree, failed>>

\* (mutant: the name after /end is a word of the next block)
EndKeepsName(token) ==
  /\ token.reader.curr >= 0 /\ token.s = end
  /\ reader' = token.reader
  /\ Return(Top.obj)
  /\ UNCHANGED <<live, lost, badfree, failed>>

\* the token after /end is dropped
EndBlock(token) ==
  /\ token.reader.curr >= 0 /\ token.s = end
  /\ reader' = coA2LGetToken(token.reader).reader
  /\ Return(Top.obj)
  /\ UNCHANGED <<live, lost, badfree, failed>>

\* without memory for the object the vector is not deleted; without memory for
\* the characters strlen is called with NULL
Word(token) ==
  LET static == token.s \in StaticWords
      str    == [t |-> "str", s |-> CString(token.s), buf |-> IF static THEN "static" ELSE "malloc"]
  IN /\ token.reader.curr >= 0 /\ token.s \notin {NoToken, begin, end}
     /\ reader' = token.reader
     /\ \/ Yield(str) /\ Allocated(Size(str), 0)
        \/ /\ Oom /\ failed' = TRUE /\ lost' = lost + Size(Top.obj)
           /\ Return(Null) /\ UNCHANGED <<live, badfree>>
        \/ ~static /\ AllocationFails(1) /\ Goto("halt") /\ UNCHANGED <<stack, ret>>

ReadToken ==
  /\ pc = "token"
  /\ \E token \in {coA2LGetToken(reader)} :
       \/ AtEnd(token) \/ TokenError(token) \/ BeginBlock(token) \/ EndBlock(token)
       \/ Word(token)
  /\ UNCHANGED <<input, result>>

Returned == pc = "ret" /\ stack # <<>>

\* a block in this one has failed: the vector is not deleted
BlockFails ==
  /\ Returned /\ ret = Null
  /\ lost' = lost + Size(Top.obj) /\ Return(Null)
  /\ UNCHANGED <<input, reader, live, badfree, failed, result>>

\* coVectorAdd to NULL stops the program
AddToBlock ==
  /\ Returned /\ ret # Null
  /\ IF Top.obj = Null THEN Goto("halt") /\ UNCHANGED <<stack, ret>>
     ELSE Goto("token") /\ Added(Vec(Append(Top.obj.e, ret)))
  /\ UNCHANGED <<input, reader, live, lost, badfree, failed, result>>

AddToBlockFails ==
  /\ Returned /\ ret # Null /\ Top.obj # Null
  /\ AddFails
  /\ UNCHANGED <<input, reader, result>>

A2lNext ==
  \/ Call \/ ReadToken \/ BlockFails \/ AddToBlock \/ AddToBlockFails
=============================================================================
