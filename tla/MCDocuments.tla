----------------------------- MODULE MCDocuments -----------------------------
(* The readers of JSON and A2L on documents that are written from values, on   *)
(* documents that break off, and on texts of any characters.                   *)
EXTENDS CoJson, CoA2l

Start == [json |-> "value", a2l |-> "call"]

Next ==
  \/ input.format = "json" /\ JsonNext
  \/ input.format = "a2l" /\ A2lNext
  \/ Finish

A == 97

\* the words, in one or two characters
word_t == <<116>>
word_f == <<102>>
word_n == <<110>>

slash_b == <<47, 98>>
slash_e == <<47, 101>>

Zero == {<<48>>}

Strings(alphabet, n) == UNION {[1 .. k -> alphabet] : k \in 0 .. n}

Input(format, file, string, kind, value) ==
  [format |-> format, file |-> file, string |-> string, kind |-> kind, value |-> value]

\* one that is not written from a value
Text(format, file, string) == Input(format, file, string, "text", Null)

-----------------------------------------------------------------------------
(* JSON *)

Dbl == [t |-> "dbl", s |-> <<49, 46, 50>>]
Bool(b) == [t |-> "bool", b |-> b]

\* characters that are escaped, a letter of two bytes, and more than the buffer holds
SomeStrings == {<<>>, <<A>>, <<34, 47, 92>>, <<10, 13, 9, 12, 8>>, <<1>>, <<195, 164, A>>}

Leaves  == {Null, Dbl, Bool(TRUE), Bool(FALSE)} \cup {Str(s) : s \in SomeStrings}
Vectors == {Vec(e) : e \in Strings({Null, Dbl, Str(<<34>>)}, 2)}
Maps    == {Map(EmptyMap)} \cup {Map(s :> v) : s \in SomeStrings, v \in {Null, Dbl}}
           \cup {Map((<<A>> :> v) @@ (<<A, 31>> :> Dbl)) : v \in {Null, Bool(TRUE)}}
Nested  == {Vec(<<v, w>>) : v \in Maps, w \in {Vec(<<>>), Dbl}}
           \cup {Map(<<A>> :> v) : v \in Vectors}
           \cup {Map((<<>> :> v) @@ (<<34>> :> v)) : v \in {Vec(<<Dbl>>), Map(<<A>> :> Null)}}

\* what a string is after it was written without isUTF8: its bytes are code points
Latin1(s) ==
  FlattenSeq([i \in DOMAIN s |-> IF s[i] < 128 THEN <<s[i]>> ELSE Reverse(coEncodeUTF8(s[i]))])

RECURSIVE AsLatin1(_)
AsLatin1(v) ==
  CASE v.t = "str" -> Str(Latin1(v.s))
    [] v.t = "vec" -> Vec([i \in DOMAIN v.e |-> AsLatin1(v.e[i])])
    [] v.t = "map" -> Map([k \in {Latin1(s) : s \in DOMAIN v.m} |->
                             AsLatin1(v.m[CHOOSE s \in DOMAIN v.m : Latin1(s) = k])])
    [] OTHER -> v

WrittenJson ==
  {Input("json", coWriteJSON(v, compact, isUTF8), FALSE, "whole",
         IF isUTF8 THEN v ELSE AsLatin1(v)) :
     v \in Leaves \cup Vectors \cup Maps \cup Nested, compact, isUTF8 \in BOOLEAN}

\* a container that breaks off, read from a string
BrokenJson ==
  UNION {LET text == coWriteJSON(v, TRUE, FALSE) IN
           {Input("json", SubSeq(text, 1, n), TRUE, "part", v) : n \in 1 .. Len(text) - 1} :
           v \in Vectors \cup Maps \cup Nested}

JsonTexts ==
  {Text("json", t, TRUE) :
     t \in Strings({91, 93, 123, 125, 44, 34, A}, 3) \cup Strings({34, 92, 117, 110}, 3)
           \cup {<<123, 34, 34, 58>> \o t : t \in Strings({91, 123, 125, 44, 34, 58, 49}, 3)}
           \cup {<<123, 34, 34, 58, 123, 125, 44, 34, 34, 58>> \o t : t \in Strings({91, 93, 125, 34}, 2)}
           \cup {<<91, 34, A, A, A>> \o t : t \in Strings({34, 92, 117, 50, 93}, 3)}}

-----------------------------------------------------------------------------
(* A2L *)

Blank == 32

\* a block with its name, or a word
RECURSIVE A2lText(_, _)
A2lText(v, between) ==
  IF v.t = "str" THEN v.s \o between
  ELSE begin \o between
       \o FlattenSeq([i \in DOMAIN v.e |-> A2lText(v.e[i], between)])
       \o end \o between \o v.e[1].s \o between

AWord(s) == [t |-> "str", s |-> s, buf |-> IF s \in StaticWords THEN "static" ELSE "malloc"]

Words  == {AWord(<<A>>), AWord(<<48>>), AWord(<<34, 32, 34>>)}
Block1 == {Vec(<<AWord(<<A>>)>> \o e) : e \in Strings(Words, 2)}
Block2 == {Vec(<<AWord(<<48>>)>> \o e) :
             e \in {<<b, w>> : b \in Block1, w \in Words} \cup {<<w, b>> : b \in Block1, w \in Words}}
Files  == {Vec(<<w, b>>) : w \in Words, b \in Block1} \cup {Vec(<<b>>) : b \in Block2}

\* white space and comments of both kinds
Betweens == {<<Blank>>, <<10>>, <<Blank, 47, 47, A, 34, 10>>,
             <<Blank, 47, 42, 42, A, 42, 47>>, <<47, 42, 42, 42, 47, Blank>>}

A2lFile(v, between) ==
  FlattenSeq([i \in DOMAIN v.e |-> A2lText(v.e[i], between)])

WrittenA2l ==
  {Input("a2l", A2lFile(v, between), FALSE, "whole", v) : v \in Files, between \in Betweens}

BrokenA2l ==
  UNION {LET text == A2lFile(v, <<Blank, 47, 42, 42, 47>>) IN
           {Input("a2l", SubSeq(text, 1, n), TRUE, "part", v) : n \in 0 .. Len(text) - 1} :
           v \in {Vec(<<b>>) : b \in {x \in Block2 : x.e[2] # AWord(<<48>>)}}}

Pieces == {begin \o <<Blank>>, end \o <<Blank>>, <<A, Blank>>, <<48, Blank>>, <<34, 92, 34>>,
           <<34>>, <<47, 42>>, [i \in 1 .. 12 |-> A]}

A2lTexts == {Text("a2l", FlattenSeq(s), TRUE) : s \in Strings(Pieces, 3)}

SmallInputs == WrittenJson \cup BrokenJson \cup JsonTexts \cup WrittenA2l \cup BrokenA2l \cup A2lTexts

Init == InitWith(SmallInputs, Start)

-----------------------------------------------------------------------------
(* Properties *)

Done == pc = "done" /\ ~failed

\* What coWriteJSON writes is read as the value it was written from, in both layouts
\* and with every escape; without isUTF8 a byte above 127 is read as that code point.
\* Nothing is left behind.  A container that breaks off is rejected wherever it does:
\* an error below is taken for null, but every container above then sees the end, too.
JsonRead ==
  Done /\ input.format = "json" =>
    /\ input.kind = "whole" => result = input.value /\ lost = 0 /\ ~badfree
    /\ input.kind = "part"  => result = Null

\* is v what has been read of w before the end of the file?
RECURSIVE PartOf(_, _)
PartOf(v, w) ==
  \/ v = w
  \/ /\ v.t = "vec" /\ w.t = "vec" /\ Len(v.e) <= Len(w.e)
     /\ \A i \in 1 .. Len(v.e) - 1 : v.e[i] = w.e[i]
     /\ v.e = <<>> \/ PartOf(Last(v.e), w.e[Len(v.e)])

\* An A2L file is read block for block, whatever comments it has, and of a file that
\* breaks off anywhere the blocks up to that point are.  Nothing is left behind.
A2lRead ==
  Done /\ input.format = "a2l" =>
    /\ input.kind = "whole" => result = input.value /\ lost = 0
    /\ input.kind = "part" => result # Null /\ PartOf(result, input.value)

\* Whatever fails, what is allocated is in the tree or was lost by one of the error
\* paths that are known to delete nothing; nothing is deleted twice.
Accounted == pc # "halt" => live = Owned + lost
=============================================================================
