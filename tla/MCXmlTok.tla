------------------------------ MODULE MCXmlTok ------------------------------
(***************************************************************************)
(* The tokenizers on every text over small alphabets, fed one symbol at a  *)
(* time: what a token is may not depend on how much of the text behind it  *)
(* has been read, and markup is what the grammar of XML says it is.        *)
(***************************************************************************)
EXTENDS XmlTok, XmlGrammar

CONSTANTS MaxMore   \* symbols a text grows by, one less when it has a head

VARIABLES scanner, text, result, rest, left, past
vars == <<scanner, text, result, rest, left, past>>

Scanners == {"content", "cdata", "prolog", "ignore", "init"}

Scan(kind, s) ==
  CASE kind = "content" -> contentTok(s, 1)
    [] kind = "cdata" -> cdataSectionTok(s, 1)
    [] kind = "prolog" -> prologTok(s, 1)
    [] kind = "ignore" -> ignoreSectionTok(s, 1)
    [] OTHER -> initScan(s, 1)

Alphabet ==
  [content |-> {"<", ">", "/", "!", "-", "[", "]", "?", "&", ";", "#", "1", "a", "=", "'", " ",
                "\r", "C3", "xA9", "C2"},
   cdata |-> {"]", ">", "\r", "\n", "a", "C3", "xA9", "^A"},
   prolog |-> {"<", ">", "!", "-", "[", "]", "?", "%", ";", "#", "a", "1", "'", "\"", "(",
               ")", ",", "*", " ", "\r", "\n", "C2", "xB7", "EF"},
   ignore |-> {"<", "!", "[", "]", ">", "a", "C3"},
   init |-> {"<", "a", "?", "EF", "xBB", "xBF", "FE", " "}]

\* A text starts with one of these, so that what needs a long beginning is met.
Heads ==
  [content |-> {<<>>, <<"<", "a">>, <<"<", "a", " ", "a">>, <<"<", "a", " ", "a", "=", "'">>,
                <<"<", "!">>, <<"<", "!", "-", "-">>, <<"<", "!", "[", "CDATA">>,
                <<"<", "?", "XML">>, <<"<", "?", "xml">>, <<"<", "?", "a", " ">>, <<"&", "#">>},
   cdata |-> {<<>>},
   prolog |-> {<<>>, <<"<", "!", "-", "-">>, <<"<", "?", "xml", " ">>},
   ignore |-> {<<>>},
   init |-> {<<>>}]
----------------------------------------------------------------------------
(* The grammar of markup in content *)

Letter == Alt({Sym1({"a", "xml", "XML", "CDATA"}), Cat(<<One("C3"), One("xA9")>>)})
NameRest == Alt({Letter, Sym1({"1", "-"}), Cat(<<One("C2"), One("xB7")>>)})
NameRe == Cat2(Letter, Star(NameRest))
BlankRe == Sym1({" ", "\r"})

\* Any character, the symbols in except apart.
CharRe(except) ==
  Alt({Sym1(Alphabet["content"] \ ({"C3", "C2", "xA9"} \cup except)),
       Cat(<<Sym1({"C2", "C3"}), One("xA9")>>)})

CommentRe ==
  LET body == Alt({CharRe({"-"}), Cat2(One("-"), CharRe({"-"}))})
  IN  Cat(<<One("<"), One("!"), One("-"), One("-"), Star(body), One("-"), One("-"), One(">")>>)

\* A target in capitals is reserved; the body ends at the first "?>".
TargetRe ==
  Alt({Cat2(Alt({Sym1({"a", "xml", "CDATA"}), Cat(<<One("C3"), One("xA9")>>)}), Star(NameRest)),
       Cat(<<One("XML"), NameRest, Star(NameRest)>>)})
PiRe ==
  LET body == Star(Alt({CharRe({"?"}), Cat2(Plus1(One("?")), CharRe({"?", ">"}))}))
  IN  Cat(<<One("<"), One("?"), TargetRe,
            Opt(Cat(<<BlankRe, body, Star(One("?"))>>)), One("?"), One(">")>>)

RefRe ==
  Cat(<<One("&"), Alt({NameRe, Cat2(One("#"), Plus1(One("1")))}), One(";")>>)

AttRe ==
  Cat(<<NameRe, Star(BlankRe), One("="), Star(BlankRe), One("'"),
        Star(Alt({CharRe({"<", "&", "'"}), RefRe})), One("'")>>)

TagRe ==
  Cat(<<One("<"), NameRe, Star(Cat2(Plus1(BlankRe), AttRe)), Star(BlankRe), Opt(One("/")),
        One(">")>>)

EndTagRe == Cat(<<One("<"), One("/"), NameRe, Star(BlankRe), One(">")>>)
CdataOpenRe == Cat(<<One("<"), One("!"), One("["), One("CDATA"), One("[")>>)

MarkupRe == Alt({CommentRe, PiRe, RefRe, TagRe, EndTagRe, CdataOpenRe})
----------------------------------------------------------------------------

Settled(r) == r.next # 0 /\ ~r.more

\* A run of characters or of white space, which may be cut anywhere.
Run == {"DATA_CHARS", "PROLOG_S"}

Init ==
  /\ scanner \in Scanners
  /\ text \in Heads[scanner]
  /\ result = Scan(scanner, text)
  /\ rest = DeriveAll(NoRules, MarkupRe, text)
  /\ left = IF text = <<>> THEN MaxMore ELSE MaxMore - 1
  /\ past = FALSE

\* Another symbol of the input arrives; one more once the token is decided.
Feed ==
  /\ left > 0 /\ ~past
  /\ \E c \in Alphabet[scanner] :
       /\ text' = Append(text, c)
       /\ result' = Scan(scanner, Append(text, c))
       /\ rest' = IF scanner = "content" /\ Viable(rest) THEN Derive(NoRules, rest, c) ELSE None
  /\ left' = left - 1
  /\ past' = (Settled(result) /\ result.tok \notin Run)
  /\ UNCHANGED scanner

Next == Feed
Spec == Init /\ [][Next]_vars
----------------------------------------------------------------------------

\* A run that turns out to hold what is not allowed becomes an error at or behind
\* the cut.
Cut(r, q) ==
  /\ r.tok \in Run
  /\ q.tok \in {r.tok, "INVALID"} /\ q.next >= r.next

\* A token that is decided stays decided: whatever part of the input the parser
\* holds when it asks, the same markup is found (contentTok, cdataSectionTok,
\* prologTok, ignoreSectionTok and initScan, called on every new buffer).
TokenSettles ==
  [][Settled(result) => result' = result \/ Cut(result, result')]_vars

Markup == scanner = "content" /\ text # <<>> /\ text[1] \in {"<", "&"}
Waits == {"PARTIAL", "PARTIAL_CHAR"}

\* scanCdataSection compares nothing before all of "CDATA[" is there.
CdataHead == Len(text) = 4 /\ Reads(text, 1, <<"<", "!", "[">>)

\* Markup in content is exactly what the grammar allows: the tokenizer gives up
\* as soon as nothing could complete the text, waits while something could, and
\* returns a token at the first position where the grammar is satisfied
\* (scanLt, scanAtts, scanRef, scanPi, scanComment, scanEndTag).
MarkupIsGrammar ==
  Markup /\ ~past =>
    CASE result.tok = "INVALID" -> ~Viable(rest)
      [] result.tok = "PARTIAL_CHAR" -> TRUE
      [] result.tok = "PARTIAL" -> (Viable(rest) /\ ~Nullable(NoRules, rest)) \/ CdataHead
      [] OTHER -> Nullable(NoRules, rest) /\ result.next = Len(text) + 1
=============================================================================
