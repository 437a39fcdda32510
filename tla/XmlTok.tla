------------------------------- MODULE XmlTok -------------------------------
(***************************************************************************)
(* The tokenizers of src/co/expat/xmltok_impl.c for the UTF-8 encoding of  *)
(* src/co/expat/xmltok.c, where ':' is an ordinary name character.         *)
(*                                                                         *)
(* A text is a sequence of symbols.  A symbol is one byte; a word (a run   *)
(* of name characters, such as a keyword) may be one symbol too.  The      *)
(* byte ptr points to is s[i], the end of the text Len(s) + 1.  A          *)
(* tokenizer returns the token and where it ends; a negated code of the C  *)
(* function ("the token may go on in what follows") is the flag more.      *)
(***************************************************************************)
EXTENDS Naturals, Sequences, TLC

Marks ==
  "<" :> "LT" @@ ">" :> "GT" @@ "&" :> "AMP" @@ ";" :> "SEMI" @@ "#" :> "NUM"
    @@ "%" :> "PERCNT" @@ "!" :> "EXCL" @@ "?" :> "QUEST" @@ "/" :> "SOL"
    @@ "=" :> "EQUALS" @@ "'" :> "APOS" @@ "\"" :> "QUOT" @@ "[" :> "LSQB"
    @@ "]" :> "RSQB" @@ "(" :> "LPAR" @@ ")" :> "RPAR" @@ "|" :> "VERBAR"
    @@ "," :> "COMMA" @@ "+" :> "PLUS" @@ "*" :> "AST" @@ "-" :> "MINUS"
    @@ "." :> "NAME" @@ " " :> "S" @@ "\t" :> "S" @@ "\n" :> "LF" @@ "\r" :> "CR"
    @@ "$" :> "OTHER" @@ "@" :> "OTHER" @@ "^A" :> "NONXML" @@ "FE" :> "MALFORM"

Digits == "0" :> 0 @@ "1" :> 1 @@ "2" :> 2 @@ "3" :> 3 @@ "4" :> 4 @@ "5" :> 5
            @@ "6" :> 6 @@ "7" :> 7 @@ "8" :> 8 @@ "9" :> 9
HexLetters == "a" :> 10 @@ "b" :> 11 @@ "c" :> 12 @@ "d" :> 13 @@ "e" :> 14 @@ "f" :> 15
                @@ "A" :> 10 @@ "B" :> 11 @@ "C" :> 12 @@ "D" :> 13 @@ "E" :> 14
                @@ "F" :> 15

\* The bytes above 127 a text may hold.
Octets == [C2 |-> 194, C3 |-> 195, E2 |-> 226, EF |-> 239, xA9 |-> 169, xB7 |-> 183,
           x97 |-> 151, x82 |-> 130, xAC |-> 172, xBB |-> 187, xBF |-> 191]
Octet(c) == IF c \in DOMAIN Octets THEN Octets[c] ELSE 0

\* Bytes a multi-byte character takes, 1 for every other symbol.
LeadLength(c) ==
  CASE Octet(c) \in 192..223 -> 2
    [] Octet(c) \in 224..239 -> 3
    [] Octet(c) \in 240..244 -> 4
    [] OTHER -> 1

BYTE_TYPE(c) ==
  CASE c \in DOMAIN Marks -> Marks[c]
    [] c \in DOMAIN Digits -> "DIGIT"
    [] c \in DOMAIN HexLetters -> "HEX"
    [] LeadLength(c) > 1 -> "LEAD"
    [] Octet(c) \in 128..191 -> "TRAIL"
    [] OTHER -> "NMSTRT"

----------------------------------------------------------------------------
(* UTF-8 *)

Trail(b) == b \in 128..191

UTF8_INVALID2(p) == p[1] < 194 \/ ~Trail(p[2])

UTF8_INVALID3(p) ==
  \/ ~Trail(p[3])
  \/ p[1] = 239 /\ p[2] = 191 /\ p[3] > 189
  \/ IF p[1] = 224 THEN p[2] \notin 160..191
     ELSE IF p[1] = 237 THEN p[2] \notin 128..159 ELSE ~Trail(p[2])

UTF8_INVALID4(p) ==
  \/ ~Trail(p[4]) \/ ~Trail(p[3])
  \/ IF p[1] = 240 THEN p[2] \notin 144..191
     ELSE IF p[1] = 244 THEN p[2] \notin 128..143 ELSE ~Trail(p[2])

IS_INVALID_CHAR(p) ==
  CASE Len(p) = 2 -> UTF8_INVALID2(p)
    [] Len(p) = 3 -> UTF8_INVALID3(p)
    [] OTHER -> UTF8_INVALID4(p)

\* Of the characters the octets above can spell: U+00E9 starts names, U+00B7
\* goes on in a name, and the others are no name characters.
NameKind(p) ==
  CASE p = <<195, 169>> -> "NMSTRT"
    [] p = <<194, 183>> -> "NAME"
    [] OTHER -> "OTHER"

checkCharRefNumber(n) ==
  n \notin (0..8 \cup {11, 12} \cup 14..31 \cup 55296..57343 \cup {65534, 65535})

XmlUtf8Encode(c) ==
  CASE c < 128 -> <<c>>
    [] c \in 128..2047 -> <<192 + (c \div 64), 128 + (c % 64)>>
    [] c \in 2048..65535 ->
         <<224 + (c \div 4096), 128 + ((c \div 64) % 64), 128 + (c % 64)>>
    [] OTHER ->
         <<240 + (c \div 262144), 128 + ((c \div 4096) % 64), 128 + ((c \div 64) % 64),
           128 + (c % 64)>>

----------------------------------------------------------------------------
(* Classes of positions *)

OctetsAt(s, i, n) == [k \in 1..n |-> Octet(s[i + k - 1])]

Whole(s, i) == i + LeadLength(s[i]) - 1 <= Len(s)
ValidLead(s, i) == Whole(s, i) /\ ~IS_INVALID_CHAR(OctetsAt(s, i, LeadLength(s[i])))

\* A trail byte continues the character of a valid lead byte before it.
Continues(s, i) ==
  \E k \in 1..3 : i > k /\ LeadLength(s[i - k]) > k /\ ValidLead(s, i - k)

LeadClass(s, i) ==
  CASE ~Whole(s, i) -> "PARTIAL_CHAR"
    [] ~ValidLead(s, i) -> "INVALID"
    [] OTHER -> NameKind(OctetsAt(s, i, LeadLength(s[i])))

ClassOf(s, i, b) ==
  CASE b = "LEAD" -> LeadClass(s, i)
    [] b = "TRAIL" -> IF Continues(s, i) THEN "CONT" ELSE "INVALID"
    [] b \in {"NONXML", "MALFORM"} -> "INVALID"
    [] OTHER -> b

At(s, i) == IF i > Len(s) THEN "END" ELSE ClassOf(s, i, BYTE_TYPE(s[i]))
Sym(s, i) == IF i > Len(s) THEN "END" ELSE s[i]
Reads(s, i, word) == \A k \in 1..Len(word) : Sym(s, i + k - 1) = word[k]

NmStrt == {"NMSTRT", "HEX"}
NameChars == NmStrt \cup {"DIGIT", "NAME", "MINUS"}
Space == {"S", "CR", "LF"}
Bad == {"END", "INVALID", "PARTIAL_CHAR"}

\* The first position from i on outside the classes on, or in the classes stop
\* or unreadable.
RECURSIVE SkipWhile(_, _, _), SkipTo(_, _, _)
SkipWhile(s, i, on) == IF At(s, i) \in on \cup {"CONT"} THEN SkipWhile(s, i + 1, on) ELSE i
SkipTo(s, i, stop) == IF At(s, i) \in stop \cup Bad THEN i ELSE SkipTo(s, i + 1, stop)

NameEnd(s, i) == SkipWhile(s, i, NameChars)
skipS(s, i) == SkipWhile(s, i, Space)

----------------------------------------------------------------------------
(* Results *)

Token(tok, next) == [tok |-> tok, next |-> next, more |-> FALSE]
\* (mutant) what reaches the end is complete
CompleteAtEnd(s, tok) == Token(tok, Len(s) + 1)
MayGoOn(s, tok) == [tok |-> tok, next |-> Len(s) + 1, more |-> TRUE]
Short(tok) == [tok |-> tok, next |-> 0, more |-> FALSE]

\* A switch without a case for the byte: INVALID_CASES and CHECK_NAME_CASES ask
\* for the rest of a character, a plain default does not.
Reject(s, k) == IF At(s, k) = "END" THEN Short("PARTIAL") ELSE Token("INVALID", k)
Stuck(s, k) == IF At(s, k) = "PARTIAL_CHAR" THEN Short("PARTIAL_CHAR") ELSE Reject(s, k)

----------------------------------------------------------------------------
(* Markup both tokenizers know *)

\* i follows "<!-".
RECURSIVE CommentBody(_, _)
CommentBody(s, i) ==
  LET k == SkipTo(s, i, {"MINUS"})
  IN  CASE At(s, k) # "MINUS" -> Stuck(s, k)
        [] At(s, k) = "MINUS" /\ Sym(s, k + 1) = "-" ->
             IF Sym(s, k + 2) = ">" THEN Token("COMMENT", k + 3) ELSE Reject(s, k + 2)
        [] OTHER -> IF k = Len(s) THEN Short("PARTIAL") ELSE CommentBody(s, k + 1)

scanComment(s, i) ==
  IF Sym(s, i) = "-" THEN CommentBody(s, i + 1) ELSE Reject(s, i)

\* The target of a processing instruction; "xml" in capitals is reserved.
checkPiTarget(target) ==
  CASE target = <<"xml">> -> "XML_DECL"
    [] target = <<"XML">> -> "INVALID"
    [] OTHER -> "PI"

RECURSIVE PiBody(_, _, _)
PiBody(s, i, tok) ==
  LET k == SkipTo(s, i, {"QUEST"})
  IN  CASE At(s, k) # "QUEST" -> Stuck(s, k)
        [] Sym(s, k + 1) = ">" -> Token(tok, k + 2)
        [] OTHER -> IF k = Len(s) THEN Short("PARTIAL") ELSE PiBody(s, k + 1, tok)

\* i follows "<?", k the target.
PiRest(s, k, tok) ==
  CASE At(s, k) \in Space ->
         IF tok = "INVALID" THEN Token(tok, k) ELSE PiBody(s, k + 1, tok)
    [] At(s, k) = "QUEST" ->
         IF tok = "INVALID" THEN Token(tok, k)
         ELSE IF Sym(s, k + 1) = ">" THEN Token(tok, k + 2) ELSE Reject(s, k + 1)
    [] OTHER -> Stuck(s, k)

PiAfterTarget(s, i, k) == PiRest(s, k, checkPiTarget(SubSeq(s, i, k - 1)))

scanPi(s, i) ==
  IF At(s, i) \in NmStrt THEN PiAfterTarget(s, i, NameEnd(s, i)) ELSE Stuck(s, i)

\* i follows "&#": digits up to a semicolon.
DigitsEnd(s, i, on, k) ==
  IF At(s, i) \notin on THEN Reject(s, i)
  ELSE IF At(s, k) = "SEMI" THEN Token("CHAR_REF", k + 1) ELSE Reject(s, k)

scanHexCharRef(s, i) ==
  DigitsEnd(s, i, {"DIGIT", "HEX"}, SkipWhile(s, i, {"DIGIT", "HEX"}))

scanCharRef(s, i) ==
  IF Sym(s, i) = "x" THEN scanHexCharRef(s, i + 1)
  ELSE DigitsEnd(s, i, {"DIGIT"}, SkipWhile(s, i, {"DIGIT"}))

RefEnd(s, k, tok) == IF At(s, k) = "SEMI" THEN Token(tok, k + 1) ELSE Stuck(s, k)

\* i follows "&".
scanRef(s, i) ==
  CASE At(s, i) \in NmStrt -> RefEnd(s, NameEnd(s, i), "ENTITY_REF")
    [] At(s, i) = "NUM" -> scanCharRef(s, i + 1)
    [] OTHER -> Stuck(s, i)

----------------------------------------------------------------------------
(* Content *)

\* The close of a start-tag at k, ">" or "/>".
TagEnd(s, k, atts) ==
  CASE At(s, k) = "GT" -> Token("START_TAG_" \o atts, k + 1)
    [] At(s, k) = "SOL" ->
         IF Sym(s, k + 1) = ">" THEN Token("EMPTY_ELEMENT_" \o atts, k + 2)
         ELSE Reject(s, k + 1)
    [] OTHER -> Stuck(s, k)

\* An attribute: its name, white space, "=", white space, the quoted value; then
\* the tag ends, or white space and the next name follow.
RECURSIVE scanAtts(_, _), AttValue(_, _, _)
AttNext(s, k) ==
  IF At(s, k) \in NmStrt THEN scanAtts(s, k + 1) ELSE TagEnd(s, k, "WITH_ATTS")

\* (mutant) no white space between attributes
AttAtOnce(s, k) == AttNext(s, skipS(s, k))
AttAfterValue(s, k) ==
  IF At(s, k) \in Space THEN AttNext(s, skipS(s, k))
  ELSE IF At(s, k) \in {"GT", "SOL"} THEN TagEnd(s, k, "WITH_ATTS") ELSE Reject(s, k)

AttReference(s, r, open) == IF r.tok \in {"ENTITY_REF", "CHAR_REF"} THEN AttValue(s, r.next, open)
                            ELSE r

AttValueStop(s, k, open) ==
  CASE At(s, k) = open -> AttAfterValue(s, k + 1)
    [] At(s, k) = "AMP" -> AttReference(s, scanRef(s, k + 1), open)
    [] OTHER -> Stuck(s, k)

AttValue(s, i, open) == AttValueStop(s, SkipTo(s, i, {open, "AMP", "LT"}), open)

AttOpen(s, k) ==
  IF At(s, k) \in {"QUOT", "APOS"} THEN AttValue(s, k + 1, At(s, k)) ELSE Reject(s, k)

AttEquals(s, k) ==
  IF At(s, k) = "EQUALS" THEN AttOpen(s, skipS(s, k + 1)) ELSE Reject(s, k)

AttAfterName(s, k) ==
  CASE At(s, k) \in Space -> AttEquals(s, skipS(s, k))
    [] At(s, k) = "EQUALS" -> AttEquals(s, k)
    [] OTHER -> Stuck(s, k)

scanAtts(s, i) == AttAfterName(s, NameEnd(s, i))

\* i follows "</".
EndTagClose(s, k) == IF At(s, k) = "GT" THEN Token("END_TAG", k + 1) ELSE Reject(s, k)

EndTagRest(s, k) ==
  IF At(s, k) \in Space \cup {"GT"} THEN EndTagClose(s, skipS(s, k)) ELSE Stuck(s, k)

scanEndTag(s, i) ==
  IF At(s, i) \in NmStrt THEN EndTagRest(s, NameEnd(s, i)) ELSE Stuck(s, i)

\* i follows "<![": the six characters of CDATA[, two symbols here.
scanCdataSection(s, i) ==
  CASE Len(s) < i + 1 -> Short("PARTIAL")
    [] Reads(s, i, <<"CDATA", "[">>) -> Token("CDATA_SECT_OPEN", i + 2)
    [] OTHER -> Token("INVALID", i)

StartTagSpace(s, k) ==
  IF At(s, k) \in NmStrt THEN scanAtts(s, k + 1) ELSE TagEnd(s, k, "NO_ATTS")

StartTagRest(s, k) ==
  IF At(s, k) \in Space THEN StartTagSpace(s, skipS(s, k)) ELSE TagEnd(s, k, "NO_ATTS")

\* i follows "<".
scanLt(s, i) ==
  CASE At(s, i) \in NmStrt -> StartTagRest(s, NameEnd(s, i))
    [] At(s, i) = "EXCL" ->
         (CASE Sym(s, i + 1) = "-" -> scanComment(s, i + 2)
            [] Sym(s, i + 1) = "[" -> scanCdataSection(s, i + 2)
            [] OTHER -> Reject(s, i + 1))
    [] At(s, i) = "QUEST" -> scanPi(s, i + 1)
    [] At(s, i) = "SOL" -> scanEndTag(s, i + 1)
    [] OTHER -> Stuck(s, i)

\* "]]>" may not stand in content; a bracket at the end waits for what follows.
RECURSIVE ContentChars(_, _)
ContentBracket(s, k) ==
  CASE At(s, k) # "RSQB" -> Token("DATA_CHARS", k)
    [] Sym(s, k + 1) \notin {"]", "END"} -> ContentChars(s, k + 1)
    [] Sym(s, k + 1) = "]" /\ Sym(s, k + 2) = ">" -> Token("INVALID", k + 2)
    [] Sym(s, k + 1) = "]" /\ Sym(s, k + 2) # "END" -> ContentChars(s, k + 1)
    [] OTHER -> Token("DATA_CHARS", k)
ContentChars(s, i) == ContentBracket(s, SkipTo(s, i, {"AMP", "LT", "CR", "LF", "RSQB"}))

ContentRsqb(s, i) ==
  CASE Sym(s, i + 1) = "END" -> Short("TRAILING_RSQB")
    [] Sym(s, i + 1) = "]" /\ Sym(s, i + 2) = "END" -> Short("TRAILING_RSQB")
    [] Sym(s, i + 1) = "]" /\ Sym(s, i + 2) = ">" -> Token("INVALID", i + 2)
    [] OTHER -> ContentChars(s, i + 1)

\* A line end is LF, CR or the pair CR LF.
AfterCr(s, i) == Token("DATA_NEWLINE", IF Sym(s, i) = "\n" THEN i + 1 ELSE i)

contentTok(s, i) ==
  CASE At(s, i) = "END" -> Short("NONE")
    [] At(s, i) = "LT" -> scanLt(s, i + 1)
    [] At(s, i) = "AMP" -> scanRef(s, i + 1)
    [] At(s, i) = "CR" -> IF i = Len(s) THEN Short("TRAILING_CR") ELSE AfterCr(s, i + 1)
    [] At(s, i) = "LF" -> Token("DATA_NEWLINE", i + 1)
    [] At(s, i) = "RSQB" -> ContentRsqb(s, i)
    [] At(s, i) \in Bad -> Stuck(s, i)
    [] OTHER -> ContentChars(s, i + 1)

CdataChars(s, i) == Token("DATA_CHARS", SkipTo(s, i, {"CR", "LF", "RSQB"}))

cdataSectionTok(s, i) ==
  CASE At(s, i) = "END" -> Short("NONE")
    [] At(s, i) \in {"CR", "RSQB"} /\ i = Len(s) -> Short("PARTIAL")
    [] At(s, i) = "CR" -> AfterCr(s, i + 1)
    [] At(s, i) = "LF" -> Token("DATA_NEWLINE", i + 1)
    [] At(s, i) = "RSQB" /\ Sym(s, i + 1) = "]" ->
         (CASE i + 1 = Len(s) -> Short("PARTIAL")
            [] Sym(s, i + 2) = ">" -> Token("CDATA_SECT_CLOSE", i + 3)
            [] OTHER -> CdataChars(s, i + 1))
    [] At(s, i) \in Bad -> Stuck(s, i)
    [] OTHER -> CdataChars(s, i + 1)

----------------------------------------------------------------------------
(* Prolog *)

\* i follows "<!": a comment, a conditional section, or the name of a declaration.
DeclEnd(s, k) ==
  CASE At(s, k) = "PERCNT" ->
         (CASE k = Len(s) -> Short("PARTIAL")
            [] BYTE_TYPE(s[k + 1]) \in Space \cup {"PERCNT"} -> Token("INVALID", k)
            [] OTHER -> Token("DECL_OPEN", k))
    [] At(s, k) \in Space -> Token("DECL_OPEN", k)
    [] OTHER -> Reject(s, k)

RECURSIVE DeclName(_, _)
DeclName(s, i) ==
  IF i <= Len(s) /\ BYTE_TYPE(s[i]) \in NmStrt THEN DeclName(s, i + 1) ELSE DeclEnd(s, i)

scanDecl(s, i) ==
  CASE Sym(s, i) = "-" -> scanComment(s, i + 1)
    [] Sym(s, i) = "[" -> Token("COND_SECT_OPEN", i + 1)
    [] i <= Len(s) /\ BYTE_TYPE(s[i]) \in NmStrt -> DeclName(s, i + 1)
    [] OTHER -> Reject(s, i)

\* i follows "%".
scanPercent(s, i) ==
  CASE At(s, i) \in NmStrt -> RefEnd(s, NameEnd(s, i), "PARAM_ENTITY_REF")
    [] At(s, i) \in Space \cup {"PERCNT"} -> Token("PERCENT", i)
    [] OTHER -> Stuck(s, i)

PoundEnd(s, k) ==
  CASE At(s, k) = "END" -> MayGoOn(s, "POUND_NAME")
    [] At(s, k) \in Space \cup {"RPAR", "GT", "PERCNT", "VERBAR"} -> Token("POUND_NAME", k)
    [] OTHER -> Stuck(s, k)

scanPoundName(s, i) ==
  IF At(s, i) \in NmStrt THEN PoundEnd(s, NameEnd(s, i)) ELSE Stuck(s, i)

\* i follows the opening quote; what follows the closing one is looked at too.
LitEnd(s, k, open) ==
  CASE At(s, k) # open -> Stuck(s, k)
    [] k = Len(s) -> MayGoOn(s, "LITERAL")
    [] BYTE_TYPE(s[k + 1]) \in Space \cup {"GT", "PERCNT", "LSQB"} -> Token("LITERAL", k + 1)
    [] OTHER -> Token("INVALID", k + 1)

scanLit(s, i, open) == LitEnd(s, SkipTo(s, i, {open}), open)

\* "<" in the prolog; any start of a name, valid or not, starts the instance.
PrologLt(s, i) ==
  CASE Sym(s, i) = "!" -> scanDecl(s, i + 1)
    [] Sym(s, i) = "?" -> scanPi(s, i + 1)
    [] i <= Len(s) /\ BYTE_TYPE(s[i]) \in NmStrt \cup {"LEAD"} -> Token("INSTANCE_START", i - 1)
    [] OTHER -> Reject(s, i)

\* White space, but for a CR at the end that may be half of a pair.
SpaceEnd(s, k) ==
  Token("PROLOG_S", IF k = Len(s) + 1 /\ s[Len(s)] = "\r" THEN Len(s) ELSE k)

PrologSpace(s, i) ==
  IF i = Len(s) /\ s[i] = "\r" THEN MayGoOn(s, "PROLOG_S") ELSE SpaceEnd(s, skipS(s, i))

PrologRsqb(s, i) ==
  CASE i = Len(s) -> MayGoOn(s, "CLOSE_BRACKET")
    [] s[i + 1] = "]" /\ i + 1 = Len(s) -> Short("PARTIAL")
    [] s[i + 1] = "]" /\ s[i + 2] = ">" -> Token("COND_SECT_CLOSE", i + 3)
    [] OTHER -> Token("CLOSE_BRACKET", i + 1)

PrologRpar(s, i) ==
  CASE i = Len(s) -> MayGoOn(s, "CLOSE_PAREN")
    [] s[i + 1] = "*" -> Token("CLOSE_PAREN_ASTERISK", i + 2)
    [] s[i + 1] = "?" -> Token("CLOSE_PAREN_QUESTION", i + 2)
    [] s[i + 1] = "+" -> Token("CLOSE_PAREN_PLUS", i + 2)
    [] BYTE_TYPE(s[i + 1]) \in Space \cup {"GT", "COMMA", "VERBAR", "RPAR"} ->
         Token("CLOSE_PAREN", i + 1)
    [] OTHER -> Token("INVALID", i + 1)

\* A name or a name token ends at k, maybe with the quantifier of a child.
WordEnd(s, k, tok) ==
  CASE At(s, k) = "END" -> MayGoOn(s, tok)
    [] At(s, k) \in Space \cup {"GT", "RPAR", "COMMA", "VERBAR", "LSQB", "PERCNT"} -> Token(tok, k)
    [] tok = "NAME" /\ At(s, k) = "PLUS" -> Token("NAME_PLUS", k + 1)
    [] tok = "NAME" /\ At(s, k) = "AST" -> Token("NAME_ASTERISK", k + 1)
    [] tok = "NAME" /\ At(s, k) = "QUEST" -> Token("NAME_QUESTION", k + 1)
    [] OTHER -> Stuck(s, k)

Single == [COMMA |-> "COMMA", LSQB |-> "OPEN_BRACKET", LPAR |-> "OPEN_PAREN",
           VERBAR |-> "OR", GT |-> "DECL_CLOSE"]

prologTok(s, i) ==
  CASE At(s, i) = "END" -> Short("NONE")
    [] At(s, i) \in {"QUOT", "APOS"} -> scanLit(s, i + 1, At(s, i))
    [] At(s, i) = "LT" -> PrologLt(s, i + 1)
    [] At(s, i) \in Space -> PrologSpace(s, i)
    [] At(s, i) = "PERCNT" -> scanPercent(s, i + 1)
    [] At(s, i) \in DOMAIN Single -> Token(Single[At(s, i)], i + 1)
    [] At(s, i) = "RSQB" -> PrologRsqb(s, i)
    [] At(s, i) = "RPAR" -> PrologRpar(s, i)
    [] At(s, i) = "NUM" -> scanPoundName(s, i + 1)
    [] At(s, i) \in NmStrt -> WordEnd(s, NameEnd(s, i), "NAME")
    [] At(s, i) \in NameChars \ NmStrt -> WordEnd(s, NameEnd(s, i), "NMTOKEN")
    [] OTHER -> Stuck(s, i)

\* An IGNORE section, with the sections nested in it: "<![" and "]]>".
Twin == "<" :> "!" @@ "]" :> "]"
RECURSIVE IgnoreSection(_, _, _)
IgnoreMark(s, k, level) ==
  CASE At(s, k) \notin {"LT", "RSQB"} -> Stuck(s, k)
    [] k = Len(s) -> Short("PARTIAL")
    [] Sym(s, k + 1) # Twin[s[k]] -> IgnoreSection(s, k + 1, level)
    [] k + 1 = Len(s) -> Short("PARTIAL")
    [] Reads(s, k, <<"<", "!", "[">>) -> IgnoreSection(s, k + 3, level + 1)
    [] Reads(s, k, <<"]", "]", ">">>) ->
         IF level = 0 THEN Token("IGNORE_SECT", k + 3) ELSE IgnoreSection(s, k + 3, level - 1)
    [] OTHER -> IgnoreSection(s, k + 2, level)
IgnoreSection(s, i, level) == IgnoreMark(s, SkipTo(s, i, {"LT", "RSQB"}), level)

ignoreSectionTok(s, i) == IgnoreSection(s, i, 0)
----------------------------------------------------------------------------
(* Literals *)

\* A run of characters, or the one character at i that needs treatment.
ValueTok(s, i, stop) ==
  CASE At(s, i) = "END" -> Short("NONE")
    [] At(s, i) = "AMP" -> scanRef(s, i + 1)
    [] At(s, i) = "LF" -> Token("DATA_NEWLINE", i + 1)
    [] At(s, i) = "CR" -> IF i = Len(s) THEN Short("TRAILING_CR") ELSE AfterCr(s, i + 1)
    [] OTHER -> Token("DATA_CHARS", SkipTo(s, i + 1, stop \cup {"AMP", "LF", "CR"}))

\* "<" ends the value: it can only come from an entity.
LtInValue(s, r) ==
  IF r.tok = "DATA_CHARS" /\ Sym(s, r.next) = "<" THEN Token("INVALID", r.next) ELSE r

attributeValueTok(s, i) ==
  CASE At(s, i) = "S" -> Token("ATTRIBUTE_VALUE_S", i + 1)
    [] At(s, i) = "LT" -> Token("INVALID", i)
    [] OTHER -> LtInValue(s, ValueTok(s, i, {"S", "LT"}))

NoPercent(r) == IF r.tok = "PERCENT" THEN Token("INVALID", r.next) ELSE r

entityValueTok(s, i) ==
  IF At(s, i) = "PERCNT" THEN NoPercent(scanPercent(s, i + 1)) ELSE ValueTok(s, i, {"PERCNT"})

PublicIdClasses ==
  NameChars \cup {"APOS", "LPAR", "RPAR", "PLUS", "COMMA", "SOL", "EQUALS", "QUEST", "CR",
                  "LF", "S", "SEMI", "EXCL", "AST", "PERCNT", "NUM"}

\* The literal at from..to, quotes included.
isPublicId(s, from, to) ==
  \A k \in (from + 1)..(to - 1) :
    s[k] # "\t" /\ (BYTE_TYPE(s[k]) \in PublicIdClasses \/ s[k] \in {"$", "@"})

----------------------------------------------------------------------------
(* Attributes of a tag, character references, names *)

\* A value needs no second pass: no reference, no line end, no tab, no space at
\* either end or next to another.
Normalized(v) ==
  \A k \in 1..Len(v) :
    /\ v[k] \notin {"&", "\n", "\r", "\t"}
    /\ v[k] = " " => k > 1 /\ k < Len(v) /\ v[k + 1] # " "

\* The only element: The({f(x) : x \in {e}}) is f(e) where TLC evaluates e once.
The(S) == CHOOSE x \in S : TRUE

\* i is what follows the name of a tag, or a value in it.
RECURSIVE AttsFrom(_, _), AttsOf(_, _)
ValueAt(s, q) == SubSeq(s, q + 1, SkipTo(s, q + 1, {At(s, q)}) - 1)
OneAtt(s, from, to, q, v) ==
  <<[name |-> SubSeq(s, from, to - 1), value |-> v, normalized |-> Normalized(v)]>>
    \o AttsFrom(s, q + Len(v) + 2)
AttAt(s, i, q) == The({OneAtt(s, i, NameEnd(s, i), q, v) : v \in {ValueAt(s, q)}})
AttsOf(s, i) ==
  IF At(s, i) \in {"GT", "SOL"} THEN <<>>
  ELSE The({AttAt(s, i, q) : q \in {SkipTo(s, i, {"QUOT", "APOS"})}})
AttsFrom(s, i) == The({AttsOf(s, k) : k \in {skipS(s, i)}})

\* i is the "<" of the tag.
getAtts(s, i) == AttsFrom(s, NameEnd(s, i + 1))

RECURSIVE Number(_, _, _)
Number(s, base, n) ==
  IF s = <<>> \/ n >= 1114112 THEN n ELSE Number(Tail(s), base, n * base + (Digits @@ HexLetters)[Head(s)])

\* The characters between "&#" and ";", or "&#x" and ";"; a number that is no
\* character, -1 in the code, is one past the last character.
ValidNumber(n) == IF n < 1114112 /\ checkCharRefNumber(n) THEN n ELSE 1114112
charRefNumber(ref) ==
  ValidNumber(IF ref[1] = "x" THEN Number(Tail(ref), 16, 0) ELSE Number(ref, 10, 0))

Predefined == <<"lt">> :> "<" @@ <<"gt">> :> ">" @@ <<"amp">> :> "&" @@ <<"quot">> :> "\""
                @@ <<"apos">> :> "'"

nameMatchesAscii(name, keyword) == name = <<keyword>>
nameLength(s, i) == NameEnd(s, i) - i

----------------------------------------------------------------------------
(* The first bytes of the input decide the encoding. *)

\* A byte that may begin a byte order mark, or UTF-16, waits for a second one.
initScan(s, i) ==
  CASE i > Len(s) -> Short("NONE")
    [] i = Len(s) /\ s[i] \in {"<", "EF", "FE"} -> Short("PARTIAL")
    [] Reads(s, i, <<"EF", "xBB">>) /\ i + 1 = Len(s) -> Short("PARTIAL")
    [] Reads(s, i, <<"EF", "xBB", "xBF">>) -> Token("BOM", i + 3)
    [] OTHER -> prologTok(s, i)
=============================================================================
