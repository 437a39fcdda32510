------------------------------- MODULE XmlDtd -------------------------------
(***************************************************************************)
(* The declarations of a document: doProlog of src/co/expat/xmlparse.c     *)
(* after it has a token, with the DTD it fills and the values it stores.   *)
(* The configuration is the one of co_xml.c and outline.c: handlers for    *)
(* elements and character data only, no parent parser, and parameter       *)
(* entities are never read.                                                *)
(*                                                                         *)
(* A pointer that may be NULL is a sequence of at most one element.  A     *)
(* name or a text is a sequence of symbols as in XmlTok.                   *)
(***************************************************************************)
EXTENDS XmlTok, XmlRole

CONSTANTS InitGroupSize   \* levels of a content model the connectors start with
ASSUME InitGroupSizeAssumption == InitGroupSize \in Nat \ {0, 1}

NULL == <<>>
Ptr(x) == <<x>>

Upto(s, i) == SubSeq(s, 1, i - 1)
From(s, i) == SubSeq(s, i, Len(s))
Inside(text) == SubSeq(text, 2, Len(text) - 1)   \* without its quotes or its & and ;

NewEntity == [textPtr |-> NULL, systemId |-> NULL, publicId |-> NULL, notation |-> NULL]
NewElement == [defaultAtts |-> <<>>, idAtt |-> NULL]

\* dtdCreate, and the fields of the parser that a declaration uses (parserInit).
DtdInit ==
  [generalEntities |-> <<>>, paramEntities |-> <<>>, elementTypes |-> <<>>,
   maybeTokenized |-> {}, keepProcessing |-> TRUE, standalone |-> FALSE,
   hasParamEntityRefs |-> FALSE, declEntity |-> NULL, declElementType |-> NULL,
   declAttributeId |-> NULL, declAttributeIsCdata |-> FALSE, declAttributeIsId |-> FALSE,
   doctypeSysid |-> FALSE, groupConnector |-> <<>>]

Ok(d) == [d |-> d, error |-> "NONE"]
Fail(d, error) == [d |-> d, error |-> error]

----------------------------------------------------------------------------
(* The XML declaration: parsePseudoAttribute and doParseXmlDecl of          *)
(* xmltok.c, and what processXmlDecl makes of it for the document entity.   *)
(* A declaration is the sequence of symbols between "<?xml" and "?>".       *)

\* Words a value may name: encodings by the bytes their smallest character takes.
Encodings == [utf8 |-> 1, ascii |-> 1, utf16 |-> 2]

ValueClasses == {"NMSTRT", "HEX", "DIGIT", "NAME", "MINUS"}

\* The name ends at "=" or at white space before one.
NameStop(s, i) == SkipTo(s, i, {"EQUALS"} \cup Space)

Missing(k) == [ok |-> TRUE, found |-> FALSE, name |-> <<>>, value |-> <<>>, next |-> k]
Wrong(k) == [ok |-> FALSE, found |-> FALSE, name |-> <<>>, value |-> <<>>, next |-> k]

\* The value opened by the quote at k.
PseudoValue(s, name, k, e) ==
  IF At(s, e) # At(s, k) THEN Wrong(e)
  ELSE [ok |-> TRUE, found |-> TRUE, name |-> name, value |-> SubSeq(s, k + 1, e - 1),
        next |-> e + 1]

PseudoQuote(s, name, k) ==
  IF At(s, k) \in {"QUOT", "APOS"}
  THEN PseudoValue(s, name, k, SkipWhile(s, k + 1, ValueClasses))
  ELSE Wrong(k)

PseudoEquals(s, i, stop, k) ==
  IF At(s, k) = "EQUALS" /\ stop > i
  THEN PseudoQuote(s, SubSeq(s, i, stop - 1), skipS(s, k + 1))
  ELSE Wrong(k)

PseudoName(s, i, stop) ==
  IF i > Len(s) THEN Missing(i) ELSE PseudoEquals(s, i, stop, skipS(s, stop))

\* Only white space, or white space and name = value.
parsePseudoAttribute(s, i) ==
  CASE i > Len(s) -> Missing(i)
    [] At(s, i) \notin Space -> Wrong(i)
    [] OTHER -> PseudoName(s, skipS(s, i), NameStop(s, skipS(s, i)))

BadDecl == [ok |-> FALSE, encoding |-> <<>>, standalone |-> FALSE]
Decl(encoding, standalone) == [ok |-> TRUE, encoding |-> encoding, standalone |-> standalone]

\* standalone is "yes" or "no", and nothing but white space follows.
StandaloneDecl(s, p, encoding) ==
  IF p.name = <<"standalone">> /\ p.value \in {<<"yes">>, <<"no">>} /\ skipS(s, p.next) > Len(s)
  THEN Decl(encoding, p.value = <<"yes">>)
  ELSE BadDecl

\* An encoding name starts with a letter.
AfterEncoding(s, q, encoding) ==
  CASE ~q.ok -> BadDecl
    [] ~q.found -> Decl(encoding, FALSE)
    [] OTHER -> StandaloneDecl(s, q, encoding)

EncodingDecl(s, p) ==
  IF p.name # <<"encoding">> THEN StandaloneDecl(s, p, <<>>)
  ELSE IF p.value = <<>> \/ At(p.value, 1) \notin NmStrt THEN BadDecl
  ELSE AfterEncoding(s, parsePseudoAttribute(s, p.next), p.value)

AfterVersion(s, q) ==
  CASE ~q.ok -> BadDecl
    [] ~q.found -> Decl(<<>>, FALSE)
    [] OTHER -> EncodingDecl(s, q)

VersionDecl(s, p) ==
  IF p.ok /\ p.found /\ p.name = <<"version">> THEN AfterVersion(s, parsePseudoAttribute(s, p.next))
  ELSE BadDecl

doParseXmlDecl(s) == VersionDecl(s, parsePseudoAttribute(s, 1))

\* The text is read as UTF-8: an encoding of wider characters contradicts it,
\* one that is not known is refused as there is no handler to ask.
XmlDeclError(decl) ==
  CASE ~decl.ok -> "XML_DECL"
    [] decl.encoding = <<>> -> "NONE"
    [] Len(decl.encoding) # 1 \/ decl.encoding[1] \notin DOMAIN Encodings -> "UNKNOWN_ENCODING"
    [] Encodings[decl.encoding[1]] # 1 -> "INCORRECT_ENCODING"
    [] OTHER -> "NONE"

----------------------------------------------------------------------------
(* Values *)

\* The bytes of a character as symbols.  A CR that a reference spells is no line
\* end where it is read again: iasciitab.h has BT_S for it, here the symbol "^M".
Symbols == 9 :> "\t" @@ 10 :> "\n" @@ 13 :> "^M" @@ 32 :> " " @@ 38 :> "&" @@ 39 :> "'"
             @@ 49 :> "1" @@ 60 :> "<" @@ 62 :> ">" @@ 97 :> "a" @@ 98 :> "b" @@ 99 :> "c"
             @@ 169 :> "xA9" @@ 194 :> "C2" @@ 195 :> "C3" @@ 226 :> "E2" @@ 130 :> "x82"
             @@ 172 :> "xAC"
Encode(n) == [k \in 1..Len(XmlUtf8Encode(n)) |-> Symbols[XmlUtf8Encode(n)[k]]]

\* The number of the reference ref, "&#" and ";" included.
RefNumber(ref) == charRefNumber(SubSeq(ref, 3, Len(ref) - 1))
BadNumber(n) == n = 1114112

\* A declaration is asked for when it must have been read.
CheckDeclared(d) == ~d.hasParamEntityRefs \/ d.standalone

\* A value being put together: the pool, and the texts still to be read, the
\* innermost open entity first and the literal last.
Value(text) == [pool |-> <<>>, open |-> <<[name |-> NULL, rest |-> text]>>, error |-> "NONE"]

Take(v, chars, next) ==
  [v EXCEPT !.pool = @ \o chars, !.open[1].rest = From(@, next)]
Refuse(v, error) == [v EXCEPT !.error = error]
Ended(v) == v.error # "NONE" \/ (Len(v.open) = 1 /\ v.open[1].rest = <<>>)

\* Where spaces are collapsed, one more adds nothing.
EndsInSpace(pool) == pool = <<>> \/ pool[Len(pool)] = " "
TakeSpace(v, isCdata, next) ==
  IF ~isCdata /\ EndsInSpace(v.pool) THEN Take(v, <<>>, next) ELSE Take(v, <<" ">>, next)

TakeNumber(v, isCdata, n, next) ==
  CASE BadNumber(n) -> Refuse(v, "BAD_CHAR_REF")
    [] n = 32 -> TakeSpace(v, isCdata, next)
    [] OTHER -> Take(v, Encode(n), next)

\* processEntity: the entity is read before what follows the reference.
OpenIn(v, name, text) ==
  [v EXCEPT !.open = <<[name |-> Ptr(name), rest |-> text]>> \o @]

EntityInValue(d, v, name, isOpen, next) ==
  LET e == d.generalEntities[name] IN
  CASE name \in DOMAIN Predefined -> Take(v, <<Predefined[name]>>, next)
    [] name \notin DOMAIN d.generalEntities ->
         IF CheckDeclared(d) THEN Refuse(v, "UNDEFINED_ENTITY") ELSE Take(v, <<>>, next)
    [] isOpen -> Refuse(v, "RECURSIVE_ENTITY_REF")
    [] e.notation # NULL -> Refuse(v, "BINARY_ENTITY_REF")
    [] e.textPtr = NULL -> Refuse(v, "ATTRIBUTE_EXTERNAL_ENTITY_REF")
    [] OTHER -> OpenIn(Take(v, <<>>, next), name, e.textPtr[1])

\* One token of the innermost text; an entity read to its end is closed.
appendAttributeValue(d, isCdata, opened, v, rest, t) ==
  CASE t.tok = "NONE" -> [v EXCEPT !.open = Tail(@)]
    [] t.tok \in {"INVALID", "PARTIAL"} -> Refuse(v, "INVALID_TOKEN")
    [] t.tok = "CHAR_REF" -> TakeNumber(v, isCdata, RefNumber(Upto(rest, t.next)), t.next)
    [] t.tok = "DATA_CHARS" -> Take(v, Upto(rest, t.next), t.next)
    [] t.tok = "TRAILING_CR" -> TakeSpace(v, isCdata, 2)
    [] t.tok \in {"ATTRIBUTE_VALUE_S", "DATA_NEWLINE"} -> TakeSpace(v, isCdata, t.next)
    [] t.tok = "ENTITY_REF" ->
         LET name == Inside(Upto(rest, t.next))
         IN  EntityInValue(d, v, name,
                           name \in opened \/ \E k \in 1..Len(v.open) : v.open[k].name = Ptr(name),
                           t.next)
    [] OTHER -> Refuse(v, "UNEXPECTED_STATE")

RECURSIVE AppendAll(_, _, _, _)
AppendAll(d, isCdata, opened, v) ==
  IF Ended(v) THEN v
  ELSE The({AppendAll(d, isCdata, opened, next) :
              next \in {appendAttributeValue(d, isCdata, opened, v, v.open[1].rest,
                                             attributeValueTok(v.open[1].rest, 1))}})

ChopSpace(v, isCdata) ==
  IF ~isCdata /\ v.pool # <<>> /\ EndsInSpace(v.pool)
  THEN [v EXCEPT !.pool = SubSeq(@, 1, Len(@) - 1)] ELSE v

\* opened: the general entities being read around the value.
storeAttributeValue(d, isCdata, text, opened) ==
  ChopSpace(AppendAll(d, isCdata, opened, Value(text)), isCdata)

\* An entity value keeps its general references and replaces its character
\* references; a parameter reference is not allowed in the internal subset.
EntityToken(v, rest, t) ==
  CASE t.tok = "PARAM_ENTITY_REF" -> Refuse(v, "PARAM_ENTITY_REF")
    [] t.tok \in {"ENTITY_REF", "DATA_CHARS"} -> Take(v, Upto(rest, t.next), t.next)
    [] t.tok = "TRAILING_CR" -> Take(v, <<"\n">>, 2)
    [] t.tok = "DATA_NEWLINE" -> Take(v, <<"\n">>, t.next)
    [] t.tok = "CHAR_REF" -> TakeNumber(v, TRUE, RefNumber(Upto(rest, t.next)), t.next)
    [] t.tok \in {"INVALID", "PARTIAL"} -> Refuse(v, "INVALID_TOKEN")
    [] OTHER -> Refuse(v, "UNEXPECTED_STATE")

RECURSIVE StoreAll(_)
StoreAll(v) ==
  IF Ended(v) THEN v
  ELSE The({StoreAll(next) :
              next \in {EntityToken(v, v.open[1].rest, entityValueTok(v.open[1].rest, 1))}})

storeEntityValue(text) == StoreAll(Value(text))

----------------------------------------------------------------------------
(* Document type *)

Declare(f, x, new) == IF x \in DOMAIN f THEN f ELSE f @@ (x :> new)
ExternalSubset == <<"#">>

\* The entity being declared, unless it is one to forget.
SetDeclared(d, field, x) ==
  IF ~d.keepProcessing \/ d.declEntity = NULL THEN d
  ELSE IF d.declEntity[1].general
       THEN [d EXCEPT !.generalEntities[d.declEntity[1].name][field] = Ptr(x)]
       ELSE [d EXCEPT !.paramEntities[d.declEntity[1].name][field] = Ptr(x)]

DeclareExternalSubset(d) ==
  [d EXCEPT !.paramEntities = Declare(@, ExternalSubset, NewEntity),
            !.declEntity = Ptr([general |-> FALSE, name |-> ExternalSubset])]

PublicId(d, text) ==
  IF isPublicId(text, 1, Len(text)) THEN Ok(SetDeclared(d, "publicId", Inside(text)))
  ELSE Fail(d, "PUBLICID")

DoctypeRole(d, role, text) ==
  CASE role = "DOCTYPE_NAME" -> Ok([d EXCEPT !.doctypeSysid = FALSE])
    [] role = "DOCTYPE_PUBLIC_ID" ->
         PublicId([DeclareExternalSubset(d) EXCEPT !.hasParamEntityRefs = TRUE], text)
    [] role = "DOCTYPE_SYSTEM_ID" ->
         LET e == IF d.declEntity = NULL THEN DeclareExternalSubset(d) ELSE d
         IN  Ok(SetDeclared([e EXCEPT !.hasParamEntityRefs = TRUE, !.doctypeSysid = TRUE],
                            "systemId", Inside(text)))
    [] role = "DOCTYPE_CLOSE" ->
         Ok([d EXCEPT !.hasParamEntityRefs = @ \/ d.doctypeSysid])

----------------------------------------------------------------------------
(* Entities and notations *)

Forget(d) == [d EXCEPT !.declEntity = NULL]

\* (mutant) the last declaration counts
LastGeneralName(d, name) ==
  IF name \in DOMAIN Predefined \/ ~d.keepProcessing THEN Forget(d)
  ELSE [d EXCEPT !.generalEntities = Declare(@, name, NewEntity),
                 !.declEntity = Ptr([general |-> TRUE, name |-> name])]

\* The first declaration of a name is the one that counts.
GeneralName(d, name) ==
  IF name \in DOMAIN Predefined \/ ~d.keepProcessing \/ name \in DOMAIN d.generalEntities
  THEN Forget(d)
  ELSE [d EXCEPT !.generalEntities = Declare(@, name, NewEntity),
                 !.declEntity = Ptr([general |-> TRUE, name |-> name])]

ParamName(d, name) ==
  IF ~d.keepProcessing \/ name \in DOMAIN d.paramEntities THEN Forget(d)
  ELSE [d EXCEPT !.paramEntities = Declare(@, name, NewEntity),
                 !.declEntity = Ptr([general |-> FALSE, name |-> name])]

EntityValue(d, v) == [d |-> SetDeclared(d, "textPtr", v.pool), error |-> v.error]

EntityRole(d, role, text) ==
  CASE role = "GENERAL_ENTITY_NAME" -> Ok(GeneralName(d, text))
    [] role = "PARAM_ENTITY_NAME" -> Ok(ParamName(d, text))
    [] role = "ENTITY_VALUE" ->
         IF d.keepProcessing THEN EntityValue(d, storeEntityValue(Inside(text))) ELSE Ok(d)
    [] role = "ENTITY_PUBLIC_ID" -> PublicId(d, text)
    [] role = "ENTITY_SYSTEM_ID" -> Ok(SetDeclared(d, "systemId", Inside(text)))
    [] role = "ENTITY_NOTATION_NAME" -> Ok(SetDeclared(d, "notation", text))

\* A reference to a parameter entity: what it would declare is not read, and what
\* follows is not used either, unless the document stands alone.
ParamEntityRef(d) == [d EXCEPT !.hasParamEntityRefs = TRUE, !.keepProcessing = d.standalone]

NotationPublicId(d, text) ==
  IF isPublicId(text, 1, Len(text)) THEN Ok(d) ELSE Fail(d, "PUBLICID")

----------------------------------------------------------------------------
(* Attributes *)

\* (mutant) only an ID is looked for among the attributes declared before
RedefineAttribute(d, isId, value) ==
  LET type == d.declElementType[1]
      id == d.declAttributeId[1]
      known == \E k \in 1..Len(d.elementTypes[type].defaultAtts) :
                 d.elementTypes[type].defaultAtts[k].id = id
      att == [id |-> id, isCdata |-> d.declAttributeIsCdata, value |-> value]
  IN  IF isId /\ known THEN d
      ELSE [d EXCEPT !.elementTypes[type].defaultAtts = Append(@, att),
                     !.elementTypes[type].idAtt = IF isId /\ @ = NULL THEN Ptr(id) ELSE @,
                     !.maybeTokenized = IF d.declAttributeIsCdata THEN @ ELSE @ \cup {id}]

\* A default or an ID is taken for the first declaration of the attribute only.
defineAttribute(d, isId, value) ==
  LET type == d.declElementType[1]
      id == d.declAttributeId[1]
      known == \E k \in 1..Len(d.elementTypes[type].defaultAtts) :
                 d.elementTypes[type].defaultAtts[k].id = id
      att == [id |-> id, isCdata |-> d.declAttributeIsCdata, value |-> value]
  IN  IF (value # NULL \/ isId) /\ known THEN d
      ELSE [d EXCEPT !.elementTypes[type].defaultAtts = Append(@, att),
                     !.elementTypes[type].idAtt = IF isId /\ @ = NULL THEN Ptr(id) ELSE @,
                     !.maybeTokenized = IF d.declAttributeIsCdata THEN @ ELSE @ \cup {id}]

\* An ID may not have a default, so such an attribute is not taken for one.
DefaultValue(d, v) ==
  IF v.error # "NONE" THEN Fail(d, v.error) ELSE Ok(defineAttribute(d, FALSE, Ptr(v.pool)))

AttlistRole(d, role, text) ==
  CASE role = "ATTLIST_ELEMENT_NAME" ->
         Ok([d EXCEPT !.elementTypes = Declare(@, text, NewElement), !.declElementType = Ptr(text)])
    [] role = "ATTRIBUTE_NAME" ->
         Ok([d EXCEPT !.declAttributeId = Ptr(text), !.declAttributeIsCdata = FALSE,
                      !.declAttributeIsId = FALSE])
    [] role = "ATTRIBUTE_TYPE_CDATA" -> Ok([d EXCEPT !.declAttributeIsCdata = TRUE])
    [] role = "ATTRIBUTE_TYPE_ID" -> Ok([d EXCEPT !.declAttributeIsId = TRUE])
    [] role \in {"IMPLIED_ATTRIBUTE_VALUE", "REQUIRED_ATTRIBUTE_VALUE"} ->
         Ok(IF d.keepProcessing THEN defineAttribute(d, d.declAttributeIsId, NULL) ELSE d)
    [] role \in {"DEFAULT_ATTRIBUTE_VALUE", "FIXED_ATTRIBUTE_VALUE"} ->
         IF d.keepProcessing
         THEN DefaultValue(d, storeAttributeValue(d, d.declAttributeIsCdata, Inside(text), {}))
         ELSE Ok(d)

----------------------------------------------------------------------------
(* Content models *)

NoConnector == "0"   \* the byte 0

\* The connectors grow to twice their size when a level is past their end; level
\* n is the element n + 1.
Grown(connectors, level) ==
  CASE connectors = <<>> -> [k \in 1..InitGroupSize |-> NoConnector]
    [] level >= Len(connectors) ->
         [k \in 1..(2 * Len(connectors)) |-> IF k <= Len(connectors) THEN connectors[k] ELSE NoConnector]
    [] OTHER -> connectors

\* (mutant) the connectors of a group are not compared
ConnectAny(d, level, connector) == Ok([d EXCEPT !.groupConnector[level + 1] = connector])

\* One group holds a sequence or a choice, never both.
Connect(d, level, connector) ==
  IF d.groupConnector[level + 1] \notin {NoConnector, connector} THEN Fail(d, "SYNTAX")
  ELSE Ok([d EXCEPT !.groupConnector[level + 1] = connector])

GroupRole(d, level, role) ==
  CASE role = "GROUP_OPEN" ->
         Ok([d EXCEPT !.groupConnector = [Grown(@, level) EXCEPT ![level + 1] = NoConnector]])
    [] role = "GROUP_SEQUENCE" -> Connect(d, level, ",")
    [] role = "GROUP_CHOICE" -> Connect(d, level, "|")

----------------------------------------------------------------------------
(* A token of the prolog *)

XmlDeclRole(d, decl) ==
  IF decl.ok THEN [d |-> [d EXCEPT !.standalone = decl.standalone], error |-> XmlDeclError(decl)]
  ELSE Fail(d, "XML_DECL")

RoleError(tok) ==
  CASE tok = "PARAM_ENTITY_REF" -> "PARAM_ENTITY_REF"
    [] tok = "XML_DECL" -> "MISPLACED_XML_PI"
    [] OTHER -> "SYNTAX"

DoctypeRoles == {"DOCTYPE_NAME", "DOCTYPE_PUBLIC_ID", "DOCTYPE_SYSTEM_ID", "DOCTYPE_CLOSE"}
EntityRoles == {"GENERAL_ENTITY_NAME", "PARAM_ENTITY_NAME", "ENTITY_VALUE", "ENTITY_PUBLIC_ID",
                "ENTITY_SYSTEM_ID", "ENTITY_NOTATION_NAME"}
AttlistRoles == {"ATTLIST_ELEMENT_NAME", "ATTRIBUTE_NAME", "ATTRIBUTE_TYPE_CDATA",
                 "ATTRIBUTE_TYPE_ID", "IMPLIED_ATTRIBUTE_VALUE", "REQUIRED_ATTRIBUTE_VALUE",
                 "DEFAULT_ATTRIBUTE_VALUE", "FIXED_ATTRIBUTE_VALUE"}
GroupRoles == {"GROUP_OPEN", "GROUP_SEQUENCE", "GROUP_CHOICE"}

\* What a role does; the others have no effect without their handlers.
RoleEffect(d, level, role, tok, text) ==
  CASE role = "XML_DECL" -> XmlDeclRole(d, doParseXmlDecl(SubSeq(text, 4, Len(text) - 2)))
    [] role \in DoctypeRoles -> DoctypeRole(d, role, text)
    [] role \in EntityRoles -> EntityRole(d, role, text)
    [] role \in AttlistRoles -> AttlistRole(d, role, text)
    [] role \in GroupRoles -> GroupRole(d, level, role)
    [] role = "NOTATION_PUBLIC_ID" -> NotationPublicId(d, text)
    [] role \in {"PARAM_ENTITY_REF", "INNER_PARAM_ENTITY_REF"} -> Ok(ParamEntityRef(d))
    [] role = "ERROR" -> Fail(d, RoleError(tok))
    [] OTHER -> Ok(d)

\* The word XmlNameMatchesAscii compares: of "<!DOCTYPE" and "#IMPLIED", the name.
Word(tok, text) ==
  CASE tok = "DECL_OPEN" -> From(text, 3)
    [] tok = "POUND_NAME" -> From(text, 2)
    [] OTHER -> text
Keyword(word) == IF Len(word) = 1 THEN word[1] ELSE "-"

\* The token tok, the symbols text, of a prolog in the state st.
PrologStep(d, r, tok, text) ==
  [effect |-> RoleEffect(d, r.state.level, r.role, tok, text), state |-> r.state, role |-> r.role]

doProlog(d, st, tok, text) ==
  PrologStep(d, XmlTokenRole(st, tok, Keyword(Word(tok, text))), tok, text)
=============================================================================
