------------------------------ MODULE XmlRole ------------------------------
(***************************************************************************)
(* src/co/expat/xmlrole.c: the machine that turns the tokens of a prolog   *)
(* into roles.  Its state holds a pointer to the handler of the next       *)
(* token; here a handler is its name, and what it does with a token is one *)
(* row of a table: the token, the keyword it must spell, the next handler  *)
(* and the role returned.                                                  *)
(*                                                                         *)
(* A word is the sequence of symbols a name token spells; a keyword of the *)
(* grammar is one symbol, so XmlNameMatchesAscii is an equality.           *)
(***************************************************************************)
EXTENDS Naturals, Sequences

AnyWord == "*"
SomeName == {"NAME", "PREFIXED_NAME"}

Row(from, tok, word, to, role) ==
  [from |-> from, tok |-> tok, word |-> word, to |-> to, role |-> role]

\* Rows of a handler that do not look at the word, and rows for a keyword.
On(from, toks, to, role) == {Row(from, t, AnyWord, to, role) : t \in toks}
Kw(from, tok, word, to, role) == {Row(from, tok, word, to, role)}

----------------------------------------------------------------------------
(* Outside declarations *)

Misc(from, to) ==
  On(from, {"PROLOG_S"}, to, "NONE") \cup On(from, {"PI"}, to, "PI")
    \cup On(from, {"COMMENT"}, to, "COMMENT")

PrologRows ==
  LET start(from) == On(from, {"INSTANCE_START"}, "error", "INSTANCE_START")
      doctype(from) == Kw(from, "DECL_OPEN", "DOCTYPE", "doctype0", "DOCTYPE_NONE")
                         \cup On(from, {"BOM"}, from, "NONE")
  IN  Misc("prolog0", "prolog1") \cup start("prolog0") \cup doctype("prolog0")
        \cup On("prolog0", {"XML_DECL"}, "prolog1", "XML_DECL")
        \cup Misc("prolog1", "prolog1") \cup start("prolog1") \cup doctype("prolog1")
        \cup Misc("prolog2", "prolog2") \cup start("prolog2")

DoctypeRows ==
  LET tail(from) == On(from, {"OPEN_BRACKET"}, "internalSubset", "DOCTYPE_INTERNAL_SUBSET")
                      \cup On(from, {"DECL_CLOSE"}, "prolog2", "DOCTYPE_CLOSE")
  IN  On("doctype0", SomeName, "doctype1", "DOCTYPE_NAME")
        \cup tail("doctype1")
        \cup Kw("doctype1", "NAME", "SYSTEM", "doctype3", "DOCTYPE_NONE")
        \cup Kw("doctype1", "NAME", "PUBLIC", "doctype2", "DOCTYPE_NONE")
        \cup On("doctype2", {"LITERAL"}, "doctype3", "DOCTYPE_PUBLIC_ID")
        \cup On("doctype3", {"LITERAL"}, "doctype4", "DOCTYPE_SYSTEM_ID")
        \cup tail("doctype4")
        \cup On("doctype5", {"DECL_CLOSE"}, "prolog2", "DOCTYPE_CLOSE")

\* "top" is setTopLevel: the subset the declaration stands in.
SubsetRows(from) ==
  Misc(from, from)
    \cup Kw(from, "DECL_OPEN", "ENTITY", "entity0", "ENTITY_NONE")
    \cup Kw(from, "DECL_OPEN", "ATTLIST", "attlist0", "ATTLIST_NONE")
    \cup Kw(from, "DECL_OPEN", "ELEMENT", "element0", "ELEMENT_NONE")
    \cup Kw(from, "DECL_OPEN", "NOTATION", "notation0", "NOTATION_NONE")
    \cup On(from, {"PARAM_ENTITY_REF"}, from, "PARAM_ENTITY_REF")
    \cup On(from, {"NONE"}, from, "NONE")

InternalSubsetRows ==
  SubsetRows("internalSubset")
    \cup On("internalSubset", {"CLOSE_BRACKET"}, "doctype5", "DOCTYPE_NONE")

\* Conditional sections exist in the external subset only.
ExternalSubsetRows ==
  SubsetRows("externalSubset1")
    \cup On("externalSubset1", {"COND_SECT_OPEN"}, "condSect0", "NONE")
    \cup On("externalSubset1", {"COND_SECT_CLOSE"}, "externalSubset1", "NONE")
    \cup {[r EXCEPT !.from = "externalSubset0"] : r \in SubsetRows("externalSubset1")
            \cup On("externalSubset1", {"COND_SECT_OPEN"}, "condSect0", "NONE")}
    \cup On("externalSubset0", {"XML_DECL"}, "externalSubset1", "TEXT_DECL")

CondSectRows ==
  Kw("condSect0", "NAME", "INCLUDE", "condSect1", "NONE")
    \cup Kw("condSect0", "NAME", "IGNORE", "condSect2", "NONE")
    \cup On("condSect1", {"OPEN_BRACKET"}, "externalSubset1", "NONE")
    \cup On("condSect2", {"OPEN_BRACKET"}, "externalSubset1", "IGNORE_SECT")

----------------------------------------------------------------------------
(* Declarations *)

\* General entities: entity0, entity2 to entity6.  Parameter entities: entity1,
\* entity7 to entity10, which have no NDATA.
EntityValueRows(value, public, system) ==
  On(value, {"LITERAL"}, "declClose", "ENTITY_VALUE")
    \cup Kw(value, "NAME", "SYSTEM", system, "ENTITY_NONE")
    \cup Kw(value, "NAME", "PUBLIC", public, "ENTITY_NONE")
    \cup On(public, {"LITERAL"}, system, "ENTITY_PUBLIC_ID")

EntityRows ==
  On("entity0", {"PERCENT"}, "entity1", "ENTITY_NONE")
    \cup On("entity0", {"NAME"}, "entity2", "GENERAL_ENTITY_NAME")
    \cup EntityValueRows("entity2", "entity3", "entity4")
    \cup On("entity4", {"LITERAL"}, "entity5", "ENTITY_SYSTEM_ID")

EntityEndRows ==
  On("entity5", {"DECL_CLOSE"}, "top", "ENTITY_COMPLETE")
    \cup Kw("entity5", "NAME", "NDATA", "entity6", "ENTITY_NONE")
    \cup On("entity6", {"NAME"}, "declClose", "ENTITY_NOTATION_NAME")
    \cup On("entity1", {"NAME"}, "entity7", "PARAM_ENTITY_NAME")
    \cup EntityValueRows("entity7", "entity8", "entity9")
    \cup On("entity9", {"LITERAL"}, "entity10", "ENTITY_SYSTEM_ID")
    \cup On("entity10", {"DECL_CLOSE"}, "top", "ENTITY_COMPLETE")

NotationRows ==
  On("notation0", {"NAME"}, "notation1", "NOTATION_NAME")
    \cup Kw("notation1", "NAME", "SYSTEM", "notation3", "NOTATION_NONE")
    \cup Kw("notation1", "NAME", "PUBLIC", "notation2", "NOTATION_NONE")
    \cup On("notation2", {"LITERAL"}, "notation4", "NOTATION_PUBLIC_ID")
    \cup On("notation3", {"LITERAL"}, "declClose", "NOTATION_SYSTEM_ID")
    \cup On("notation4", {"LITERAL"}, "declClose", "NOTATION_SYSTEM_ID")
    \cup On("notation4", {"DECL_CLOSE"}, "top", "NOTATION_NO_SYSTEM_ID")

AttributeTypes == {"CDATA", "ID", "IDREF", "IDREFS", "ENTITY", "ENTITIES", "NMTOKEN",
                   "NMTOKENS"}

AttlistRows ==
  On("attlist0", SomeName, "attlist1", "ATTLIST_ELEMENT_NAME")
    \cup On("attlist1", {"DECL_CLOSE"}, "top", "ATTLIST_NONE")
    \cup On("attlist1", SomeName, "attlist2", "ATTRIBUTE_NAME")
    \cup UNION {Kw("attlist2", "NAME", w, "attlist8", "ATTRIBUTE_TYPE_" \o w)
                  : w \in AttributeTypes}
    \cup Kw("attlist2", "NAME", "NOTATION", "attlist5", "ATTLIST_NONE")
    \cup On("attlist2", {"OPEN_PAREN"}, "attlist3", "ATTLIST_NONE")
    \cup On("attlist3", SomeName \cup {"NMTOKEN"}, "attlist4", "ATTRIBUTE_ENUM_VALUE")
    \cup On("attlist4", {"CLOSE_PAREN"}, "attlist8", "ATTLIST_NONE")
    \cup On("attlist4", {"OR"}, "attlist3", "ATTLIST_NONE")

AttlistEndRows ==
  On("attlist5", {"OPEN_PAREN"}, "attlist6", "ATTLIST_NONE")
    \cup On("attlist6", {"NAME"}, "attlist7", "ATTRIBUTE_NOTATION_VALUE")
    \cup On("attlist7", {"CLOSE_PAREN"}, "attlist8", "ATTLIST_NONE")
    \cup On("attlist7", {"OR"}, "attlist6", "ATTLIST_NONE")
    \cup Kw("attlist8", "POUND_NAME", "IMPLIED", "attlist1", "IMPLIED_ATTRIBUTE_VALUE")
    \cup Kw("attlist8", "POUND_NAME", "REQUIRED", "attlist1", "REQUIRED_ATTRIBUTE_VALUE")
    \cup Kw("attlist8", "POUND_NAME", "FIXED", "attlist9", "ATTLIST_NONE")
    \cup On("attlist8", {"LITERAL"}, "attlist1", "DEFAULT_ATTRIBUTE_VALUE")
    \cup On("attlist9", {"LITERAL"}, "attlist1", "FIXED_ATTRIBUTE_VALUE")

\* A child of a content model, with its quantifier.
ChildRows(from) ==
  On(from, SomeName, "element7", "CONTENT_ELEMENT")
    \cup On(from, {"NAME_QUESTION"}, "element7", "CONTENT_ELEMENT_OPT")
    \cup On(from, {"NAME_ASTERISK"}, "element7", "CONTENT_ELEMENT_REP")
    \cup On(from, {"NAME_PLUS"}, "element7", "CONTENT_ELEMENT_PLUS")

ElementRows ==
  On("element0", SomeName, "element1", "ELEMENT_NAME")
    \cup Kw("element1", "NAME", "EMPTY", "declClose", "CONTENT_EMPTY")
    \cup Kw("element1", "NAME", "ANY", "declClose", "CONTENT_ANY")
    \cup On("element1", {"OPEN_PAREN"}, "element2", "GROUP_OPEN")
    \cup Kw("element2", "POUND_NAME", "PCDATA", "element3", "CONTENT_PCDATA")
    \cup On("element2", {"OPEN_PAREN"}, "element6", "GROUP_OPEN")
    \cup ChildRows("element2")

MixedRows ==
  On("element3", {"CLOSE_PAREN"}, "declClose", "GROUP_CLOSE")
    \cup On("element3", {"CLOSE_PAREN_ASTERISK"}, "declClose", "GROUP_CLOSE_REP")
    \cup On("element3", {"OR"}, "element4", "ELEMENT_NONE")
    \cup On("element4", SomeName, "element5", "CONTENT_ELEMENT")
    \cup On("element5", {"CLOSE_PAREN_ASTERISK"}, "declClose", "GROUP_CLOSE_REP")
    \cup On("element5", {"OR"}, "element4", "ELEMENT_NONE")

ChildrenRows ==
  On("element6", {"OPEN_PAREN"}, "element6", "GROUP_OPEN")
    \cup ChildRows("element6")
    \cup On("element7", {"CLOSE_PAREN"}, "element7", "GROUP_CLOSE")
    \cup On("element7", {"CLOSE_PAREN_ASTERISK"}, "element7", "GROUP_CLOSE_REP")
    \cup On("element7", {"CLOSE_PAREN_QUESTION"}, "element7", "GROUP_CLOSE_OPT")
    \cup On("element7", {"CLOSE_PAREN_PLUS"}, "element7", "GROUP_CLOSE_PLUS")
    \cup On("element7", {"COMMA"}, "element6", "GROUP_SEQUENCE")
    \cup On("element7", {"OR"}, "element6", "GROUP_CHOICE")

CloseRows == On("declClose", {"DECL_CLOSE"}, "top", "role_none")

----------------------------------------------------------------------------
(* The machine *)

Rows ==
  PrologRows \cup DoctypeRows \cup InternalSubsetRows \cup ExternalSubsetRows
    \cup CondSectRows \cup EntityRows \cup EntityEndRows \cup NotationRows
    \cup AttlistRows \cup AttlistEndRows \cup ElementRows \cup MixedRows
    \cup ChildrenRows \cup CloseRows

Handlers == {r.from : r \in Rows} \cup {"error"}

\* White space inside a declaration is returned with the declaration's role.
NoneRole ==
  [h \in Handlers |->
     CASE h \in {"doctype0", "doctype1", "doctype2", "doctype3", "doctype4", "doctype5"}
            -> "DOCTYPE_NONE"
       [] h \in {r.from : r \in EntityRows \cup EntityEndRows} -> "ENTITY_NONE"
       [] h \in {r.from : r \in NotationRows} -> "NOTATION_NONE"
       [] h \in {r.from : r \in AttlistRows \cup AttlistEndRows} -> "ATTLIST_NONE"
       [] h \in {r.from : r \in ElementRows \cup MixedRows \cup ChildrenRows}
            -> "ELEMENT_NONE"
       [] h = "declClose" -> "role_none"
       [] OTHER -> "NONE"]

HasBlank(h) == h = "error" \/ \E r \in Rows : r.from = h /\ r.tok = "PROLOG_S"

RowsOf ==
  [h \in Handlers |->
     {r \in Rows : r.from = h}
       \cup (IF HasBlank(h) THEN {} ELSE On(h, {"PROLOG_S"}, h, NoneRole[h]))]

XmlPrologStateInit ==
  [handler |-> "prolog0", level |-> 0, role_none |-> "NONE", documentEntity |-> TRUE,
   includeLevel |-> 0]

XmlPrologStateInitExternalEntity ==
  [handler |-> "externalSubset0", level |-> 0, role_none |-> "NONE",
   documentEntity |-> FALSE, includeLevel |-> 0]

setTopLevel(st) == IF st.documentEntity THEN "internalSubset" ELSE "externalSubset1"

\* The parentheses of a content model are counted by its level: two for a
\* group that opens in the second place, so that its end is found.
LevelAfter(st, role) ==
  CASE role = "GROUP_OPEN" /\ st.handler = "element1" -> 1
    [] role = "GROUP_OPEN" /\ st.handler = "element2" -> 2
    [] role = "GROUP_OPEN" /\ st.handler = "element6" -> st.level + 1
    [] st.handler = "element7"
       /\ role \in {"GROUP_CLOSE", "GROUP_CLOSE_REP", "GROUP_CLOSE_OPT", "GROUP_CLOSE_PLUS"}
         -> st.level - 1
    [] OTHER -> st.level

IncludeLevelAfter(st, tok) ==
  CASE st.handler = "condSect1" /\ tok = "OPEN_BRACKET" -> st.includeLevel + 1
    [] tok = "COND_SECT_CLOSE" -> st.includeLevel - 1
    [] OTHER -> st.includeLevel

Follow(st, r, level) ==
  LET to == CASE r.to = "top" -> setTopLevel(st)
              [] st.handler = "element7" /\ r.to = "element7" /\ level = 0 -> "declClose"
              [] OTHER -> r.to
  IN  [role |-> IF r.role = "role_none" THEN st.role_none ELSE r.role,
       state |-> [st EXCEPT !.handler = to, !.level = level,
                    !.includeLevel = IncludeLevelAfter(st, r.tok),
                    !.role_none = IF to = "declClose" /\ st.handler # to
                                  THEN NoneRole[st.handler] ELSE @]]

\* A token no row expects: common(), which lets a parameter entity reference
\* pass outside the document entity.
common(st, tok) ==
  IF ~st.documentEntity /\ tok = "PARAM_ENTITY_REF"
  THEN [role |-> "INNER_PARAM_ENTITY_REF", state |-> st]
  ELSE [role |-> "ERROR", state |-> [st EXCEPT !.handler = "error"]]

\* The end of an INCLUDE section needs an open one, the end of the subset none.
Allowed(st, tok) ==
  /\ tok = "COND_SECT_CLOSE" => st.includeLevel # 0
  /\ tok = "NONE" => st.includeLevel = 0

XmlTokenRole(st, tok, word) ==
  LET fits == {r \in RowsOf[st.handler] : r.tok = tok /\ r.word \in {AnyWord, word}}
  IN  IF st.handler = "error" THEN [role |-> "NONE", state |-> st]
      ELSE IF fits # {} /\ Allowed(st, tok)
      THEN LET r == CHOOSE q \in fits : TRUE IN Follow(st, r, LevelAfter(st, r.role))
      ELSE common([st EXCEPT !.handler = IF @ = "externalSubset0" THEN "externalSubset1"
                                         ELSE @], tok)
=============================================================================
