---------------------------- MODULE MCXmlSyntax ----------------------------
(***************************************************************************)
(* What expat takes for XML, on two levels: symbols become tokens          *)
(* (MCXmlTok), and here tokens become the declarations of a prolog, or of  *)
(* an external subset: what the role machine and doProlog accept is        *)
(* compared with the grammar of XML 1.0 over tokens, and the declarations  *)
(* with the rules for them.                                                *)
(***************************************************************************)
EXTENDS XmlDtd, XmlGrammar

CONSTANTS MaxLevel,   \* parentheses and INCLUDE sections open at once
          MaxDecls    \* declarations
ASSUME PrologAssumption == MaxLevel \in 1..3 /\ MaxDecls \in Nat

VARIABLES state, d, error, rest, decls, first, done
vars == <<state, d, error, rest, decls, first, done>>

----------------------------------------------------------------------------
(* Tokens; the letter is what the grammar reads. *)

Tk(tok, letter, text) == [tok |-> tok, letter |-> letter, text |-> text]
Plain(tok) == Tk(tok, tok, <<tok>>)

Keywords == {"SYSTEM", "PUBLIC", "NDATA", "EMPTY", "ANY", "INCLUDE", "IGNORE", "NOTATION"}
              \cup AttributeTypes
Names == {Tk("NAME", w, <<w>>) : w \in {"e"} \cup Keywords}
Opens == {Tk("DECL_OPEN", "<!" \o w, <<"<", "!", w>>)
            : w \in {"DOCTYPE", "ENTITY", "ATTLIST", "ELEMENT", "NOTATION", "e"}}
Pounds == {Tk("POUND_NAME", "#" \o w, <<"#", w>>)
             : w \in {"PCDATA", "IMPLIED", "REQUIRED", "FIXED", "e"}}
Lit(letter, inside) == Tk("LITERAL", letter, <<"'">> \o inside \o <<"'">>)
\* 'v' stands in the first declaration and 'w' in the second.
Literals == {Lit("'v'", <<"v">>), Lit("'w'", <<"w">>), Lit("'%p;'", <<"%", "p", ";">>), Lit("'$<'", <<"$", "<">>)}
Decl1 == Tk("XML_DECL", "XML_DECL",
            <<"<", "?", "xml", " ", "version", "=", "'", "1", "'", " ", "standalone", "=", "'",
              "yes", "'", "?", ">">>)
Rest == {Plain(t) : t \in {"PI", "COMMENT", "PROLOG_S", "INSTANCE_START", "OPEN_BRACKET",
                           "CLOSE_BRACKET", "DECL_CLOSE", "PERCENT", "PARAM_ENTITY_REF",
                           "OPEN_PAREN", "CLOSE_PAREN", "CLOSE_PAREN_ASTERISK",
                           "CLOSE_PAREN_QUESTION", "CLOSE_PAREN_PLUS", "OR", "COMMA",
                           "NAME_QUESTION", "NAME_ASTERISK", "NAME_PLUS", "COND_SECT_OPEN",
                           "COND_SECT_CLOSE", "NONE", "BOM"}}
Tokens == {Tk("NMTOKEN", "1", <<"1">>)} \cup Names \cup Opens \cup Pounds \cup Literals \cup {Decl1} \cup Rest
Letters == {t.letter : t \in Tokens}

----------------------------------------------------------------------------
(* The grammar *)

NameG == Ref("Name")
LitG == Ref("Literal")
PubidG == Ref("PubidLiteral")
Group == <<"Group1", "Group2", "Group3">>
Sections == <<"Sections1", "Sections2", "Sections3">>
Close == One("DECL_CLOSE")

Lists(item, separator) == Cat2(item, Star(Cat2(One(separator), item)))

EntityG ==
  Cat(<<One("<!ENTITY"),
        Alt({Cat(<<NameG, Alt({Ref("Value"),
                               Cat(<<Ref("ExternalId"), Opt(Cat(<<One("NDATA"), NameG>>))>>)})>>),
             Cat(<<One("PERCENT"), NameG, Alt({Ref("Value"), Ref("ExternalId")})>>)}),
        Close>>)

NotationG ==
  Cat(<<One("<!NOTATION"), NameG,
        Alt({Ref("ExternalId"), Cat(<<One("PUBLIC"), PubidG>>)}), Close>>)

AttTypeG ==
  Alt({Sym1(AttributeTypes),
       Cat(<<One("NOTATION"), One("OPEN_PAREN"), Lists(NameG, "OR"), One("CLOSE_PAREN")>>),
       Cat(<<One("OPEN_PAREN"), Lists(Alt({NameG, One("1")}), "OR"), One("CLOSE_PAREN")>>)})
AttDefG ==
  Cat(<<NameG, Ref("AttType"),
        Alt({Sym1({"#REQUIRED", "#IMPLIED"}), Cat2(Opt(One("#FIXED")), Ref("AttValue"))})>>)
AttlistG == Cat(<<One("<!ATTLIST"), NameG, Star(Ref("AttDef")), Close>>)

Quantified(close) == Sym1({close, close \o "_ASTERISK", close \o "_QUESTION", close \o "_PLUS"})
ChildG == Alt({NameG, Sym1({"NAME_ASTERISK", "NAME_QUESTION", "NAME_PLUS"})})

\* A group in which n more may be open.
ParticleG(n) == IF n = 1 THEN ChildG ELSE Alt({ChildG, Ref(Group[n - 1])})
GroupG(n) ==
  Cat(<<One("OPEN_PAREN"), Alt({Lists(ParticleG(n), "OR"), Lists(ParticleG(n), "COMMA")}),
        Quantified("CLOSE_PAREN")>>)
MixedG ==
  Cat(<<One("OPEN_PAREN"), One("#PCDATA"),
        Alt({One("CLOSE_PAREN"),
             Cat2(Star(Cat2(One("OR"), NameG)), One("CLOSE_PAREN_ASTERISK"))})>>)
ElementG ==
  Cat(<<One("<!ELEMENT"), NameG,
        Alt({Sym1({"EMPTY", "ANY"}), MixedG, Ref(Group[MaxLevel])}), Close>>)

MiscG == Sym1({"PI", "COMMENT"})
SubsetG ==
  Alt({EntityG, NotationG, AttlistG, ElementG, MiscG, One("PARAM_ENTITY_REF")})
DoctypeG ==
  Cat(<<One("<!DOCTYPE"), NameG, Opt(Ref("ExternalId")),
        Opt(Cat(<<One("OPEN_BRACKET"), Star(Ref("Subset")), One("CLOSE_BRACKET")>>)), Close>>)
PrologG ==
  Cat(<<Opt(One("BOM")), Opt(Sym1({"XML_DECL", "PROLOG_S"})), Star(MiscG),
        Opt(Cat2(DoctypeG, Star(MiscG))), One("INSTANCE_START")>>)

CondSectG(n) ==
  Cat2(One("COND_SECT_OPEN"),
       Alt({Cat(<<One("IGNORE"), One("OPEN_BRACKET")>>),
            IF n = 0 THEN None
            ELSE Cat(<<One("INCLUDE"), One("OPEN_BRACKET"), Ref(Sections[n]),
                       One("COND_SECT_CLOSE")>>)}))
SectionsG(n) == Star(Alt({Ref("Subset"), CondSectG(n)}))
ExternalG ==
  Cat(<<Opt(Sym1({"XML_DECL", "PROLOG_S"})), Ref(Sections[MaxLevel]), One("NONE")>>)

\* A value has no parameter reference in the internal subset.
Rules ==
  "Name" :> Sym1({t.letter : t \in Names})
    @@ "Literal" :> Sym1({t.letter : t \in Literals})
    @@ "PubidLiteral" :> Sym1({"'v'", "'w'", "'%p;'"}) @@ "Value" :> Sym1({"'v'", "'w'", "'$<'"})
    @@ "AttValue" :> Sym1({"'v'", "'w'", "'%p;'"})
    @@ "ExternalId" :>
         Alt({Cat(<<One("SYSTEM"), LitG>>), Cat(<<One("PUBLIC"), PubidG, LitG>>)})
    @@ "AttType" :> AttTypeG @@ "AttDef" :> AttDefG @@ "Subset" :> SubsetG
    @@ [g \in {Group[n] : n \in 1..MaxLevel} |-> GroupG(CHOOSE n \in 1..MaxLevel : Group[n] = g)]
    @@ [g \in {Sections[n] : n \in 1..MaxLevel} |->
          SectionsG((CHOOSE n \in 1..MaxLevel : Sections[n] = g) - 1)]

\* White space stands anywhere in a prolog but before the XML declaration, a
\* parameter reference anywhere in the external subset.
Ignored(letter) ==
  \/ letter = "PROLOG_S"
  \/ letter = "PARAM_ENTITY_REF" /\ ~state.documentEntity

After(letter, derived) == IF derived = None /\ Ignored(letter) THEN rest ELSE derived

----------------------------------------------------------------------------

Init ==
  /\ \/ state = XmlPrologStateInit /\ rest = PrologG
     \/ state = XmlPrologStateInitExternalEntity /\ rest = ExternalG
  /\ d = DtdInit
  /\ error = "NONE" /\ decls = 0 /\ first = TRUE /\ done = FALSE

\* Declarations that an earlier one matters to; the others are looked at alone.
Repeatable == {"<!ENTITY", "<!ATTLIST"}

Attributes ==
  UNION {{<<type, k>> : k \in 1..Len(d.elementTypes[type].defaultAtts)}
           : type \in DOMAIN d.elementTypes}

\* Tokens the tokenizer can return here.  A keyword, or a literal with special
\* characters, is tried where the grammar tells it from a plain one; a group is not
\* opened past the bound; nothing looks into a value once the declarations are not
\* used.  next: what may follow a letter.
Possible(t, next) ==
  /\ t.letter \in Keywords => next[t.letter] # next["e"]
  /\ t.tok = "BOM" => first /\ state.documentEntity
  /\ t.tok = "NONE" => ~state.documentEntity
  /\ t.tok = "OPEN_PAREN" => state.level < MaxLevel
  /\ t.tok = "COND_SECT_OPEN" => state.includeLevel < MaxLevel - 1
  /\ t.letter \in Repeatable => decls < (IF state.documentEntity THEN MaxDecls ELSE 1)
  /\ t.letter \in {"<!ELEMENT", "<!NOTATION"} => decls = 0
  /\ state.handler = "attlist1" /\ t.tok = "NAME" => Cardinality(Attributes) < 2
  /\ t.letter \in {"'%p;'", "'$<'"} =>
       /\ d.keepProcessing /\ state.documentEntity
       /\ next[t.letter] # next["'v'"]
  /\ t.letter = "'v'" => decls < 2
  /\ t.letter = "'w'" => decls = 2

\* co_xml.c and outline.c have no external subset read: of one, the structure is
\* checked, and what it would declare is left out.
Structure(t, r) ==
  [state |-> r.state, role |-> r.role,
   effect |-> CASE r.role \in GroupRoles -> GroupRole(d, r.state.level, r.role)
                [] r.role = "ERROR" -> Fail(d, RoleError(t.tok))
                [] OTHER -> Ok(d)]

Outcome(t) ==
  IF state.documentEntity THEN doProlog(d, state, t.tok, t.text)
  ELSE Structure(t, XmlTokenRole(state, t.tok, Keyword(Word(t.tok, t.text))))

Take1(t, r, derived) ==
  /\ state' = r.state
  /\ d' = r.effect.d
  /\ error' = r.effect.error
  /\ rest' = After(t.letter, derived)
  /\ decls' = CASE t.letter \in Repeatable -> decls + 1
                [] t.letter \in {"<!ELEMENT", "<!NOTATION"} -> MaxDecls
                [] OTHER -> decls
  /\ done' = (r.role = "INSTANCE_START" \/ t.tok = "NONE")
  /\ first' = FALSE

Token1 ==
  /\ error = "NONE" /\ ~done
  /\ \E next \in {[c \in Letters |-> Derive(Rules, rest, c)]} :
       \E t \in {t \in Tokens : Possible(t, next)} :
         \E r \in {Outcome(t)} : Take1(t, r, next[t.letter])

Next == Token1
Spec == Init /\ [][Next]_vars
----------------------------------------------------------------------------

\* A token is refused exactly when no prolog, or external subset, goes on that
\* way: the row of the state for the token, the level that finds the end of a
\* content model, the connector of each group, the open INCLUDE sections and the
\* checks of values agree with the grammar (xmlrole.c; doProlog).
PrologIsGrammar == (error = "NONE") <=> Viable(rest)

InSubset == state.handler \in {"internalSubset", "externalSubset0", "externalSubset1"}

\* Between declarations an entity has either a text or a system identifier, and
\* a notation only with the latter: each value went to the entity whose
\* declaration it stands in (m_declEntity is reset for names that do not count).
EntitiesWhole ==
  InSubset =>
    \A table \in {d.generalEntities, d.paramEntities} : \A n \in DOMAIN table :
      /\ (table[n].textPtr = NULL) # (table[n].systemId = NULL)
      /\ table[n].notation # NULL => table[n].systemId # NULL
      /\ table[n].publicId # NULL => table[n].systemId # NULL

BeingDeclared(x) == d.declEntity = Ptr(x) /\ ~InSubset

\* What an entity has it keeps; more is added only where it is being declared.
EntityKept(old, new, x) ==
  /\ \A field \in DOMAIN old : old[field] # NULL => new[field] = old[field]
  /\ ~BeingDeclared(x) => new = old

\* The first declaration of an entity is the one that counts: a later one, of
\* whatever kind, changes no value of it and adds none, and once a parameter entity
\* is left out nothing more is declared (GENERAL_ENTITY_NAME, PARAM_ENTITY_NAME and
\* keepProcessing in doProlog).
FirstDeclarationBinds ==
  [][/\ \A n \in DOMAIN d.generalEntities :
          EntityKept(d.generalEntities[n], d'.generalEntities[n], [general |-> TRUE, name |-> n])
     /\ \A n \in DOMAIN d.paramEntities :
          EntityKept(d.paramEntities[n], d'.paramEntities[n], [general |-> FALSE, name |-> n])
     /\ EntitiesWhole'
     /\ ~d.keepProcessing =>
          /\ d'.generalEntities = d.generalEntities /\ ~d'.keepProcessing
          /\ DOMAIN d'.paramEntities \ {ExternalSubset} = DOMAIN d.paramEntities \ {ExternalSubset}
    ]_vars

\* A default stands in the first declaration of its attribute.
DefaultIsFirst(atts) ==
  \A k \in DOMAIN atts : atts[k].value # NULL => \A j \in 1..k-1 : atts[j].id # atts[k].id

\* The first declaration of an attribute is the one that counts: an attribute has
\* at most one default, and none when its first declaration gives none; what an
\* element type has stays, in its order, its ID included (defineAttribute).
FirstAttributeBinds ==
  [][\A type \in DOMAIN d.elementTypes :
       LET old == d.elementTypes[type]
           new == d'.elementTypes[type]
       IN  /\ SubSeq(new.defaultAtts, 1, Len(old.defaultAtts)) = old.defaultAtts
           /\ DefaultIsFirst(new.defaultAtts)
           /\ old.idAtt # NULL => new.idAtt = old.idAtt
           /\ ~d.keepProcessing => new = old]_vars
-----------------------------------------------------------------------------
(* The two levels *)

CONSTANTS MaxMore

VARIABLES scanner, input, token, markup, left, past,
          part  \* which of the two the behaviour is about

Tok == INSTANCE MCXmlTok WITH text <- input, result <- token, rest <- markup

tokVars == <<scanner, input, token, markup, left, past>>
allVars == <<vars, tokVars, part>>

SyntaxInit ==
  /\ Init /\ Tok!Init
  /\ part \in {"tokens", "prolog"}
  /\ part = "tokens" => state.documentEntity
  /\ part = "prolog" => scanner = "init"

SyntaxNext ==
  /\ UNCHANGED part
  /\ \/ part = "tokens" /\ Tok!Next /\ UNCHANGED vars
     \/ part = "prolog" /\ Next /\ UNCHANGED tokVars

SyntaxSpec == SyntaxInit /\ [][SyntaxNext]_allVars

\* A token does not depend on where the input was cut (MCXmlTok).
TokenSettles    == Tok!TokenSettles
\* Markup in content is what the grammar says it is (MCXmlTok).
MarkupIsGrammar == Tok!MarkupIsGrammar
=============================================================================
