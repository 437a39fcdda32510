---------------------------- MODULE MCXmlParse ----------------------------
(***************************************************************************)
(* XmlParse on small documents, each with what XML says it holds: what its *)
(* elements and texts are, or why it is not well-formed.                   *)
(***************************************************************************)
EXTENDS XmlParse, FiniteSets

----------------------------------------------------------------------------
(* Documents *)

a == <<"a">>
b == <<"b">>
S(name) == <<StartEvent(name, {})>>
SAtt(name, value) == <<StartEvent(name, {<<<<"c">>, value>>})>>
E(name) == <<EndEvent(name)>>
D(chars) == DataEvents(chars)

Open(name) == <<"<">> \o name \o <<">">>
Close(name) == <<"<", "/">> \o name \o <<">">>
Ref(name) == <<"&", name, ";">>
Quoted(chars) == <<"'">> \o chars \o <<"'">>

Entity(name, value) == <<"<", "!", "ENTITY", " ", name, " ">> \o value \o <<">">>
Internal(name, chars) == Entity(name, Quoted(chars))
External(name) == Entity(name, <<"SYSTEM", " ", "'", "c", "'">>)
Unparsed(name) == Entity(name, <<"SYSTEM", " ", "'", "c", "'", " ", "NDATA", " ", "c">>)
Attlist(type) == <<"<", "!", "ATTLIST", " ", "b", " ", "c", " ", type, " ", "'", "a", "'", ">">>
Doctype(rest) == <<"<", "!", "DOCTYPE", " ", "a">> \o rest \o <<">">>
Subset(decls) == Doctype(<<"[">> \o decls \o <<"]">>)
SystemId == Doctype(<<" ", "SYSTEM", " ", "'", "b", "'">>)
XmlDecl(rest) == <<"<", "?", "xml", " ", "version", "=", "'", "1", "'">> \o rest \o <<"?", ">">>
Standalone == XmlDecl(<<" ", "standalone", "=", "'", "yes", "'">>)

\* A document with that prolog and content; errors: why it is not well-formed.
Doc(prolog, content, told, errors) ==
  [text |-> prolog \o Open(a) \o content \o Close(a), events |-> S(a) \o told \o E(a),
   errors |-> errors]
WithTail(d, tail, errors) == [d EXCEPT !.text = @ \o tail, !.errors = errors]
Sound(prolog, content, told) == Doc(prolog, content, told, {})
Flawed(prolog, content, told, error) == Doc(prolog, content, told, {error})

Texts == {
  \* line ends, brackets and references in text
  Sound(<<>>, <<"a", "\r", "\n", "]", "]", "\r">>, D(<<"a", "\n", "]", "]", "\n">>)),
  Sound(<<>>, <<"&", "lt", ";", "&", "#", "1", "3", ";">>, D(<<"<", "^M">>)),
  Sound(<<>>, <<"C3", "xA9", "<", "!", "-", "-", "a", "-", "-", ">", "<", "?", "b", "?", ">">>,
       D(<<"C3", "xA9">>)),
  Sound(<<>>, <<"<", "!", "[", "CDATA", "[", "]", "\r", "\n", "<", "]", "]", ">", "b">>,
       D(<<"]", "\n", "<", "b">>)),
  Flawed(<<>>, <<"b", "]", "]", ">">>, D(<<"b">>), "INVALID_TOKEN"),
  Flawed(<<>>, <<"C3">>, <<>>, "INVALID_TOKEN"),
  Flawed(<<>>, <<"&", "#", "0", ";">>, <<>>, "BAD_CHAR_REF"),
  Flawed(<<>>, <<"<", "?", "xml", "?", ">">>, <<>>, "MISPLACED_XML_PI"),
  Flawed(<<>>, <<"<", "!", "[", "CDATA", "[", "b">>, D(<<"b">> \o Close(a)), "UNCLOSED_CDATA_SECTION"),
  \* elements
  Sound(<<>>, Open(b) \o Open(<<"b", "-", "c">>) \o <<"a">> \o Close(<<"b", "-", "c">>) \o Close(b),
       S(b) \o S(<<"b", "-", "c">>) \o D(a) \o E(<<"b", "-", "c">>) \o E(b)),
  Flawed(<<>>, Open(b) \o Close(<<"c">>), S(b), "TAG_MISMATCH"),
  Flawed(<<>>, Open(b), S(b), "TAG_MISMATCH")}

Attributes == {
  Sound(<<>>, <<"<", "b", " ", "c", "=", "'", " ", "\t", "a", "&", "lt", ";", "'", "/", ">">>,
       SAtt(b, <<" ", " ", "a", "<">>) \o E(b)),
  Sound(Subset(Attlist("NMTOKEN")), <<"<", "b", " ", "c", "=", "'", " ", "a", "\n", "'", "/", ">">>,
       SAtt(b, a) \o E(b)),
  Sound(Subset(Attlist("CDATA")), <<"<", "b", " ", "c", "=", "'", " ", "a", "\n", "'", "/", ">">>,
       SAtt(b, <<" ", "a", " ">>) \o E(b)),
  Sound(Subset(Attlist("CDATA")), Open(b) \o Close(b), SAtt(b, a) \o E(b)),
  Sound(Subset(Internal("b", <<"a", "\t">>)), <<"<", "b", " ", "c", "=", "'", "&", "b", ";", "'", "/", ">">>,
       SAtt(b, <<"a", " ">>) \o E(b)),
  Flawed(Subset(Internal("b", <<"&", "#", "6", "0", ";">>)),
        <<"<", "b", " ", "c", "=", "'", "&", "b", ";", "'", "/", ">">>, <<>>, "INVALID_TOKEN"),
  Flawed(<<>>, <<"<", "b", " ", "c", "=", "'", "'", " ", "c", "=", "'", "'", ">">>, <<>>,
        "DUPLICATE_ATTRIBUTE")}

Entities == {
  Sound(Subset(Internal("b", <<"c", "]">>)), Ref("b") \o <<"a">>, D(<<"c", "]", "a">>)),
  Sound(Subset(Internal("b", Open(b) \o Ref("c") \o Close(b)) \o Internal("c", <<"]">>)), Ref("b"),
       S(b) \o D(<<"]">>) \o E(b)),
  Sound(Subset(Internal("b", <<"<", "!", "[", "CDATA", "[", "<", "]", "]", ">">> \o Ref("c"))
                \o Internal("c", <<"\n">>)),
       Ref("b") \o Ref("c"), D(<<"<", "\n", "\n">>)),
  Sound(Subset(Internal("b", a) \o Internal("b", b)), Ref("b"), D(a)),
  Sound(Subset(External("b")), Ref("b"), <<>>),
  Sound(SystemId, Ref("b"), <<>>),
  Sound(Subset(<<"%", "b", ";">> \o Internal("b", a)), Ref("b"), <<>>),
  Flawed(Standalone \o SystemId, Ref("b"), <<>>, "UNDEFINED_ENTITY"),
  Flawed(<<>>, Ref("b"), <<>>, "UNDEFINED_ENTITY"),
  Flawed(Subset(Unparsed("b")), Ref("b"), <<>>, "BINARY_ENTITY_REF"),
  Flawed(Subset(Internal("b", Ref("c")) \o Internal("c", <<"]">> \o Ref("b"))), Ref("b"), D(<<"]">>),
        "RECURSIVE_ENTITY_REF"),
  Flawed(Subset(Internal("b", Open(b))), Ref("b") \o Close(b), S(b), "ASYNC_ENTITY"),
  Flawed(Subset(Internal("b", Open(b) \o Ref("c")) \o Internal("c", Close(b))), Ref("b"), S(b),
        "ASYNC_ENTITY"),
  Flawed(Subset(Internal("b", Open(b) \o <<"]">>)), Ref("b"), S(b) \o D(<<"]">>), "ASYNC_ENTITY"),
  Flawed(Subset(Internal("b", Close(a) \o Open(a))), Ref("b"), <<>>, "ASYNC_ENTITY"),
  Flawed(Subset(Internal("b", <<"&", "#", "6", "0", ";">>)), Ref("b"), <<>>, "UNCLOSED_TOKEN")}

Brackets == Sound(XmlDecl(<<>>), <<"]">>, D(<<"]">>))
Ends == {
  WithTail(Brackets, <<"\r">>, {}), WithTail(Brackets, <<"\r", "\n", "<", "?", "b", "?", ">">>, {}),
  WithTail(Brackets, <<"<", "b", ">">>, {"JUNK_AFTER_DOC_ELEMENT"}),
  WithTail(Brackets, <<"&">>, {"INVALID_TOKEN"}),
  WithTail(Brackets, <<"<", "!", "-">>, {"UNCLOSED_TOKEN"}),
  WithTail(Sound(<<"EF", "xBB", "xBF">>, a, D(a)), <<"\n">>, {}),
  [text |-> <<"\n", "<", "a", "/", ">">>, events |-> S(a) \o E(a), errors |-> {}],
  [text |-> Close(a), events |-> <<>>, errors |-> {"INVALID_TOKEN"}],
  [text |-> <<"<", "]", "a">>, events |-> <<>>, errors |-> {"INVALID_TOKEN"}],
  [text |-> <<>>, events |-> <<>>, errors |-> {"NO_ELEMENTS"}]}

\* What is left of a document that ends after n symbols is no document.
CutOff == Sound(Subset(Internal("b", <<"]">>)), <<"\r", "&", "b", ";", "C3", "xA9", "]">>,
               D(<<"\n", "]", "C3", "xA9", "]">>))
Cut(n) == [CutOff EXCEPT !.text = SubSeq(@, 1, n),
                         !.errors = {"NO_ELEMENTS", "UNCLOSED_TOKEN", "PARTIAL_CHAR"}]

SmallDocuments ==
  Texts \cup Attributes \cup Entities \cup Ends \cup {CutOff}
    \cup {Cut(n) : n \in 1 .. Len(CutOff.text) - 1}

\* A bracket ends the text of an entity.
StopDocuments == {Sound(Subset(Internal("b", <<"c", "]">>)), Ref("b") \o <<"a">>, D(<<"c", "]", "a">>))}

Symbol == UNION {{d.text[j] : j \in 1 .. Len(d.text)} : d \in SmallDocuments}
Written ==
  UNION {{SubSeq(d.text, i, Least(i + n, Len(d.text))) : i \in 1 .. Len(d.text), n \in -1 .. BUFSIZ - 1}
         : d \in SmallDocuments}

----------------------------------------------------------------------------
(* Properties *)

\* what was told after XML_StopParser
StopIsHeard ==
  stopped # NotStopped /\ Len(events) > stopped =>
    /\ Len(events) = stopped + 1
    /\ events[stopped].is = "start" /\ events[stopped + 1] = EndEvent(events[stopped].of)

\* However a document is cut into buffers, and whatever is tried again or put off:
\* the handlers are told what it holds, in order, nothing twice; all of it and no
\* error when it is well-formed, and the error of its first mistake when it is not.
\* After XML_StopParser a handler is called once more at most, for the end of the
\* element whose empty-element tag was just told (doContent).
DeliversDocument ==
  /\ Len(events) <= Len(doc.events) /\ events = SubSeq(doc.events, 1, Len(events))
  /\ errorCode \in {"NONE"} \cup doc.errors \cup (IF stopped = NotStopped THEN {} ELSE {"ABORTED"})
  /\ app = "done" /\ stopped = NotStopped => events = doc.events /\ doc.errors = {}
  /\ StopIsHeard

\* XML_StopParser means that XML_ParseBuffer returns XML_STATUS_ERROR (expat.h).
StopMeansError == stopped # NotStopped /\ haveNow = Idle => errorCode # "NONE"

\* The loop of the application ends: a token that was put off because little of it
\* is new (callProcessor) is tried in the end, and every step of a call uses
\* something up.
DocumentEnds == <>(app # "reading")
=============================================================================
