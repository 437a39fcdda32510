------------------------------- MODULE XmlParse -------------------------------
(***************************************************************************)
(* The parser of src/co/expat/xmlparse.c for a document that comes in      *)
(* pieces: the application (coReadXML, outline) asks XML_GetBuffer for     *)
(* room, writes there and calls XML_ParseBuffer, whose processors take one *)
(* token after the other and call the handlers.                            *)
(*                                                                         *)
(* A step is one token, so that the loops of the processors and the one of *)
(* callProcessor, which runs the next processor at once when m_reenter is  *)
(* set, are the same thing here: what the next step is depends on          *)
(* m_processor, on the innermost open entity and on being in a CDATA       *)
(* section.  A symbol of the input may stand for many bytes (XmlTok), so a *)
(* buffer of BUFSIZ bytes may end after any number of them.                *)
(***************************************************************************)
EXTENDS XmlBuffer, XmlDtd

CONSTANTS
  Documents,  \* what may be read: records with a text
  MayStop     \* TRUE: a handler may call XML_StopParser

ASSUME ParseAssumption == MayStop \in BOOLEAN

VARIABLES
  doc,          \* the document
  processor,    \* m_processor
  prologState,
  dtd,
  tags,         \* m_tagStack, innermost last: m_tagLevel is its length
  open,         \* m_openInternalEntities, innermost first
  section,      \* doCdataSection runs, or cdataSectionProcessor will
  parsing,      \* m_parsingStatus.parsing
  finalBuffer,
  errorCode,
  events,       \* what the handlers were told
  stopped,      \* the events until XML_StopParser was called, NotStopped before
  app,          \* "reading"; the loop of the application was "done" or has "failed"
  odd           \* parity of the steps, so that one that does nothing is a step

parserVars == <<processor, prologState, dtd, tags, open, section, parsing, finalBuffer,
                errorCode, events, stopped, app>>
vars == <<bufferVars, doc, parserVars, odd>>

NotStopped == -1
Text == doc.text

\* XML_ParserCreate(NULL), with handlers for elements and maybe for data.
Init ==
  /\ BufferInit
  /\ doc \in Documents
  /\ processor = "prologProcessor" /\ prologState = XmlPrologStateInit /\ dtd = DtdInit
  /\ tags = <<>> /\ open = <<>> /\ section = FALSE
  /\ parsing = "INITIALIZED" /\ finalBuffer = FALSE /\ errorCode = "NONE"
  /\ events = <<>> /\ stopped = NotStopped
  /\ app = "reading" /\ odd = FALSE

-----------------------------------------------------------------------------
(* The application *)

\* It gives up when there is no buffer: no memory, or the parser has finished.
GetBuffer ==
  /\ app = "reading" /\ haveNow = Idle /\ room = 0
  /\ IF parsing = "FINISHED"
     THEN app' = "failed" /\ UNCHANGED bufferVars
     ELSE XML_GetBuffer(BUFSIZ) /\ app' = IF room' = 0 THEN "failed" ELSE app
  /\ UNCHANGED <<doc, processor, prologState, dtd, tags, open, section, parsing,
                 finalBuffer, errorCode, events, stopped>>

\* It reads until the buffer is full or the file ends; a file that ends with a
\* full buffer needs another call.
Read(n) == SubSeq(Text, Len(given) + 1, Len(given) + n)
ParseBuffer ==
  /\ app = "reading" /\ room > 0
  /\ \E n \in 0 .. Least(room, Len(Text) - Len(given)) :
       /\ n = 0 => Len(given) = Len(Text)
       /\ finalBuffer' \in {n = 0} \cup {Len(given) + n = Len(Text)}
       /\ TakeOver(Read(n), finalBuffer')
  /\ parsing' = "PARSING"
  /\ UNCHANGED <<doc, processor, prologState, dtd, tags, open, section, errorCode, events,
                 stopped, app>>

-----------------------------------------------------------------------------
(* A step of a call *)

\* Nothing but an entity is read while one is open.
Cur == IF open = <<>> THEN [k \in 1 .. NotParsed |-> buffer[bufferPtr + k - 1]] ELSE open[1].rest
haveMore == open = <<>> /\ ~finalBuffer
Runs(p) == haveNow # Idle /\ parsing = "PARSING" /\ processor = p
tagLevel == Len(tags)
startTagLevel == IF open = <<>> THEN 0 ELSE open[1].startTagLevel

\* The tag of an open element; its raw name is in the parse buffer from at on until
\* storeRawNames copies it.
Own == -1
RawName(tag) ==
  IF tag.at = Own THEN tag.rawName
  ELSE [k \in 1 .. tag.length |-> IF tag.at + k - 1 < bufferLim THEN buffer[tag.at + k - 1] ELSE Junk]
\* (mutant) the names stay where they are
LeaveRawNames(stack) == stack
\* Those above the innermost one that was copied before.
StoreRawNames(stack) ==
  [k \in 1 .. Len(stack) |->
     IF \A j \in k .. Len(stack) : stack[j].at # Own
     THEN [stack[k] EXCEPT !.rawName = RawName(stack[k]), !.at = Own] ELSE stack[k]]
\* contentProcessor does it when doContent returns.
Stored == IF processor = "contentProcessor" THEN StoreRawNames(tags) ELSE tags

\* n symbols are used, of the innermost entity or of the buffer.
Skip(n) ==
  IF open = <<>> THEN Consume(n) /\ UNCHANGED open
  ELSE open' = [open EXCEPT ![1].rest = From(@, n + 1)] /\ UNCHANGED bufferVars

Fails(code) ==
  /\ errorCode' = code /\ processor' = "errorProcessor" /\ app' = "failed"
  /\ ReturnError

Rejects(code) ==
  /\ Fails(code)
  /\ UNCHANGED <<doc, prologState, dtd, tags, open, section, parsing, finalBuffer, events, stopped>>

\* XML_ParseBuffer returns XML_STATUS_OK.
Returns ==
  /\ Return
  /\ tags' = Stored
  /\ processor' = IF section /\ open = <<>> THEN "cdataSectionProcessor" ELSE processor
  /\ parsing' = IF finalBuffer THEN "FINISHED" ELSE parsing
  /\ app' = IF finalBuffer THEN "done" ELSE app
  /\ UNCHANGED <<doc, prologState, dtd, open, section, finalBuffer, errorCode, events, stopped>>

-----------------------------------------------------------------------------
(* The prolog *)

\* doProlog with a token that may go on (none, or one cut off).
PrologIncomplete(t) ==
  IF haveMore THEN Returns
  ELSE Rejects(CASE t.tok = "PARTIAL" -> "UNCLOSED_TOKEN"
                 [] t.tok = "PARTIAL_CHAR" -> "PARTIAL_CHAR"
                 [] t.tok = "NONE" -> "NO_ELEMENTS")

PrologEffect(r, n) ==
  CASE r.effect.error # "NONE" -> Rejects(r.effect.error)
    [] r.role = "INSTANCE_START" ->
         /\ processor' = "contentProcessor" /\ prologState' = r.state
         /\ UNCHANGED <<bufferVars, doc, dtd, tags, open, section, parsing, finalBuffer,
                        errorCode, events, stopped, app>>
    [] OTHER ->
         /\ Skip(n)
         /\ dtd' = r.effect.d /\ prologState' = r.state
         /\ UNCHANGED <<doc, processor, tags, section, parsing, finalBuffer, errorCode,
                        events, stopped, app>>

PrologToken(cur, t) ==
  CASE t.tok \in {"NONE", "PARTIAL", "PARTIAL_CHAR"} -> PrologIncomplete(t)
    [] t.tok = "INVALID" -> Rejects("INVALID_TOKEN")
    [] t.more /\ haveMore -> Returns
    [] OTHER -> \E r \in {doProlog(dtd, prologState, t.tok, Upto(cur, t.next))} :
                  PrologEffect(r, t.next - 1)

\* The first token decides the encoding (prologInitProcessor).
Prolog ==
  /\ Runs("prologProcessor")
  /\ \E cur \in {Cur} :
       \E t \in {IF parsed = 0 THEN initScan(cur, 1) ELSE prologTok(cur, 1)} : PrologToken(cur, t)

-----------------------------------------------------------------------------
(* What handlers are told *)

StartEvent(name, atts) == [is |-> "start", of |-> name, atts |-> atts]
EndEvent(name) == [is |-> "end", of |-> name, atts |-> {}]
DataEvents(chars) == [k \in 1 .. Len(chars) |-> [is |-> "data", of |-> <<chars[k]>>, atts |-> {}]]

\* Handlers are told evs, one call ending at each of ends, and n symbols are used.
\* XML_StopParser in one of the calls makes the parser give up after the token.
Tells(evs, ends, n) ==
  /\ events' = events \o evs
  /\ \/ /\ Skip(n)
        /\ UNCHANGED <<stopped, parsing, errorCode, app>>
     \/ /\ MayStop
        /\ \E e \in ends : stopped' = Len(events) + e
        /\ parsing' = "FINISHED"
        /\ errorCode' = "ABORTED" /\ app' = "failed" /\ ReturnError
        /\ UNCHANGED open
  /\ UNCHANGED <<doc, prologState, dtd, finalBuffer>>

Then(p) == processor' = IF errorCode' = "NONE" THEN p ELSE "errorProcessor"

\* Character data.
Data(chars, n) ==
  /\ Tells(DataEvents(chars), {Len(chars)}, n)
  /\ Then(processor)
  /\ UNCHANGED <<tags, section>>

Nothing(n) ==
  /\ Skip(n)
  /\ UNCHANGED <<doc, processor, prologState, dtd, tags, section, parsing, finalBuffer,
                 errorCode, events, stopped, app>>

-----------------------------------------------------------------------------
(* Attributes: storeAtts without namespaces *)

\* Is the attribute, the first entry of the element with its name, declared as CDATA?
IsCdata(atts, name) ==
  name \notin dtd.maybeTokenized \/
    LET of == {k \in 1 .. Len(atts) : atts[k].id = name}
    IN  of = {} \/ atts[CHOOSE k \in of : \A j \in of : k <= j].isCdata

OpenNames == {open[k].name : k \in 1 .. Len(open)}

\* (mutant) every value is normalized as CDATA
ValueAsCdata(atts, att) ==
  IF att.normalized THEN [pool |-> att.value, error |-> "NONE"]
  ELSE storeAttributeValue(dtd, TRUE, att.value, OpenNames)

AttributeValue(atts, att) ==
  IF att.normalized THEN [pool |-> att.value, error |-> "NONE"]
  ELSE storeAttributeValue(dtd, IsCdata(atts, att.name), att.value, OpenNames)

Duplicate(specified, k) == \E j \in 1 .. k - 1 : specified[j].name = specified[k].name
AttError(specified, values, k) ==
  IF Duplicate(specified, k) THEN "DUPLICATE_ATTRIBUTE" ELSE values[k].error

\* Defaults are added for declared attributes that are not given.
Defaults(atts, specified) ==
  LET missing == {k \in 1 .. Len(atts) :
                    /\ atts[k].value # NULL
                    /\ \A j \in 1 .. Len(specified) : specified[j].name # atts[k].id}
  IN  {<<atts[k].id, atts[k].value[1]>> : k \in missing}

AllAtts(atts, specified, values, wrong) ==
  IF wrong # {}
  THEN [error |-> AttError(specified, values, CHOOSE k \in wrong : \A j \in wrong : k <= j), atts |-> {}]
  ELSE [error |-> "NONE",
        atts |-> {<<specified[k].name, values[k].pool>> : k \in 1 .. Len(specified)} \cup Defaults(atts, specified)]

CheckAtts(atts, specified, values) ==
  AllAtts(atts, specified, values, {k \in 1 .. Len(specified) : AttError(specified, values, k) # "NONE"})

AttsWith(atts, specified) ==
  The({CheckAtts(atts, specified, values) :
         values \in {[k \in 1 .. Len(specified) |-> AttributeValue(atts, specified[k])]}})

DefaultAtts(element) ==
  IF element \in DOMAIN dtd.elementTypes THEN dtd.elementTypes[element].defaultAtts ELSE <<>>

storeAtts(element, text) ==
  The({AttsWith(DefaultAtts(element), specified) : specified \in {getAtts(text, 1)}})

-----------------------------------------------------------------------------
(* Content: doContent *)

\* At the end of an entity the elements it opened are closed.
Complete(opened, level) ==
  IF opened # <<>> /\ opened[1].rest = <<>> /\ opened[1].startTagLevel # level
  THEN "ASYNC_ENTITY" ELSE "NONE"
\* (mutant) an entity that was read is read again
NeverFinished(opened) == opened
Finished(opened) ==
  IF opened # <<>> /\ opened[1].rest = <<>> THEN [opened EXCEPT ![1].hasMore = FALSE] ELSE opened

\* The end of the text, or a part of a token that may go on.
ContentEnd(t) ==
  CASE haveMore -> Returns
    [] t.tok = "PARTIAL" -> Rejects("UNCLOSED_TOKEN")
    [] t.tok = "PARTIAL_CHAR" -> Rejects("PARTIAL_CHAR")
    [] t.tok = "NONE" /\ open = <<>> -> Rejects("NO_ELEMENTS")
    [] t.tok = "NONE" /\ Complete(open, tagLevel) # "NONE" -> Rejects(Complete(open, tagLevel))
    [] OTHER ->
         /\ open' = Finished(open)
         /\ UNCHANGED <<bufferVars, doc, processor, prologState, dtd, tags, section, parsing,
                        finalBuffer, errorCode, events, stopped, app>>

\* A CR or brackets at the very end.  Their data is delivered, and then nothing asks
\* whether the handler has stopped the parser.
TrailingError == IF open = <<>> THEN "NO_ELEMENTS"
                 ELSE IF tagLevel # startTagLevel THEN "ASYNC_ENTITY" ELSE "NONE"
ContentTrailing(chars) ==
  IF haveMore THEN Returns
  ELSE /\ events' = events \o DataEvents(chars)
       /\ \/ UNCHANGED <<stopped, parsing>>
          \/ /\ MayStop
             /\ stopped' = Len(events) + Len(chars) /\ parsing' = "FINISHED"
       /\ IF TrailingError # "NONE" THEN Fails(TrailingError) /\ UNCHANGED open
          ELSE /\ open' = [open EXCEPT ![1].rest = <<>>, ![1].hasMore = FALSE]
               /\ UNCHANGED <<bufferVars, processor, errorCode, app>>
       /\ UNCHANGED <<doc, prologState, dtd, tags, section, finalBuffer>>

\* processEntity: the entity is read next, by internalEntityProcessor.  The one
\* around it is complete if the reference was the last thing in it.
OpenEntity(name, text, n) ==
  IF open # <<>> /\ Complete([open EXCEPT ![1].rest = From(@, n + 1)], tagLevel) # "NONE"
  THEN Rejects("ASYNC_ENTITY")
  ELSE /\ open' = <<[name |-> name, rest |-> text, hasMore |-> TRUE, startTagLevel |-> tagLevel]>>
                    \o (IF open = <<>> THEN <<>>
                        ELSE Finished([open EXCEPT ![1].rest = From(@, n + 1)]))
       /\ IF open = <<>> THEN Consume(n) ELSE UNCHANGED bufferVars
       /\ tags' = Stored
       /\ processor' = "internalEntityProcessor"
       /\ UNCHANGED <<doc, prologState, dtd, section, parsing, finalBuffer, errorCode, events,
                      stopped, app>>

DeclaredEntity(name, e, n) ==
  CASE name \in OpenNames -> Rejects("RECURSIVE_ENTITY_REF")
    [] e.notation # NULL -> Rejects("BINARY_ENTITY_REF")
    [] e.textPtr # NULL -> OpenEntity(name, e.textPtr[1], n)
    [] OTHER -> Nothing(n)   \* external: there is no handler for it

EntityRef(name, n) ==
  CASE name \in DOMAIN Predefined -> Data(<<Predefined[name]>>, n)
    [] name \in DOMAIN dtd.generalEntities -> DeclaredEntity(name, dtd.generalEntities[name], n)
    [] CheckDeclared(dtd) -> Rejects("UNDEFINED_ENTITY")
    [] OTHER -> Nothing(n)

TagName(text, i) == SubSeq(text, i, NameEnd(text, i) - 1)

StartTag(name, r, n) ==
  IF r.error # "NONE" THEN Rejects(r.error)
  ELSE /\ Tells(<<StartEvent(name, r.atts)>>, {1}, n)
       /\ tags' = Append(tags, [name |-> name, length |-> Len(name),
                                at |-> IF open = <<>> THEN bufferPtr + 1 ELSE Own,
                                rawName |-> IF open = <<>> THEN <<>> ELSE name])
       /\ Then(processor)
       /\ UNCHANGED section

\* The epilog follows the end of the root element.
AfterElement(level) == IF level = 0 THEN "epilogProcessor" ELSE processor

EmptyElement(name, r, n) ==
  IF r.error # "NONE" THEN Rejects(r.error)
  ELSE /\ Tells(<<StartEvent(name, r.atts), EndEvent(name)>>, {1, 2}, n)
       /\ Then(AfterElement(tagLevel))
       /\ UNCHANGED <<tags, section>>

EndTag(name, n) ==
  CASE tagLevel = startTagLevel -> Rejects("ASYNC_ENTITY")
    [] RawName(tags[tagLevel]) # name -> Rejects("TAG_MISMATCH")
    [] OTHER ->
         /\ Tells(<<EndEvent(tags[tagLevel].name)>>, {1}, n)
         /\ tags' = SubSeq(tags, 1, tagLevel - 1)
         /\ Then(AfterElement(tagLevel - 1))
         /\ UNCHANGED section

CharRef(number, n) ==
  IF BadNumber(number) THEN Rejects("BAD_CHAR_REF") ELSE Data(Encode(number), n)

CdataOpen(n) ==
  /\ Skip(n)
  /\ section' = TRUE
  /\ UNCHANGED <<doc, processor, prologState, dtd, tags, parsing, finalBuffer, errorCode,
                 events, stopped, app>>

\* A token of the content, its symbols text.
ContentToken(text, t, n) ==
  CASE t.tok = "INVALID" -> Rejects("INVALID_TOKEN")
    [] t.tok = "XML_DECL" -> Rejects("MISPLACED_XML_PI")
    [] t.tok \in {"PI", "COMMENT"} -> Nothing(n)
    [] t.tok = "DATA_CHARS" -> Data(text, n)
    [] t.tok = "DATA_NEWLINE" -> Data(<<"\n">>, n)
    [] t.tok = "CHAR_REF" -> CharRef(RefNumber(text), n)
    [] t.tok = "ENTITY_REF" -> EntityRef(Inside(text), n)
    [] t.tok \in {"START_TAG_NO_ATTS", "START_TAG_WITH_ATTS"} ->
         \E r \in {storeAtts(TagName(text, 2), text)} : StartTag(TagName(text, 2), r, n)
    [] t.tok \in {"EMPTY_ELEMENT_NO_ATTS", "EMPTY_ELEMENT_WITH_ATTS"} ->
         \E r \in {storeAtts(TagName(text, 2), text)} : EmptyElement(TagName(text, 2), r, n)
    [] t.tok = "END_TAG" -> EndTag(TagName(text, 3), n)
    [] t.tok = "CDATA_SECT_OPEN" -> CdataOpen(n)

ContentStep(cur, t) ==
  CASE t.tok \in {"NONE", "PARTIAL", "PARTIAL_CHAR"} -> ContentEnd(t)
    [] t.tok = "TRAILING_CR" -> ContentTrailing(<<"\n">>)
    [] t.tok = "TRAILING_RSQB" -> ContentTrailing(cur)
    [] OTHER -> \E text \in {Upto(cur, t.next)} : ContentToken(text, t, t.next - 1)

Content ==
  /\ ~section
  /\ Runs("contentProcessor") \/ (Runs("internalEntityProcessor") /\ open[1].hasMore)
  /\ \E cur \in {Cur} : \E t \in {contentTok(cur, 1)} : ContentStep(cur, t)

\* internalEntityProcessor takes an entity that was read off the list.
CloseEntity ==
  /\ Runs("internalEntityProcessor") /\ ~open[1].hasMore
  /\ open' = Tail(open)
  /\ processor' = IF Tail(open) = <<>> THEN "contentProcessor" ELSE processor
  /\ UNCHANGED <<bufferVars, doc, prologState, dtd, tags, section, parsing, finalBuffer,
                 errorCode, events, stopped, app>>

-----------------------------------------------------------------------------
(* CDATA sections: doCdataSection *)

CdataClose(n) ==
  /\ Skip(n)
  /\ section' = FALSE
  /\ processor' = IF processor = "cdataSectionProcessor" THEN "contentProcessor" ELSE processor
  /\ UNCHANGED <<doc, prologState, dtd, tags, parsing, finalBuffer, errorCode, events,
                 stopped, app>>

CdataToken(cur, t) ==
  CASE t.tok \in {"NONE", "PARTIAL", "PARTIAL_CHAR"} ->
         IF haveMore THEN Returns
         ELSE Rejects(IF t.tok = "PARTIAL_CHAR" THEN t.tok ELSE "UNCLOSED_CDATA_SECTION")
    [] t.tok = "INVALID" -> Rejects("INVALID_TOKEN")
    [] t.tok = "DATA_CHARS" -> Data(Upto(cur, t.next), t.next - 1)
    [] t.tok = "DATA_NEWLINE" -> Data(<<"\n">>, t.next - 1)
    [] t.tok = "CDATA_SECT_CLOSE" -> CdataClose(t.next - 1)

CdataSection ==
  /\ section
  /\ haveNow # Idle /\ parsing = "PARSING"
  /\ \E cur \in {Cur} : \E t \in {cdataSectionTok(cur, 1)} : CdataToken(cur, t)

-----------------------------------------------------------------------------
(* The epilog *)

EpilogToken(t) ==
  CASE t.tok = "NONE" -> Returns
    [] t.tok \in {"PROLOG_S", "PI", "COMMENT"} -> Nothing(t.next - 1)
    [] t.tok = "INVALID" -> Rejects("INVALID_TOKEN")
    [] t.tok \in {"PARTIAL", "PARTIAL_CHAR"} ->
         IF haveMore THEN Returns
         ELSE Rejects(IF t.tok = "PARTIAL" THEN "UNCLOSED_TOKEN" ELSE t.tok)
    [] OTHER -> Rejects("JUNK_AFTER_DOC_ELEMENT")

Epilog ==
  /\ Runs("epilogProcessor")
  /\ \E t \in {prologTok(Cur, 1)} : EpilogToken(t)

-----------------------------------------------------------------------------

\* callProcessor does not run the next processor when the parser has finished.
BreaksOff ==
  /\ haveNow # Idle /\ parsing = "FINISHED"
  /\ Returns

Step ==
  \/ GetBuffer \/ ParseBuffer
  \/ Prolog \/ Content \/ CloseEntity \/ CdataSection \/ Epilog
  \/ BreaksOff

\* The loop of the application has ended.
Over == app # "reading" /\ UNCHANGED vars

Next == (Step /\ odd' = ~odd) \/ Over

\* The application reads on until the end of the file, and a call returns.  This is
\* WF_vars(Next), with the condition for a Step written out: that one is possible
\* then is what the check for deadlocks shows.
Fairness == []<>(app # "reading") \/ []<><<Next>>_vars

Spec == Init /\ [][Next]_vars /\ Fairness
=============================================================================
