-------------------------------- MODULE CoXml --------------------------------
(***************************************************************************)
(* The XML reader (co/co_xml.c): expat calls startElement, dataHandler and *)
(* endElement, which build the tree of the document with a stack of        *)
(* elements.  An element is a vector: its name, the map of its attributes, *)
(* then texts and child elements.                                          *)
(*                                                                         *)
(* Of expat, which is in XmlParse, only the calls are here: the handlers   *)
(* of a well-formed document in the order of its tags, a text in pieces of *)
(* any size, until the document turns out not to be well-formed.           *)
(* XML_StopParser makes it give up, but the end of an empty-element tag    *)
(* and the rest of a text in another encoding are delivered before that,   *)
(* and at the end of an entity's text nothing says that it has given up.   *)
(*                                                                         *)
(* The name of an element is the number of its start tag, which is its     *)
(* address, too; a text is the sequence of its bytes.  Attributes are not  *)
(* told apart: their allocations are some of those that may fail.          *)
(***************************************************************************)
EXTENDS Integers, Sequences, FiniteSets

CONSTANTS
  NoDocument,  \* no document
  TextPieces,  \* the pieces of text, sequences of bytes
  COV_EXTEND,  \* a vector grows by that many elements
  MaxElements, \* bound: start tags
  MaxTexts,    \* bound: pieces of text
  HandlerOom   \* TRUE: an allocation may fail

VARIABLES
  kids,             \* kids[n]: the texts and children of element n, for those
                    \* that exist
  elements,         \* cx.v: the elements whose end has not come yet
  is_error,
  skip_white_space,
  expat,            \* what expat does next: "parse" the document; the "end" of
                    \* an empty-element tag; after XML_StopParser, more "data"
                    \* or "stop"; then coReadXML has "failed" or is "done"
  depth,            \* the start tags that wait for their end
  started,          \* the start tags so far
  texts,            \* the pieces of text so far
  document,         \* what the handlers were given before an error: tags and bytes
  result            \* what coReadXML returned

treeVars == <<kids, elements, is_error, skip_white_space, expat, depth, started,
              texts, document, result>>

ASSUME XmlAssumption ==
  /\ NoDocument \notin Nat
  /\ TextPieces \subseteq Seq(Nat)

-----------------------------------------------------------------------------
(* Elements *)

Element(n)  == [kind |-> "element", id |-> n]
TextItem(s) == [kind |-> "text", bytes |-> s]

Children(n) ==
  {m \in DOMAIN kids : \E i \in DOMAIN kids[n] : kids[n][i] = Element(m)}

\* what coDelete of element n frees
Tree(n) ==
  {m \in DOMAIN kids :
     \A S \in SUBSET DOMAIN kids :
       n \in S /\ (\A p \in S : Children(p) \subseteq S) => m \in S}

Top    == elements[Len(elements)]
Parent == elements[Len(elements) - 1]
Pop    == SubSeq(elements, 1, Len(elements) - 1)

\* does coVectorAdd to element n need memory?  It has a name and attributes, too.
Full(n) == (Len(kids[n]) + 2) % COV_EXTEND = 0

Added(n, item) == [kids EXCEPT ![n] = Append(@, item)]

\* XML_StopParser
Stop(next) == is_error' = TRUE /\ expat' = next

Tags(t) == document' = IF is_error' THEN document ELSE document \o t

-----------------------------------------------------------------------------
(* The handlers *)

StartToken(n) == [tag |-> "start", of |-> n]
EndToken      == [tag |-> "end", of |-> 0]
ByteToken(b)  == [tag |-> "byte", of |-> b]

\* the start tag of an element, or an empty-element tag; after an error
\* the new vector is deleted with what it has
startElement(empty) ==
  LET n == started + 1 IN
    /\ expat = "parse"
    /\ started < MaxElements
    /\ depth > 0 \/ started = 0
    /\ started' = n /\ depth' = depth + 1
    /\ \/ /\ kids' = [m \in DOMAIN kids \cup {n} |-> IF m = n THEN <<>> ELSE kids[m]]
          /\ elements' = Append(elements, n)
          /\ expat' = IF empty THEN "end" ELSE "parse"
          /\ UNCHANGED is_error
       \/ /\ HandlerOom
          /\ Stop(IF empty THEN "end" ELSE "stop")
          /\ UNCHANGED <<kids, elements>>
    /\ Tags(<<StartToken(n)>>)
    /\ UNCHANGED <<skip_white_space, texts, result>>

\* a byte as a char, which has a sign
Char(b) == IF b < 128 THEN b ELSE b - 256

isAllWhiteSpace(s) == \A i \in DOMAIN s : ~(Char(s[i]) > 32)

EndsWithText(n) ==
  kids[n] # <<>> /\ kids[n][Len(kids[n])].kind = "text"

\* the text goes on
AddToText(s) ==
  /\ EndsWithText(Top)
  /\ kids' = [kids EXCEPT ![Top][Len(kids[Top])].bytes = @ \o s]
  /\ UNCHANGED <<is_error, expat>>

\* (mutant: white space is always skipped)
AlwaysSkipText(s) ==
  /\ ~EndsWithText(Top)
  /\ isAllWhiteSpace(s)
  /\ UNCHANGED <<kids, is_error, expat>>

SkipText(s) ==
  /\ ~EndsWithText(Top)
  /\ skip_white_space /\ isAllWhiteSpace(s)
  /\ UNCHANGED <<kids, is_error, expat>>

AddText(s) ==
  /\ ~EndsWithText(Top)
  /\ ~(skip_white_space /\ isAllWhiteSpace(s))
  /\ kids' = Added(Top, TextItem(s))
  /\ UNCHANGED <<is_error, expat>>

TextFails(s) ==
  /\ HandlerOom
  /\ EndsWithText(Top) \/ ~(skip_white_space /\ isAllWhiteSpace(s))
  /\ Stop("data")
  /\ UNCHANGED kids

dataHandler(s) ==
  /\ expat \in {"parse", "data"}
  /\ depth > 0
  /\ texts < MaxTexts
  /\ texts' = texts + 1
  /\ AddToText(s) \/ SkipText(s) \/ AddText(s) \/ TextFails(s)
  /\ Tags([i \in DOMAIN s |-> ByteToken(s[i])])
  /\ UNCHANGED <<elements, skip_white_space, depth, started, result>>

\* (mutant: the element stays on the stack)
CloseFailsKeepsTop ==
  /\ HandlerOom /\ Full(Parent)
  /\ kids' = [m \in DOMAIN kids \ Tree(Top) |-> kids[m]]
  /\ Stop("stop")
  /\ UNCHANGED elements

\* the element cannot be added to its parent and is deleted
CloseFails ==
  /\ HandlerOom /\ Full(Parent)
  /\ kids' = [m \in DOMAIN kids \ Tree(Top) |-> kids[m]]
  /\ elements' = Pop
  /\ Stop("stop")

\* After an error the element that an empty-element tag could not add is not
\* there: the one it is in is moved to its parent.
CloseElement ==
  /\ kids' = Added(Parent, Element(Top))
  /\ elements' = Pop
  /\ expat' = IF is_error THEN "stop" ELSE "parse"
  /\ UNCHANGED is_error

\* the root stays; after an error the stack may be empty
KeepRoot ==
  /\ expat' = IF is_error THEN "stop" ELSE "parse"
  /\ UNCHANGED <<kids, elements, is_error>>

endElement ==
  /\ expat \in {"parse", "end"}
  /\ depth > 0
  /\ depth' = depth - 1
  /\ IF Len(elements) >= 2 THEN CloseElement \/ CloseFails ELSE KeepRoot
  /\ Tags(<<EndToken>>)
  /\ UNCHANGED <<skip_white_space, started, texts, result>>

-----------------------------------------------------------------------------
(* coReadXML *)

\* XML_ParseBuffer returns an error, after XML_StopParser and for a document that
\* is not well-formed, or XML_GetBuffer returns NULL: cx.v is left as it is
ReadFails ==
  /\ expat \in {"parse", "data", "stop"}
  /\ expat' = "failed"
  /\ UNCHANGED <<kids, elements, is_error, skip_white_space, depth, started, texts,
                 document, result>>

\* what coReadXML deletes after an error, from the stack on
DeleteStack == UNION {Tree(n) : n \in {elements[i] : i \in DOMAIN elements}}

\* XML_StopParser was called for the bracket that ends the text of an entity: the
\* call returns XML_STATUS_OK (see StopMeansError of MCXmlParse), and if it was
\* the last one, is_error is all that tells.
ReadStopped ==
  /\ expat = "data"
  /\ expat' = "failed"
  /\ kids' = [m \in DOMAIN kids \ DeleteStack |-> kids[m]]
  /\ elements' = <<>>
  /\ UNCHANGED <<is_error, skip_white_space, depth, started, texts, document, result>>

\* The document is complete.
DocumentComplete == expat = "parse" /\ depth = 0 /\ started > 0

\* the stack is deleted, the root is not
ReadReturns ==
  /\ DocumentComplete
  /\ expat' = "done"
  /\ result' = elements[1]
  /\ elements' = <<>>
  /\ UNCHANGED <<kids, is_error, skip_white_space, depth, started, texts, document>>

TreeInit ==
  /\ kids = [n \in {} |-> <<>>] /\ elements = <<>>
  /\ is_error = FALSE
  /\ skip_white_space \in BOOLEAN
  /\ expat = "parse" /\ depth = 0 /\ started = 0 /\ texts = 0
  /\ document = <<>>
  /\ result = NoDocument

TreeNext ==
  \/ \E empty \in BOOLEAN : startElement(empty)
  \/ \E s \in TextPieces : dataHandler(s)
  \/ endElement
  \/ ReadFails
  \/ ReadStopped
  \/ ReadReturns

TreeSpec == TreeInit /\ [][TreeNext]_treeVars

-----------------------------------------------------------------------------
(* Properties *)

\* the places that own element n: the result, the stack, other elements
Owners(n) ==
  {<<0, 0>> : r \in {result} \cap {n}}
  \cup {<<0, i>> : i \in {j \in DOMAIN elements : elements[j] = n}}
  \cup UNION {{<<m, i>> : i \in {j \in DOMAIN kids[m] : kids[m][j] = Element(n)}} :
                m \in DOMAIN kids}

\* Every element has one owner, and what is owned exists, whatever allocations
\* fail and whatever expat still delivers after XML_StopParser; at the end of the
\* document only the root is on the stack (the assertion in coReadXML).
EachOwnedOnce ==
  /\ \A n \in DOMAIN kids : \E p \in Owners(n) : Owners(n) = {p}
  /\ \A n \in 1 .. started : Owners(n) # {} => n \in DOMAIN kids
  /\ DocumentComplete => Len(elements) = 1
=============================================================================
