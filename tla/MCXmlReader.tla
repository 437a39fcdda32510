---------------------------- MODULE MCXmlReader ----------------------------
(***************************************************************************)
(* How an XML document is read, on two levels: expat makes calls of the    *)
(* handlers out of the input (MCXmlParse), and the handlers of coReadXML   *)
(* make a tree of objects out of the calls (CoXml).                        *)
(***************************************************************************)
EXTENDS MCXmlParse, CoXml, SequencesExt

VARIABLE part  \* which of the two the behaviour is about

\* bytes: a blank, a letter, and the two of a letter that is not ASCII
Pieces == {<<32>>, <<97>>, <<195, 164>>, <<32, 97>>}

allVars == <<vars, treeVars, part>>

ReaderInit ==
  /\ Init /\ TreeInit
  /\ part \in {"calls", "tree"}
  /\ part = "calls" => skip_white_space
  /\ part = "tree" => doc = CutOff

ReaderNext ==
  /\ UNCHANGED part
  /\ \/ part = "calls" /\ Next /\ UNCHANGED treeVars
     \/ part = "tree" /\ TreeNext /\ UNCHANGED vars
     \/ part = "tree" /\ expat \in {"failed", "done"} /\ UNCHANGED <<vars, treeVars>>

\* (see Fairness of XmlParse)
ReaderSpec ==
  /\ ReaderInit /\ [][ReaderNext]_allVars
  /\ part = "calls" => Fairness

----------------------------------------------------------------------------
(* The document that the elements stand for. *)

\* an element up to its end tag
RECURSIVE Tokens(_)
Tokens(n) ==
  <<StartToken(n)>> \o
  FlattenSeq([i \in DOMAIN kids[n] |->
    LET item == kids[n][i] IN
      IF item.kind = "element" THEN Append(Tokens(item.id), EndToken)
      ELSE [j \in DOMAIN item.bytes |-> ByteToken(item.bytes[j])]])

\* the elements built so far
Built ==
  CASE expat = "done" -> Append(Tokens(result), EndToken)
    [] DocumentComplete -> Append(Tokens(elements[1]), EndToken)
    [] OTHER -> FlattenSeq([i \in DOMAIN elements |-> Tokens(elements[i])])

\* white space of XML 1.0 (S)
WhiteSpace == {9, 10, 13, 32}

\* With skip_white_space white space need not be in the tree.
Significant(tokens) ==
  SelectSeq(tokens,
    LAMBDA t : ~(skip_white_space /\ t.tag = "byte" /\ t.of \in WhiteSpace))

\* The characters of the document are in the tree, in their elements, the pieces
\* of every text together and in order; with skip_white_space, but for white space
\* ('skip if this is just some white space string', dataHandler).  isAllWhiteSpace
\* takes more than that for white space where char is signed.
TextKept == ~is_error /\ expat # "failed" => Significant(Built) = Significant(document)

AsciiText == \A i \in DOMAIN document : document[i].tag = "byte" => document[i].of < 128

\* Without an error the tree is the document, exactly; with skip_white_space, up to
\* white space, if its text is ASCII (for other texts see TextKept).
DocumentRead == (skip_white_space => AsciiText) => TextKept

\* The loop of the application ends (MCXmlParse).
ParserEnds == part = "calls" => DocumentEnds
=============================================================================
