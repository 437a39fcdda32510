------------------------------ MODULE XmlProof ------------------------------
(***************************************************************************)
(* Proofs about XmlBuffer: for every size of the buffer, of a request and  *)
(* of the context, and for every sequence of calls, XML_GetBuffer loses    *)
(* and alters no byte that is still to be parsed, and the caller is never  *)
(* given room that is not there.                                           *)
(*                                                                         *)
(* Then proofs about CoXml: for documents of any depth and size, every     *)
(* element of the tree that coReadXML builds has one owner.                *)
(***************************************************************************)
EXTENDS XmlBuffer, CoXml, SequenceTheorems, TLAPS

\* The inductive invariant: every byte before bufferEnd, parsed or not, is the
\* byte given at the same distance, and as much context as there is is there.
Types ==
  /\ bufferLim \in Nat /\ bufferPtr \in Nat /\ bufferEnd \in Nat
  /\ room \in Nat /\ parsed \in Nat /\ given \in Seq(Byte)

Context ==
  /\ Len(given) = parsed + NotParsed
  /\ bufferPtr <= parsed
  /\ Least(parsed, XML_CONTEXT_BYTES) <= bufferPtr

Bytes == \A j \in 0 .. bufferEnd - 1 : buffer[j] = given[parsed - bufferPtr + j + 1]

Inv == Types /\ PointersInOrder /\ Context /\ Bytes

-----------------------------------------------------------------------------
(* Initial state *)

LEMMA InitInv == BufferInit => Inv
<1> SUFFICES ASSUME BufferInit PROVE Inv
  OBVIOUS
<1>1. Types
  BY DEF BufferInit, Types
<1>2. PointersInOrder
  BY DEF BufferInit, PointersInOrder
<1>3. Context
  BY BufferAssumption DEF BufferInit, Context, NotParsed, Least
<1>4. Bytes
  BY DEF BufferInit, Bytes
<1> QED BY <1>1, <1>2, <1>3, <1>4 DEF Inv

-----------------------------------------------------------------------------
(* XML_GetBuffer *)

\* How much of the parsed bytes is kept.
LEMMA KeepType ==
  ASSUME Inv
  PROVE  /\ keep \in Nat /\ keep <= bufferPtr /\ keep <= parsed
         /\ Least(parsed, XML_CONTEXT_BYTES) <= keep
  BY BufferAssumption DEF Inv, Types, Context, keep, Least

\* Moving the bytes to the start of a buffer that is large enough keeps the invariant.
LEMMA MoveKeepsInv ==
  ASSUME Inv, NEW len \in Nat, NEW size \in Nat, neededSize(len) <= size,
         buffer' = Moved(bufferPtr - keep, NotParsed + keep, size),
         bufferLim' = size, bufferEnd' = NotParsed + keep, bufferPtr' = keep,
         room' = len, UNCHANGED <<given, parsed>>
  PROVE  Inv'
<1>1. /\ keep \in Nat /\ keep <= bufferPtr /\ keep <= parsed
      /\ Least(parsed, XML_CONTEXT_BYTES) <= keep
  BY KeepType
<1>2. NotParsed \in Nat /\ bufferEnd = bufferPtr + NotParsed
  BY DEF Inv, Types, PointersInOrder, NotParsed
<1>3. Types'
  BY <1>1, <1>2 DEF Inv, Types
<1>4. PointersInOrder'
  BY <1>1, <1>2 DEF PointersInOrder, neededSize
<1>5. Context'
  BY <1>1, <1>2 DEF Inv, Types, Context, NotParsed
<1>6. Bytes'
  <2> SUFFICES ASSUME NEW j \in 0 .. bufferEnd' - 1
               PROVE  buffer'[j] = given'[parsed' - bufferPtr' + j + 1]
    BY DEF Bytes
  <2>1. j \in 0 .. size - 1 /\ j < NotParsed + keep
    BY <1>1, <1>2 DEF neededSize
  <2>2. buffer'[j] = buffer[bufferPtr - keep + j]
    BY <2>1 DEF Moved
  <2>3. bufferPtr - keep + j \in 0 .. bufferEnd - 1
    BY <1>1, <1>2, <2>1 DEF Inv, Types
  <2>4. buffer[bufferPtr - keep + j] = given[parsed - bufferPtr + (bufferPtr - keep + j) + 1]
    BY <2>3 DEF Inv, Bytes
  <2>5. parsed - bufferPtr + (bufferPtr - keep + j) + 1 = parsed - keep + j + 1
    BY <1>1 DEF Inv, Types
  <2> QED BY <2>2, <2>4, <2>5
<1> QED BY <1>3, <1>4, <1>5, <1>6 DEF Inv

LEMMA GetBufferInv ==
  ASSUME Inv, XML_GetBuffer(BUFSIZ)
  PROVE  Inv'
<1>0. BUFSIZ \in Nat /\ UNCHANGED <<given, parsed>>
  BY BufferAssumption DEF XML_GetBuffer
<1>1. CASE InPlace(BUFSIZ)
  <2>1. UNCHANGED <<buffer, bufferLim, bufferPtr, bufferEnd, given, parsed>>
    BY <1>0, <1>1 DEF InPlace
  <2>2. room' = BUFSIZ /\ BUFSIZ <= bufferLim - bufferEnd
    BY <1>1 DEF InPlace, HasRoom
  <2> QED BY <1>0, <2>1, <2>2 DEF Inv, Types, PointersInOrder, Context, Bytes, NotParsed
<1>2. CASE MoveDown(BUFSIZ)
  <2>1. bufferLim \in Nat
    BY DEF Inv, Types
  <2> QED BY <1>0, <1>2, <2>1, MoveKeepsInv DEF MoveDown
<1>3. CASE Enlarge(BUFSIZ)
  <2>1. PICK size \in Sizes(neededSize(BUFSIZ)) :
          /\ buffer' = Moved(bufferPtr - keep, NotParsed + keep, size)
          /\ bufferLim' = size
    BY <1>3 DEF Enlarge
  <2>2. size \in Nat /\ neededSize(BUFSIZ) <= size
    <3>1. neededSize(BUFSIZ) \in Int
      BY <1>0, KeepType DEF neededSize, Inv, Types, NotParsed
    <3> QED BY <3>1, BufferAssumption DEF Sizes
  <2> QED BY <1>0, <1>3, <2>1, <2>2, MoveKeepsInv DEF Enlarge
<1>4. CASE NoBuffer(BUFSIZ)
  <2>1. /\ UNCHANGED <<buffer, bufferLim, bufferPtr, bufferEnd, given, parsed>>
        /\ room' = 0
    BY <1>0, <1>4 DEF NoBuffer
  <2> QED BY <2>1 DEF Inv, Types, PointersInOrder, Context, Bytes, NotParsed
<1> QED BY <1>1, <1>2, <1>3, <1>4 DEF XML_GetBuffer

-----------------------------------------------------------------------------
(* XML_ParseBuffer *)

LEMMA TakeOverInv ==
  ASSUME Inv, NEW data \in Seq(Byte), NEW isFinal \in BOOLEAN, TakeOver(data, isFinal)
  PROVE  Inv'
<1>1. /\ Len(data) \in Nat /\ Len(data) <= room
      /\ UNCHANGED <<bufferLim, bufferPtr, parsed>>
      /\ bufferEnd' = bufferEnd + Len(data)
      /\ given' = given \o data /\ room' = 0
      /\ buffer' = [j \in 0 .. bufferLim - 1 |->
                      IF j \in bufferEnd .. bufferEnd + Len(data) - 1
                      THEN data[j - bufferEnd + 1] ELSE buffer[j]]
  BY DEF TakeOver
<1>2. /\ given' \in Seq(Byte) /\ Len(given') = Len(given) + Len(data)
      /\ \A k \in 1 .. Len(given) : given'[k] = given[k]
      /\ \A k \in 1 .. Len(data) : given'[Len(given) + k] = data[k]
  BY <1>1 DEF Inv, Types
<1>3. Types'
  BY <1>1, <1>2 DEF Inv, Types
<1>4. PointersInOrder'
  BY <1>1 DEF Inv, Types, PointersInOrder
<1>5. Context'
  BY <1>1, <1>2 DEF Inv, Types, Context, NotParsed
<1>6. Bytes'
  <2> SUFFICES ASSUME NEW j \in 0 .. bufferEnd' - 1
               PROVE  buffer'[j] = given'[parsed' - bufferPtr' + j + 1]
    BY DEF Bytes
  <2>0. Len(given) = parsed - bufferPtr + bufferEnd /\ bufferPtr <= parsed
    BY DEF Inv, Types, Context, NotParsed
  <2>1. j \in 0 .. bufferLim - 1
    BY <1>1 DEF Inv, Types, PointersInOrder
  <2>2. CASE j < bufferEnd
    <3>0. j \in 0 .. bufferEnd - 1
      BY <2>1, <2>2 DEF Inv, Types
    <3>1. buffer'[j] = buffer[j]
      BY <1>1, <2>1, <2>2 DEF Inv, Types
    <3>2. buffer[j] = given[parsed - bufferPtr + j + 1]
      BY <3>0 DEF Inv, Bytes
    <3>3. parsed - bufferPtr + j + 1 \in 1 .. Len(given)
      BY <2>0, <2>2 DEF Inv, Types
    <3> QED BY <1>1, <1>2, <3>1, <3>2, <3>3
  <2>3. CASE j >= bufferEnd
    <3>1. j - bufferEnd + 1 \in 1 .. Len(data)
      BY <1>1, <2>3 DEF Inv, Types
    <3>2. buffer'[j] = data[j - bufferEnd + 1]
      BY <1>1, <2>1, <2>3 DEF Inv, Types
    <3>3. Len(given) + (j - bufferEnd + 1) = parsed - bufferPtr + j + 1
      BY <2>0 DEF Inv, Types
    <3>4. given'[Len(given) + (j - bufferEnd + 1)] = data[j - bufferEnd + 1]
      BY <1>2, <3>1
    <3> QED BY <1>1, <3>2, <3>3, <3>4
  <2> QED BY <2>2, <2>3 DEF Inv, Types
<1> QED BY <1>3, <1>4, <1>5, <1>6 DEF Inv

LEMMA ConsumeInv ==
  ASSUME Inv, NEW n \in 0 .. NotParsed, Consume(n)
  PROVE  Inv'
<1>1. /\ bufferPtr' = bufferPtr + n /\ parsed' = parsed + n
      /\ UNCHANGED <<buffer, bufferLim, bufferEnd, room, given>>
  BY DEF Consume
<1>2. n \in Nat /\ n <= bufferEnd - bufferPtr
  BY DEF Inv, Types, NotParsed
<1>3. Types'
  BY <1>1, <1>2 DEF Inv, Types
<1>4. PointersInOrder'
  BY <1>1, <1>2 DEF Inv, Types, PointersInOrder
<1>5. Context'
  BY <1>1, <1>2, BufferAssumption DEF Inv, Types, Context, NotParsed, Least
<1>6. Bytes'
  <2>1. parsed' - bufferPtr' = parsed - bufferPtr
    BY <1>1, <1>2 DEF Inv, Types
  <2> QED BY <1>1, <2>1 DEF Inv, Bytes
<1> QED BY <1>3, <1>4, <1>5, <1>6 DEF Inv

\* Every step keeps the invariant.
LEMMA NextInv == Inv /\ [BufferNext]_bufferVars => Inv'
<1> SUFFICES ASSUME Inv, [BufferNext]_bufferVars PROVE Inv'
  OBVIOUS
<1>1. CASE XML_GetBuffer(BUFSIZ)
  BY <1>1, GetBufferInv
<1>2. ASSUME NEW data \in Chunk, NEW isFinal \in BOOLEAN, TakeOver(data, isFinal)
      PROVE  Inv'
  BY <1>2, TakeOverInv, BufferAssumption
<1>3. ASSUME NEW n \in 0 .. NotParsed, Consume(n)
      PROVE  Inv'
  BY <1>3, ConsumeInv
<1>4. CASE Return
  BY <1>4 DEF Return, Inv, Types, PointersInOrder, Context, Bytes, NotParsed
<1>5. CASE ReturnError
  BY <1>5 DEF ReturnError, Inv, Types, PointersInOrder, Context, Bytes, NotParsed
<1>6. CASE UNCHANGED bufferVars
  BY <1>6 DEF bufferVars, Inv, Types, PointersInOrder, Context, Bytes, NotParsed
<1> QED BY <1>1, <1>2, <1>3, <1>4, <1>5, <1>6 DEF BufferNext

\* The bytes the application reads next, and those an error message shows.
LEMMA InvBytesKept == Inv => BytesKept
<1> SUFFICES ASSUME Inv PROVE BytesKept
  OBVIOUS
<1>1. ASSUME NEW j \in 0 .. NotParsed - 1
      PROVE  buffer[bufferPtr + j] = given[parsed + j + 1]
  <2>1. bufferPtr + j \in 0 .. bufferEnd - 1
    BY DEF Inv, Types, PointersInOrder, NotParsed
  <2>2. parsed - bufferPtr + (bufferPtr + j) + 1 = parsed + j + 1
    BY DEF Inv, Types
  <2> QED BY <2>1, <2>2 DEF Inv, Bytes
<1>2. ASSUME NEW j \in 1 .. Least(parsed, XML_CONTEXT_BYTES)
      PROVE  bufferPtr - j >= 0 /\ buffer[bufferPtr - j] = given[parsed - j + 1]
  <2>0. Least(parsed, XML_CONTEXT_BYTES) \in Nat
    BY BufferAssumption DEF Inv, Types, Least
  <2>1. bufferPtr - j \in 0 .. bufferEnd - 1
    BY <2>0 DEF Inv, Types, PointersInOrder, Context
  <2>2. parsed - bufferPtr + (bufferPtr - j) + 1 = parsed - j + 1
    BY <2>0 DEF Inv, Types
  <2> QED BY <2>1, <2>2 DEF Inv, Bytes
<1>3. Len(given) = parsed + NotParsed
  BY DEF Inv, Context
<1> QED BY <1>1, <1>2, <1>3 DEF BytesKept

-----------------------------------------------------------------------------
(* The buffer keeps what it was given, whatever the calls. *)

\* Whatever calls of XML_GetBuffer and XML_ParseBuffer an application makes: the
\* pointers keep their order, there is never room beyond bufferLim, and of the bytes
\* that are to be parsed none is lost, altered or read twice when they are moved.
THEOREM BufferAlwaysSound == BufferSpec => []BufferSound
<1>1. Inv => BufferSound
  BY InvBytesKept DEF Inv, BufferSound
<1> QED BY InitInv, NextInv, <1>1, PTL DEF BufferSpec

-----------------------------------------------------------------------------
(* The tree of a document *)

\* What an element holds.
Item == {Element(n) : n \in Nat} \cup {TextItem(s) : s \in Seq(Nat)}

\* What is on the stack exists.
TreeTyped ==
  /\ started \in Nat /\ depth \in Nat
  /\ DOMAIN kids \subseteq 1 .. started
  /\ kids \in [DOMAIN kids -> Seq(Item)]
  /\ elements \in Seq(DOMAIN kids)
  /\ result \in DOMAIN kids \cup {NoDocument}

ChildrenExist ==
  \A m \in DOMAIN kids : \A i \in DOMAIN kids[m] : \A n \in Nat :
    kids[m][i] = Element(n) => n \in DOMAIN kids

\* An element is on the stack once, a child once, or the result.
StackDistinct ==
  \A i, j \in DOMAIN elements : elements[i] = elements[j] => i = j

ChildrenDistinct ==
  \A m, p \in DOMAIN kids : \A i \in DOMAIN kids[m], j \in DOMAIN kids[p] : \A n \in Nat :
    kids[m][i] = Element(n) /\ kids[p][j] = Element(n) => m = p /\ i = j

RootsApart ==
  /\ \A m \in DOMAIN kids : \A i \in DOMAIN kids[m] : \A n \in Nat :
       kids[m][i] = Element(n) =>
         n # result /\ \A j \in DOMAIN elements : elements[j] # n
  /\ result # NoDocument => expat = "done" /\ elements = <<>>

\* the three places an element can be in (Owners of CoXml)
HasOwner(n) ==
  \/ result = n
  \/ \E i \in DOMAIN elements : elements[i] = n
  \/ \E m \in DOMAIN kids : \E i \in DOMAIN kids[m] : kids[m][i] = Element(n)

EachHasOwner == \A n \in DOMAIN kids : HasOwner(n)

TreeShape ==
  ChildrenExist /\ StackDistinct /\ ChildrenDistinct /\ RootsApart /\ EachHasOwner

\* While nothing has failed, every start tag that waits has its element on the
\* stack; the root stays there when its end has come.  A text has an element.
StackFits ==
  /\ expat = "parse" => ~is_error
  /\ expat \in {"parse", "end"} /\ ~is_error =>
       Len(elements) = IF depth = 0 /\ started > 0 THEN 1 ELSE depth
  /\ expat = "data" => elements # <<>>

XmlInv == TreeTyped /\ TreeShape /\ StackFits

-----------------------------------------------------------------------------

\* An item tells which element it is, and that it is none.
LEMMA ItemsApart ==
  /\ \A n, m \in Nat : Element(n) = Element(m) => n = m
  /\ \A n \in Nat, s \in Seq(Nat) : TextItem(s) # Element(n)
<1>1. ASSUME NEW n \in Nat, NEW m \in Nat, Element(n) = Element(m) PROVE n = m
  <2>1. Element(n).id = Element(m).id
    BY <1>1
  <2> QED BY <2>1 DEF Element
<1>2. ASSUME NEW n \in Nat, NEW s \in Seq(Nat) PROVE TextItem(s) # Element(n)
  <2>1. TextItem(s).kind # Element(n).kind
    BY DEF TextItem, Element
  <2> QED BY <2>1
<1> QED BY <1>1, <1>2

\* A sequence over one set whose elements are all in another.
LEMMA SeqIn ==
  ASSUME NEW S, NEW T, NEW s \in Seq(S), \A i \in 1 .. Len(s) : s[i] \in T
  PROVE  s \in Seq(T)
<1>1. s \in [1 .. Len(s) -> T] /\ Len(s) \in Nat
  BY LenProperties
<1> QED BY <1>1, SeqDef

\* The first elements of a sequence.
LEMMA PrefixIs ==
  ASSUME NEW S, NEW s \in Seq(S), NEW j \in 0 .. Len(s)
  PROVE  /\ SubSeq(s, 1, j) \in Seq(S) /\ Len(SubSeq(s, 1, j)) = j
         /\ \A i \in 1 .. j : SubSeq(s, 1, j)[i] = s[i]
<1>1. Len(s) \in Nat /\ 1 \in 1 .. Len(s) + 1
  BY LenProperties
<1>2. /\ SubSeq(s, 1, j) \in Seq(S) /\ Len(SubSeq(s, 1, j)) = IF 1 <= j THEN j - 1 + 1 ELSE 0
      /\ \A i \in 1 .. j - 1 + 1 : SubSeq(s, 1, j)[i] = s[1 + i - 1]
  BY <1>1, SubSeqProperties
<1>3. /\ (IF 1 <= j THEN j - 1 + 1 ELSE 0) = j /\ j - 1 + 1 = j
      /\ \A i \in 1 .. j : 1 + i - 1 = i
  BY <1>1
<1>4. \A i \in 1 .. j : SubSeq(s, 1, j)[i] = s[i]
  BY <1>2, <1>3
<1> QED BY <1>2, <1>3, <1>4

\* A text that goes on is a text.
LEMMA TextChanged ==
  ASSUME NEW s, NEW t PROVE [TextItem(s) EXCEPT !.bytes = t] = TextItem(t)
<1> DEFINE r == [TextItem(s) EXCEPT !.bytes = t]
<1>1. DOMAIN r = {"kind", "bytes"} /\ r.kind = "text" /\ r.bytes = t
  BY DEF TextItem
<1>2. r = [f \in {"kind", "bytes"} |-> r[f]]
  BY DEF TextItem
<1>3. TextItem(t) = [f \in {"kind", "bytes"} |-> TextItem(t)[f]]
  BY DEF TextItem
<1>4. TextItem(t).kind = "text" /\ TextItem(t).bytes = t
  BY DEF TextItem
<1>5. r = TextItem(t)
  <2> HIDE DEF r
  <2>1. \A f \in {"kind", "bytes"} : r[f] = TextItem(t)[f]
    BY <1>1, <1>4
  <2> QED BY <1>2, <1>3, <2>1
<1> QED BY <1>5

LEMMA TreeInitInv == TreeInit => XmlInv
<1> SUFFICES ASSUME TreeInit PROVE XmlInv
  OBVIOUS
<1>1. DOMAIN kids = {} /\ kids \in [DOMAIN kids -> Seq(Item)]
  BY DEF TreeInit
<1>2. /\ elements = <<>> /\ elements \in Seq(DOMAIN kids) /\ Len(elements) = 0
      /\ DOMAIN elements = {}
  BY DEF TreeInit
<1>3. TreeTyped
  BY <1>1, <1>2 DEF TreeInit, TreeTyped
<1>4. TreeShape
  BY <1>1, <1>2
  DEF TreeInit, TreeShape, ChildrenExist, StackDistinct, ChildrenDistinct, RootsApart,
      EachHasOwner
<1>5. StackFits
  BY <1>2 DEF TreeInit, StackFits
<1> QED BY <1>3, <1>4, <1>5 DEF XmlInv

-----------------------------------------------------------------------------
(* Deleting *)

\* What the deletion of an element frees: the element, and the children of what it frees.
LEMMA TreeIs ==
  ASSUME NEW n \in DOMAIN kids
  PROVE  /\ n \in Tree(n) /\ Tree(n) \subseteq DOMAIN kids
         /\ \A p \in Tree(n) : Children(p) \subseteq Tree(n)
         /\ \A m \in Tree(n) : m = n \/ \E p \in Tree(n) : m \in Children(p)
<1> DEFINE Closed(S) == n \in S /\ \A p \in S : Children(p) \subseteq S
<1>1. \A m : m \in Tree(n) <=>
        m \in DOMAIN kids /\ \A S \in SUBSET DOMAIN kids : Closed(S) => m \in S
  BY DEF Tree
<1>2. \A p : Children(p) \subseteq DOMAIN kids
  BY DEF Children
<1>3. n \in Tree(n) /\ Tree(n) \subseteq DOMAIN kids
  BY <1>1
<1>4. ASSUME NEW p \in Tree(n), NEW c \in Children(p) PROVE c \in Tree(n)
  <2>1. ASSUME NEW S \in SUBSET DOMAIN kids, Closed(S) PROVE c \in S
    <3>1. p \in S
      BY <1>1, <2>1
    <3> QED BY <3>1, <2>1, <1>4
  <2> HIDE DEF Closed
  <2> QED BY <1>1, <1>2, <2>1, <1>4
<1>5. ASSUME NEW m \in Tree(n), m # n, \A p \in Tree(n) : m \notin Children(p) PROVE FALSE
  <2> DEFINE S == Tree(n) \ {m}
  <2>1. S \in SUBSET DOMAIN kids
    BY <1>3
  <2>2. Closed(S)
    BY <1>3, <1>4, <1>5
  <2>3. m \in S
    <3> HIDE DEF S, Closed
    <3> QED BY <1>1, <2>1, <2>2
  <2> QED BY <2>3
<1> QED BY <1>3, <1>4, <1>5

\* A set that has all children of its elements, and nothing else but what leaves the
\* stack, may be deleted.
LEMMA DeletedInv ==
  ASSUME TreeTyped, TreeShape, result = NoDocument,
         NEW j \in 0 .. Len(elements), NEW D \in SUBSET DOMAIN kids,
         \A i \in j + 1 .. Len(elements) : elements[i] \in D,
         \A p \in D : \A i \in DOMAIN kids[p] : \A n \in Nat :
           kids[p][i] = Element(n) => n \in D,
         \A n \in D :
           \/ \E i \in j + 1 .. Len(elements) : elements[i] = n
           \/ \E p \in D : \E i \in DOMAIN kids[p] : kids[p][i] = Element(n),
         kids' = [m \in DOMAIN kids \ D |-> kids[m]],
         elements' = SubSeq(elements, 1, j), UNCHANGED <<result, started>>, depth' \in Nat
  PROVE  TreeTyped' /\ TreeShape'
<1> USE DEF TreeTyped
<1>1. /\ DOMAIN kids' = DOMAIN kids \ D /\ \A m \in DOMAIN kids' : kids'[m] = kids[m]
      /\ DOMAIN kids \subseteq Nat
  OBVIOUS
<1>2. /\ Len(elements) \in Nat /\ Len(elements') = j /\ DOMAIN elements' = 1 .. j
      /\ \A i \in 1 .. j : elements'[i] = elements[i]
      /\ DOMAIN elements = 1 .. Len(elements)
      /\ \A i \in 1 .. Len(elements) : elements[i] \in DOMAIN kids
      /\ elements' \in Seq(DOMAIN kids)
  <2>1. /\ Len(elements) \in Nat /\ DOMAIN elements = 1 .. Len(elements)
        /\ \A i \in 1 .. Len(elements) : elements[i] \in DOMAIN kids
    BY LenProperties, ElementOfSeq
  <2>2. /\ elements' \in Seq(DOMAIN kids) /\ Len(elements') = j
        /\ \A i \in 1 .. j : elements'[i] = elements[i]
    BY <2>1, PrefixIs
  <2>3. DOMAIN elements' = 1 .. j
    BY <2>2
  <2> QED BY <2>1, <2>2, <2>3
<1>3. ASSUME NEW i \in 1 .. j PROVE elements[i] \notin D
  <2>1. SUFFICES ASSUME elements[i] \in D PROVE FALSE
    OBVIOUS
  <2>2. ~ \E k \in j + 1 .. Len(elements) : elements[k] = elements[i]
    BY <1>2 DEF TreeShape, StackDistinct
  <2>3. ~ \E p \in D : \E k \in DOMAIN kids[p] : kids[p][k] = Element(elements[i])
    BY <1>1, <1>2 DEF TreeShape, RootsApart
  <2> QED BY <2>1, <2>2, <2>3
<1>4. elements' \in Seq(DOMAIN kids')
  <2>1. \A i \in 1 .. Len(elements') : elements'[i] \in DOMAIN kids'
    BY <1>1, <1>2, <1>3
  <2> QED BY <2>1, <1>2, SeqIn
<1>5. kids' \in [DOMAIN kids' -> Seq(Item)] /\ DOMAIN kids' \subseteq 1 .. started
  BY <1>1
<1>6. TreeTyped'
  BY <1>4, <1>5
<1>7. ASSUME NEW m \in DOMAIN kids', NEW i \in DOMAIN kids'[m], NEW n \in Nat,
             kids'[m][i] = Element(n)
      PROVE  n \in DOMAIN kids'
  <2>1. m \in DOMAIN kids \ D /\ kids[m][i] = Element(n) /\ i \in DOMAIN kids[m]
    BY <1>1, <1>7
  <2>2. n \in DOMAIN kids
    BY <2>1 DEF TreeShape, ChildrenExist
  <2>3. n \notin D
    <3>1. ~ \E k \in j + 1 .. Len(elements) : elements[k] = n
      BY <1>2, <2>1 DEF TreeShape, RootsApart
    <3>2. ~ \E p \in D : \E k \in DOMAIN kids[p] : kids[p][k] = Element(n)
      BY <2>1 DEF TreeShape, ChildrenDistinct
    <3> QED BY <3>1, <3>2
  <2> QED BY <1>1, <2>2, <2>3
<1>8. ChildrenExist'
  BY <1>7 DEF ChildrenExist
<1>9. StackDistinct'
  <2>1. 1 .. j \subseteq DOMAIN elements
    BY <1>2
  <2>2. \A i, k \in 1 .. j : elements[i] = elements[k] => i = k
    BY <2>1 DEF TreeShape, StackDistinct
  <2> QED BY <2>2, <1>2 DEF StackDistinct
<1>10. ChildrenDistinct'
  <2>1. ASSUME NEW m \in DOMAIN kids', NEW p \in DOMAIN kids',
               NEW i \in DOMAIN kids'[m], NEW k \in DOMAIN kids'[p], NEW n \in Nat,
               kids'[m][i] = Element(n), kids'[p][k] = Element(n)
        PROVE  m = p /\ i = k
    <3>1. /\ m \in DOMAIN kids /\ i \in DOMAIN kids[m] /\ kids[m][i] = Element(n)
          /\ p \in DOMAIN kids /\ k \in DOMAIN kids[p] /\ kids[p][k] = Element(n)
      BY <1>1, <2>1
    <3> QED BY <3>1 DEF TreeShape, ChildrenDistinct
  <2> QED BY <2>1 DEF ChildrenDistinct
<1>11. RootsApart'
  <2>1. ASSUME NEW m \in DOMAIN kids', NEW i \in DOMAIN kids'[m], NEW n \in Nat,
               kids'[m][i] = Element(n)
        PROVE  n # result' /\ \A k \in DOMAIN elements' : elements'[k] # n
    <3>1. m \in DOMAIN kids /\ kids[m][i] = Element(n) /\ i \in DOMAIN kids[m]
      BY <1>1, <2>1
    <3>2. n # result /\ \A k \in DOMAIN elements : elements[k] # n
      BY <3>1 DEF TreeShape, RootsApart
    <3>3. ASSUME NEW k \in DOMAIN elements' PROVE elements'[k] # n
      <4>1. k \in 1 .. j /\ elements'[k] = elements[k]
        BY <1>2
      <4>2. k \in DOMAIN elements
        BY <4>1, <1>2
      <4> QED BY <4>1, <4>2, <3>2
    <3> QED BY <3>2, <3>3
  <2>2. result' = NoDocument
    OBVIOUS
  <2> QED BY <2>1, <2>2 DEF RootsApart
<1>12. ASSUME NEW n \in DOMAIN kids' PROVE HasOwner(n)'
  <2>1. n \in DOMAIN kids /\ n \notin D /\ n # result /\ n \in Nat
    BY <1>1, XmlAssumption
  <2>2. HasOwner(n)
    BY <2>1 DEF TreeShape, EachHasOwner
  <2>3. CASE \E i \in DOMAIN elements : elements[i] = n
    <3>1. PICK i \in 1 .. Len(elements) : elements[i] = n
      BY <2>3, <1>2
    <3>2. i \in 1 .. j
      BY <3>1, <2>1
    <3>3. \E k \in DOMAIN elements' : elements'[k] = n
      BY <3>1, <3>2, <1>2
    <3> QED BY <3>3 DEF HasOwner
  <2>4. CASE \E m \in DOMAIN kids : \E i \in DOMAIN kids[m] : kids[m][i] = Element(n)
    <3>1. PICK m \in DOMAIN kids : \E i \in DOMAIN kids[m] : kids[m][i] = Element(n)
      BY <2>4
    <3>2. m \notin D
      BY <3>1, <2>1
    <3>3. \E p \in DOMAIN kids' : \E k \in DOMAIN kids'[p] : kids'[p][k] = Element(n)
      BY <3>1, <3>2, <1>1
    <3> QED BY <3>3 DEF HasOwner
  <2> QED BY <2>1, <2>2, <2>3, <2>4 DEF HasOwner
<1>13. EachHasOwner'
  BY <1>12 DEF EachHasOwner
<1> QED BY <1>6, <1>8, <1>9, <1>10, <1>11, <1>13 DEF TreeShape

\* Steps that leave the tree alone.
LEMMA SameTree ==
  ASSUME TreeTyped, TreeShape, result = NoDocument, UNCHANGED <<kids, elements, result>>,
         started' \in Nat, started <= started', depth' \in Nat
  PROVE  TreeTyped' /\ TreeShape'
<1>1. TreeTyped'
  BY DEF TreeTyped
<1>2. TreeShape'
  BY DEF TreeShape, ChildrenExist, StackDistinct, ChildrenDistinct, RootsApart,
         EachHasOwner, HasOwner
<1> QED BY <1>1, <1>2

\* What is on the stack.
LEMMA StackIs ==
  ASSUME TreeTyped
  PROVE  /\ Len(elements) \in Nat /\ DOMAIN elements = 1 .. Len(elements)
         /\ \A i \in 1 .. Len(elements) : elements[i] \in DOMAIN kids
         /\ DOMAIN kids \subseteq Nat
         /\ elements # <<>> <=> Len(elements) > 0
<1>1. Len(elements) \in Nat /\ DOMAIN elements = 1 .. Len(elements)
      /\ \A i \in 1 .. Len(elements) : elements[i] \in DOMAIN kids
  BY LenProperties, ElementOfSeq DEF TreeTyped
<1>2. elements # <<>> <=> Len(elements) > 0
  BY EmptySeq, <1>1 DEF TreeTyped
<1>3. DOMAIN kids \subseteq Nat
  BY DEF TreeTyped
<1> QED BY <1>1, <1>2, <1>3

\* The element that cannot be added to its parent.
LEMMA CloseFailsTree ==
  ASSUME TreeTyped, TreeShape, result = NoDocument, Len(elements) >= 2, CloseFails,
         UNCHANGED <<result, started>>, depth' \in Nat
  PROVE  TreeTyped' /\ TreeShape'
<1> DEFINE j == Len(elements) - 1
           D == Tree(Top)
<1>1. /\ Len(elements) \in Nat /\ j \in 0 .. Len(elements) /\ Top \in DOMAIN kids
      /\ j + 1 .. Len(elements) = {Len(elements)} /\ DOMAIN kids \subseteq Nat
  BY StackIs DEF Top
<1>2. /\ Top \in D /\ D \subseteq DOMAIN kids
      /\ \A p \in D : Children(p) \subseteq D
      /\ \A m \in D : m = Top \/ \E p \in D : m \in Children(p)
  BY <1>1, TreeIs
<1>3. \A i \in j + 1 .. Len(elements) : elements[i] \in D
  BY <1>1, <1>2 DEF Top
<1>4. ASSUME NEW p \in D, NEW i \in DOMAIN kids[p], NEW n \in Nat, kids[p][i] = Element(n)
      PROVE  n \in D
  <2>1. n \in DOMAIN kids
    BY <1>2, <1>4 DEF TreeShape, ChildrenExist
  <2>2. n \in Children(p)
    BY <2>1, <1>4 DEF Children
  <2> QED BY <1>2, <2>2
<1>5. ASSUME NEW n \in D
      PROVE  \/ \E i \in j + 1 .. Len(elements) : elements[i] = n
             \/ \E p \in D : \E i \in DOMAIN kids[p] : kids[p][i] = Element(n)
  <2>1. CASE n = Top
    BY <2>1, <1>1 DEF Top
  <2>2. CASE n # Top
    <3>1. PICK p \in D : n \in Children(p)
      BY <1>2, <2>2
    <3> QED BY <3>1 DEF Children
  <2> QED BY <2>1, <2>2
<1>6. kids' = [m \in DOMAIN kids \ D |-> kids[m]] /\ elements' = SubSeq(elements, 1, j)
  BY DEF CloseFails, Pop
<1>7. D \in SUBSET DOMAIN kids
  BY <1>2
<1> HIDE DEF D, j
<1> QED BY <1>1, <1>3, <1>4, <1>5, <1>6, <1>7, DeletedInv

\* The stack with all that is in its elements.
LEMMA ReadStoppedTree ==
  ASSUME TreeTyped, TreeShape, result = NoDocument, ReadStopped
  PROVE  TreeTyped' /\ TreeShape'
<1> DEFINE D == DeleteStack
<1>1. /\ Len(elements) \in Nat /\ 0 \in 0 .. Len(elements)
      /\ 0 + 1 .. Len(elements) = DOMAIN elements
      /\ \A i \in DOMAIN elements : elements[i] \in DOMAIN kids
  BY StackIs
<1>2. \A n : n \in D <=> \E i \in DOMAIN elements : n \in Tree(elements[i])
  BY DEF DeleteStack
<1>3. ASSUME NEW i \in DOMAIN elements
      PROVE  /\ elements[i] \in Tree(elements[i]) /\ Tree(elements[i]) \subseteq DOMAIN kids
             /\ \A p \in Tree(elements[i]) : Children(p) \subseteq Tree(elements[i])
             /\ \A m \in Tree(elements[i]) :
                  m = elements[i] \/ \E p \in Tree(elements[i]) : m \in Children(p)
  <2>1. elements[i] \in DOMAIN kids
    BY <1>1
  <2> QED BY <2>1, TreeIs
<1> HIDE DEF D
<1>4. D \in SUBSET DOMAIN kids
  BY <1>2, <1>3
<1>5. \A i \in 0 + 1 .. Len(elements) : elements[i] \in D
  BY <1>1, <1>2, <1>3
<1>6. ASSUME NEW p \in D, NEW i \in DOMAIN kids[p], NEW n \in Nat, kids[p][i] = Element(n)
      PROVE  n \in D
  <2>1. PICK k \in DOMAIN elements : p \in Tree(elements[k])
    BY <1>2
  <2>2. n \in DOMAIN kids
    BY <1>4, <1>6 DEF TreeShape, ChildrenExist
  <2>3. n \in Children(p)
    BY <2>2, <1>6 DEF Children
  <2> QED BY <1>2, <1>3, <2>1, <2>3
<1>7. ASSUME NEW n \in D
      PROVE  \/ \E i \in 0 + 1 .. Len(elements) : elements[i] = n
             \/ \E p \in D : \E i \in DOMAIN kids[p] : kids[p][i] = Element(n)
  <2>1. PICK k \in DOMAIN elements : n \in Tree(elements[k])
    BY <1>2
  <2>2. CASE n = elements[k]
    BY <2>2, <1>1
  <2>3. CASE n # elements[k]
    <3>1. PICK p \in Tree(elements[k]) : n \in Children(p)
      BY <1>3, <2>1, <2>3
    <3>2. p \in D
      BY <1>2, <3>1
    <3> QED BY <3>1, <3>2 DEF Children
  <2> QED BY <2>2, <2>3
<1>8. /\ kids' = [m \in DOMAIN kids \ D |-> kids[m]] /\ UNCHANGED <<result, started>>
      /\ depth' \in Nat
  BY DEF ReadStopped, D, TreeTyped
<1>9. elements' = SubSeq(elements, 1, 0)
  BY SubSeqEmpty, <1>1 DEF ReadStopped, TreeTyped
<1> QED BY <1>1, <1>4, <1>5, <1>6, <1>7, <1>8, <1>9, DeletedInv

-----------------------------------------------------------------------------
(* Adding *)

\* Elements are where they were, whatever is done with texts.
LEMMA TextsTree ==
  ASSUME TreeTyped, TreeShape, result = NoDocument,
         DOMAIN kids' = DOMAIN kids, kids' \in [DOMAIN kids -> Seq(Item)],
         \A m \in DOMAIN kids : \A i : \A n \in Nat :
           (i \in DOMAIN kids'[m] /\ kids'[m][i] = Element(n)) <=>
             (i \in DOMAIN kids[m] /\ kids[m][i] = Element(n)),
         UNCHANGED <<elements, result, started>>, depth' \in Nat
  PROVE  TreeTyped' /\ TreeShape'
<1>0. UNCHANGED elements /\ result' = NoDocument
  OBVIOUS
<1>1. TreeTyped'
  BY DEF TreeTyped
<1>2. ChildrenExist'
  BY DEF TreeShape, ChildrenExist
<1>3. StackDistinct'
  BY <1>0 DEF TreeShape, StackDistinct
<1>4. ChildrenDistinct'
  BY DEF TreeShape, ChildrenDistinct
<1>5. RootsApart'
  BY <1>0 DEF TreeShape, RootsApart
<1>6. ASSUME NEW n \in DOMAIN kids PROVE HasOwner(n)'
  <2>1. HasOwner(n) /\ n \in Nat
    BY StackIs DEF TreeShape, EachHasOwner
  <2> QED BY <2>1, <1>0 DEF HasOwner
<1>7. EachHasOwner'
  BY <1>6 DEF EachHasOwner
<1> QED BY <1>1, <1>2, <1>3, <1>4, <1>5, <1>7 DEF TreeShape

\* A new element has nothing in it.
LEMMA StartTree ==
  ASSUME TreeTyped, TreeShape, result = NoDocument,
         NEW new, new = started + 1, started' = new, depth' \in Nat, UNCHANGED result,
         DOMAIN kids' = DOMAIN kids \cup {new}, kids' \in [DOMAIN kids' -> Seq(Item)],
         kids'[new] = <<>>, \A m \in DOMAIN kids : kids'[m] = kids[m],
         elements' = Append(elements, new)
  PROVE  TreeTyped' /\ TreeShape'
<1>1. /\ new \in Nat /\ new \notin DOMAIN kids /\ DOMAIN kids \subseteq Nat
      /\ new \in DOMAIN kids'
      /\ DOMAIN kids' = DOMAIN kids \cup {new} /\ DOMAIN kids' \subseteq 1 .. started'
  BY StackIs DEF TreeTyped
<1>2. /\ kids'[new] = <<>> /\ DOMAIN kids'[new] = {}
      /\ \A m \in DOMAIN kids : kids'[m] = kids[m]
  BY <1>1
<1>4. elements \in Seq(DOMAIN kids')
  BY SeqMonotonic, <1>1 DEF TreeTyped
<1>5. /\ elements' \in Seq(DOMAIN kids') /\ Len(elements') = Len(elements) + 1
      /\ \A i \in 1 .. Len(elements) : elements'[i] = elements[i]
      /\ elements'[Len(elements) + 1] = new
  BY <1>1, <1>4, AppendProperties
<1>6. /\ Len(elements) \in Nat /\ DOMAIN elements = 1 .. Len(elements)
      /\ DOMAIN elements' = 1 .. Len(elements) + 1
      /\ \A i \in 1 .. Len(elements) : elements[i] \in DOMAIN kids
  BY <1>5, StackIs, LenProperties
<1>7. TreeTyped'
  BY <1>1, <1>5 DEF TreeTyped
<1>8. ASSUME NEW m \in DOMAIN kids', NEW i \in DOMAIN kids'[m], NEW c \in Nat,
             kids'[m][i] = Element(c)
      PROVE  /\ m \in DOMAIN kids /\ i \in DOMAIN kids[m] /\ kids[m][i] = Element(c)
             /\ c \in DOMAIN kids /\ c # new
  BY <1>1, <1>2, <1>8 DEF TreeShape, ChildrenExist
<1>9. ChildrenExist'
  BY <1>1, <1>8 DEF ChildrenExist
<1>10. StackDistinct'
  <2>1. \A i \in 1 .. Len(elements) : elements'[i] \in DOMAIN kids /\ elements'[i] # new
    BY <1>1, <1>5, <1>6
  <2>2. ASSUME NEW i \in 1 .. Len(elements) + 1, NEW k \in 1 .. Len(elements) + 1,
               elements'[i] = elements'[k]
        PROVE  i = k
    <3>1. CASE i = Len(elements) + 1 \/ k = Len(elements) + 1
      BY <3>1, <2>1, <2>2, <1>5, <1>6
    <3>2. CASE i \in 1 .. Len(elements) /\ k \in 1 .. Len(elements)
      BY <3>2, <2>2, <1>5, <1>6 DEF TreeShape, StackDistinct
    <3> QED BY <3>1, <3>2, <1>6
  <2> QED BY <2>2, <1>6 DEF StackDistinct
<1>11. ChildrenDistinct'
  <2>1. ASSUME NEW m \in DOMAIN kids', NEW p \in DOMAIN kids',
               NEW i \in DOMAIN kids'[m], NEW k \in DOMAIN kids'[p], NEW c \in Nat,
               kids'[m][i] = Element(c), kids'[p][k] = Element(c)
        PROVE  m = p /\ i = k
    <3>1. /\ m \in DOMAIN kids /\ i \in DOMAIN kids[m] /\ kids[m][i] = Element(c)
          /\ p \in DOMAIN kids /\ k \in DOMAIN kids[p] /\ kids[p][k] = Element(c)
      BY <1>8, <2>1
    <3> QED BY <3>1 DEF TreeShape, ChildrenDistinct
  <2> QED BY <2>1 DEF ChildrenDistinct
<1>12. RootsApart'
  <2>1. ASSUME NEW m \in DOMAIN kids', NEW i \in DOMAIN kids'[m], NEW c \in Nat,
               kids'[m][i] = Element(c)
        PROVE  c # result' /\ \A k \in DOMAIN elements' : elements'[k] # c
    <3>1. /\ m \in DOMAIN kids /\ kids[m][i] = Element(c) /\ i \in DOMAIN kids[m]
          /\ c # new
      BY <1>8, <2>1
    <3>2. c # result /\ \A k \in DOMAIN elements : elements[k] # c
      BY <3>1 DEF TreeShape, RootsApart
    <3>3. ASSUME NEW k \in DOMAIN elements' PROVE elements'[k] # c
      <4>1. CASE k = Len(elements) + 1
        BY <4>1, <3>1, <1>5
      <4>2. CASE k \in 1 .. Len(elements)
        BY <4>2, <3>2, <1>5, <1>6
      <4> QED BY <4>1, <4>2, <1>6
    <3> QED BY <3>2, <3>3
  <2>2. result' = NoDocument
    OBVIOUS
  <2> QED BY <2>1, <2>2 DEF RootsApart
<1>13. ASSUME NEW c \in DOMAIN kids' PROVE HasOwner(c)'
  <2>1. CASE c = new
    <3>1. Len(elements) + 1 \in DOMAIN elements'
      BY <1>6
    <3> QED BY <2>1, <3>1, <1>5 DEF HasOwner
  <2>2. CASE c \in DOMAIN kids
    <3>1. HasOwner(c) /\ c # result
      BY <2>2, <1>1, XmlAssumption DEF TreeShape, EachHasOwner
    <3>2. CASE \E i \in DOMAIN elements : elements[i] = c
      <4>1. PICK i \in 1 .. Len(elements) : elements[i] = c
        BY <3>2, <1>6
      <4>2. i \in DOMAIN elements' /\ elements'[i] = c
        BY <4>1, <1>5, <1>6
      <4> QED BY <4>2 DEF HasOwner
    <3>3. CASE \E m \in DOMAIN kids : \E i \in DOMAIN kids[m] : kids[m][i] = Element(c)
      <4>1. \E m \in DOMAIN kids' : \E i \in DOMAIN kids'[m] : kids'[m][i] = Element(c)
        BY <3>3, <1>1, <1>2
      <4> QED BY <4>1 DEF HasOwner
    <3> QED BY <3>1, <3>2, <3>3 DEF HasOwner
  <2> QED BY <2>1, <2>2, <1>1
<1>14. EachHasOwner'
  BY <1>13 DEF EachHasOwner
<1> QED BY <1>7, <1>9, <1>10, <1>11, <1>12, <1>14 DEF TreeShape

\* The last element of the stack becomes a child of the one before it.
LEMMA CloseTree ==
  ASSUME TreeTyped, TreeShape, result = NoDocument, Len(elements) >= 2, CloseElement,
         UNCHANGED <<result, started>>, depth' \in Nat
  PROVE  TreeTyped' /\ TreeShape'
<1> DEFINE len == Len(elements)
           top == elements[len]
           parent == elements[len - 1]
<1>1. /\ len \in Nat /\ len >= 2 /\ DOMAIN elements = 1 .. len
      /\ \A i \in 1 .. len : elements[i] \in DOMAIN kids
      /\ DOMAIN kids \subseteq Nat
  BY StackIs
<1>2. /\ top \in DOMAIN kids /\ parent \in DOMAIN kids /\ top \in Nat /\ top # parent
  <2> HIDE DEF len
  <2>1. len \in 1 .. len /\ len - 1 \in 1 .. len /\ len # len - 1
    BY <1>1
  <2> QED BY <2>1, <1>1 DEF TreeShape, StackDistinct
<1>3. /\ elements' \in Seq(DOMAIN kids) /\ Len(elements') = len - 1
      /\ DOMAIN elements' = 1 .. len - 1
      /\ \A i \in 1 .. len - 1 : elements'[i] = elements[i]
  <2>1. elements' = SubSeq(elements, 1, len - 1)
    BY DEF CloseElement, Pop
  <2>2. /\ elements' \in Seq(DOMAIN kids) /\ Len(elements') = len - 1
        /\ \A i \in 1 .. len - 1 : elements'[i] = elements[i]
    <3>1. len - 1 \in 0 .. Len(elements)
      BY <1>1
    <3> QED BY <2>1, <3>1, PrefixIs DEF TreeTyped
  <2>3. DOMAIN elements' = 1 .. len - 1
    BY <2>2, LenProperties
  <2> QED BY <2>2, <2>3
<1>4. /\ DOMAIN kids' = DOMAIN kids
      /\ kids'[parent] = Append(kids[parent], Element(top))
      /\ \A m \in DOMAIN kids : m # parent => kids'[m] = kids[m]
      /\ kids' = [m \in DOMAIN kids |-> kids'[m]]
  BY <1>2 DEF CloseElement, Added, Top, Parent, TreeTyped
<1> HIDE DEF len, top, parent
<1>5. kids[parent] \in Seq(Item) /\ Element(top) \in Item
  BY <1>2 DEF TreeTyped, Item
<1> DEFINE last == Len(kids[parent]) + 1
<1>6. /\ kids'[parent] \in Seq(Item) /\ DOMAIN kids'[parent] = 1 .. last
      /\ DOMAIN kids[parent] = 1 .. last - 1 /\ last \in Nat \ {0}
      /\ \A i \in 1 .. last - 1 : kids'[parent][i] = kids[parent][i]
      /\ kids'[parent][last] = Element(top)
  <2>1. /\ Len(kids[parent]) \in Nat /\ DOMAIN kids[parent] = 1 .. Len(kids[parent])
    BY <1>5, LenProperties
  <2>2. /\ kids'[parent] \in Seq(Item) /\ Len(kids'[parent]) = last
        /\ \A i \in 1 .. Len(kids[parent]) : kids'[parent][i] = kids[parent][i]
        /\ kids'[parent][last] = Element(top)
    BY <1>4, <1>5, AppendProperties
  <2>3. DOMAIN kids'[parent] = 1 .. last
    BY <2>2, LenProperties
  <2> QED BY <2>1, <2>2, <2>3
<1> HIDE DEF last
\* where the elements are now
<1>7. ASSUME NEW m \in DOMAIN kids, NEW i \in DOMAIN kids'[m], NEW n \in Nat,
             kids'[m][i] = Element(n)
      PROVE  \/ m = parent /\ i = last /\ n = top
             \/ i \in DOMAIN kids[m] /\ kids[m][i] = Element(n) /\ n # top
  <2>1. CASE m = parent /\ i = last
    BY <2>1, <1>6, <1>7, <1>2, ItemsApart
  <2>2. CASE ~(m = parent /\ i = last)
    <3>1. i \in DOMAIN kids[m] /\ kids[m][i] = Element(n)
      <4>1. CASE m = parent
        <5>1. i \in 1 .. last - 1
          BY <4>1, <2>2, <1>6
        <5> QED BY <5>1, <4>1, <1>6, <1>7
      <4>2. CASE m # parent
        BY <4>2, <1>4, <1>7
      <4> QED BY <4>1, <4>2
    <3>2. n # top
      <4>1. \A k \in DOMAIN elements : elements[k] # n
        BY <3>1 DEF TreeShape, RootsApart
      <4>2. len \in DOMAIN elements
        BY <1>1
      <4> QED BY <4>1, <4>2 DEF top
    <3> QED BY <3>1, <3>2
  <2> QED BY <2>1, <2>2
<1>8. ASSUME NEW m \in DOMAIN kids, NEW i \in DOMAIN kids[m]
      PROVE  i \in DOMAIN kids'[m] /\ kids'[m][i] = kids[m][i]
  BY <1>4, <1>6
<1>9. TreeTyped'
  <2>1. \A m \in DOMAIN kids : kids'[m] \in Seq(Item)
    BY <1>4, <1>6 DEF TreeTyped
  <2>2. kids' \in [DOMAIN kids' -> Seq(Item)]
    BY <2>1, <1>4
  <2> QED BY <2>2, <1>3, <1>4 DEF TreeTyped
<1>10. ChildrenExist'
  BY <1>2, <1>4, <1>7 DEF TreeShape, ChildrenExist
<1>11. StackDistinct'
  <2>1. 1 .. len - 1 \subseteq DOMAIN elements
    BY <1>1
  <2>2. \A i, k \in 1 .. len - 1 : elements[i] = elements[k] => i = k
    BY <2>1 DEF TreeShape, StackDistinct
  <2> QED BY <2>2, <1>3 DEF StackDistinct
<1>12. ChildrenDistinct'
  <2>1. ASSUME NEW m \in DOMAIN kids', NEW p \in DOMAIN kids',
               NEW i \in DOMAIN kids'[m], NEW k \in DOMAIN kids'[p], NEW c \in Nat,
               kids'[m][i] = Element(c), kids'[p][k] = Element(c)
        PROVE  m = p /\ i = k
    <3>1. CASE c = top
      BY <3>1, <2>1, <1>4, <1>7
    <3>2. CASE c # top
      <4>1. /\ m \in DOMAIN kids /\ i \in DOMAIN kids[m] /\ kids[m][i] = Element(c)
            /\ p \in DOMAIN kids /\ k \in DOMAIN kids[p] /\ kids[p][k] = Element(c)
        BY <3>2, <2>1, <1>4, <1>7
      <4> QED BY <4>1 DEF TreeShape, ChildrenDistinct
    <3> QED BY <3>1, <3>2
  <2> QED BY <2>1 DEF ChildrenDistinct
<1>13. RootsApart'
  <2>1. ASSUME NEW m \in DOMAIN kids', NEW i \in DOMAIN kids'[m], NEW c \in Nat,
               kids'[m][i] = Element(c)
        PROVE  c # result' /\ \A k \in DOMAIN elements' : elements'[k] # c
    <3>1. c # result'
      BY XmlAssumption
    <3>2. ASSUME NEW k \in DOMAIN elements' PROVE elements'[k] # c
      <4>1. k \in 1 .. len - 1 /\ k \in DOMAIN elements /\ elements'[k] = elements[k]
        BY <1>1, <1>3
      <4>2. CASE c = top
        <5>1. len \in DOMAIN elements /\ k # len
          BY <1>1, <4>1
        <5> QED BY <5>1, <4>1, <4>2 DEF TreeShape, StackDistinct, top
      <4>3. CASE c # top
        <5>1. i \in DOMAIN kids[m] /\ kids[m][i] = Element(c) /\ m \in DOMAIN kids
          BY <4>3, <2>1, <1>4, <1>7
        <5> QED BY <5>1, <4>1 DEF TreeShape, RootsApart
      <4> QED BY <4>2, <4>3
    <3> QED BY <3>1, <3>2
  <2>2. result' = NoDocument
    OBVIOUS
  <2> QED BY <2>1, <2>2 DEF RootsApart
<1>14. ASSUME NEW c \in DOMAIN kids PROVE HasOwner(c)'
  <2>1. HasOwner(c) /\ c # result
    BY <1>1, XmlAssumption DEF TreeShape, EachHasOwner
  <2>2. CASE c = top
    <3>1. /\ last \in DOMAIN kids'[parent] /\ parent \in DOMAIN kids'
          /\ kids'[parent][last] = Element(c)
      BY <2>2, <1>2, <1>4, <1>6
    <3> QED BY <3>1 DEF HasOwner
  <2>3. CASE c # top /\ \E i \in DOMAIN elements : elements[i] = c
    <3>1. PICK i \in 1 .. len : elements[i] = c
      BY <2>3, <1>1
    <3>2. i \in 1 .. len - 1
      BY <3>1, <2>3, <1>1 DEF top
    <3>3. i \in DOMAIN elements' /\ elements'[i] = c
      BY <3>1, <3>2, <1>3
    <3> QED BY <3>3 DEF HasOwner
  <2>4. CASE \E m \in DOMAIN kids : \E i \in DOMAIN kids[m] : kids[m][i] = Element(c)
    <3>1. \E m \in DOMAIN kids' : \E i \in DOMAIN kids'[m] : kids'[m][i] = Element(c)
      BY <2>4, <1>4, <1>8
    <3> QED BY <3>1 DEF HasOwner
  <2> QED BY <2>1, <2>2, <2>3, <2>4 DEF HasOwner
<1>15. EachHasOwner'
  BY <1>4, <1>14 DEF EachHasOwner
<1> QED BY <1>9, <1>10, <1>11, <1>12, <1>13, <1>15 DEF TreeShape

-----------------------------------------------------------------------------
(* The handlers *)

\* coReadXML has not returned.
LEMMA NoResultYet ==
  ASSUME XmlInv, expat # "done" PROVE result = NoDocument
  BY DEF XmlInv, TreeShape, RootsApart

\* startElement
LEMMA StartInv ==
  ASSUME XmlInv, NEW empty \in BOOLEAN, startElement(empty) PROVE XmlInv'
<1> DEFINE new == started + 1
<1>0. /\ TreeTyped /\ TreeShape /\ StackFits /\ result = NoDocument /\ expat = "parse"
      /\ started' = new /\ depth' = depth + 1 /\ depth \in Nat /\ started \in Nat
      /\ UNCHANGED result /\ (depth > 0 \/ started = 0)
  BY NoResultYet DEF XmlInv, startElement, TreeTyped
<1>1. CASE /\ kids' = [m \in DOMAIN kids \cup {new} |-> IF m = new THEN <<>> ELSE kids[m]]
           /\ elements' = Append(elements, new)
           /\ expat' = IF empty THEN "end" ELSE "parse"
           /\ UNCHANGED is_error
  <2>1. /\ DOMAIN kids' = DOMAIN kids \cup {new} /\ kids'[new] = <<>>
        /\ \A m \in DOMAIN kids : kids'[m] = kids[m]
    <3>1. new \notin DOMAIN kids
      BY <1>0 DEF TreeTyped
    <3> QED BY <1>1, <3>1
  <2>2. kids' \in [DOMAIN kids' -> Seq(Item)]
    <3>1. \A m \in DOMAIN kids \cup {new} :
            (IF m = new THEN <<>> ELSE kids[m]) \in Seq(Item)
      BY <1>0, EmptySeq DEF TreeTyped
    <3> QED BY <1>1, <2>1, <3>1
  <2>3. depth' \in Nat /\ elements' = Append(elements, new) /\ new = started + 1
    BY <1>0, <1>1
  <2>4. TreeTyped' /\ TreeShape'
    <3> HIDE DEF new
    <3> QED BY <1>0, <2>1, <2>2, <2>3, StartTree
  <2>5. Len(elements') = Len(elements) + 1 /\ Len(elements) \in Nat
    <3>1. new \in Nat /\ elements \in Seq(Nat)
      BY <1>0, SeqMonotonic DEF TreeTyped
    <3> QED BY <2>3, <3>1, AppendProperties, LenProperties
  <2>6. StackFits'
    BY <1>0, <1>1, <2>5 DEF StackFits
  <2> QED BY <2>4, <2>6 DEF XmlInv
<1>2. CASE /\ is_error' = TRUE /\ expat' = IF empty THEN "end" ELSE "stop"
           /\ UNCHANGED <<kids, elements>>
  <2>1. started' \in Nat /\ started <= started' /\ depth' \in Nat
    BY <1>0
  <2>2. TreeTyped' /\ TreeShape'
    BY <1>0, <1>2, <2>1, SameTree
  <2>3. StackFits'
    BY <1>2 DEF StackFits
  <2> QED BY <2>2, <2>3 DEF XmlInv
<1> QED BY <1>1, <1>2 DEF startElement, Stop

\* A text is added to the last element of the stack.
LEMMA TextAdded ==
  ASSUME TreeTyped, TreeShape, result = NoDocument, elements # <<>>, NEW s \in Seq(Nat),
         kids' = Added(Top, TextItem(s)), UNCHANGED <<elements, result, started, depth>>
  PROVE  TreeTyped' /\ TreeShape'
<1> DEFINE last == Len(kids[Top]) + 1
<1>1. /\ Top \in DOMAIN kids
  BY StackIs DEF Top
<1>2. kids[Top] \in Seq(Item) /\ TextItem(s) \in Item
  BY <1>1 DEF TreeTyped, Item
<1>3. /\ DOMAIN kids' = DOMAIN kids /\ kids'[Top] = Append(kids[Top], TextItem(s))
      /\ \A m \in DOMAIN kids : m # Top => kids'[m] = kids[m]
      /\ kids' = [m \in DOMAIN kids |-> kids'[m]]
  BY <1>1 DEF Added, TreeTyped
<1>4. /\ kids'[Top] \in Seq(Item) /\ DOMAIN kids'[Top] = 1 .. last
      /\ DOMAIN kids[Top] = 1 .. last - 1 /\ last \in Nat \ {0}
      /\ \A i \in 1 .. last - 1 : kids'[Top][i] = kids[Top][i]
      /\ kids'[Top][last] = TextItem(s)
  <2>1. /\ Len(kids[Top]) \in Nat /\ DOMAIN kids[Top] = 1 .. Len(kids[Top])
    BY <1>2, LenProperties
  <2>2. /\ kids'[Top] \in Seq(Item) /\ Len(kids'[Top]) = last
        /\ \A i \in 1 .. Len(kids[Top]) : kids'[Top][i] = kids[Top][i]
        /\ kids'[Top][last] = TextItem(s)
    BY <1>2, <1>3, AppendProperties
  <2>3. DOMAIN kids'[Top] = 1 .. last
    BY <2>2, LenProperties
  <2> QED BY <2>1, <2>2, <2>3
<1> HIDE DEF last
<1>5. ASSUME NEW m \in DOMAIN kids, NEW i, NEW n \in Nat
      PROVE  (i \in DOMAIN kids'[m] /\ kids'[m][i] = Element(n)) <=>
               (i \in DOMAIN kids[m] /\ kids[m][i] = Element(n))
  <2>1. CASE m # Top
    BY <2>1, <1>3
  <2>2. CASE m = Top
    <3>1. i \in 1 .. last /\ kids'[Top][i] = Element(n) => i \in 1 .. last - 1
      BY <1>4, ItemsApart
    <3>2. i \in 1 .. last - 1 => i \in 1 .. last
      BY <1>4
    <3> QED BY <2>2, <3>1, <3>2, <1>4
  <2> QED BY <2>1, <2>2
<1>6. kids' \in [DOMAIN kids -> Seq(Item)]
  <2>1. \A m \in DOMAIN kids : kids'[m] \in Seq(Item)
    BY <1>3, <1>4 DEF TreeTyped
  <2> QED BY <2>1, <1>3
<1>7. UNCHANGED <<elements, result, started>> /\ depth' \in Nat
  BY DEF TreeTyped
<1> QED BY <1>3, <1>5, <1>6, <1>7, TextsTree

\* A text goes on in the last element of the stack.
LEMMA TextGoesOn ==
  ASSUME TreeTyped, TreeShape, result = NoDocument, elements # <<>>, NEW s \in Seq(Nat),
         AddToText(s), UNCHANGED <<elements, result, started, depth>>
  PROVE  TreeTyped' /\ TreeShape'
<1> DEFINE len == Len(kids[Top])
<1>1. Top \in DOMAIN kids
  BY StackIs DEF Top
<1>2. /\ kids[Top] \in Seq(Item) /\ len \in 1 .. len /\ DOMAIN kids[Top] = 1 .. len
      /\ kids[Top][len].kind = "text"
  <2>1. kids[Top] \in Seq(Item) /\ kids[Top] # <<>> /\ kids[Top][len].kind = "text"
    BY <1>1 DEF TreeTyped, AddToText, EndsWithText
  <2> QED BY <2>1, EmptySeq, LenProperties
<1>3. PICK t \in Seq(Nat) : kids[Top][len] = TextItem(t)
  <2>1. kids[Top][len] \in Item
    BY <1>2, ElementOfSeq
  <2>2. \A n \in Nat : Element(n).kind # "text"
    BY DEF Element
  <2> QED BY <2>1, <2>2, <1>2 DEF Item
<1> DEFINE longer == [kids[Top][len] EXCEPT !.bytes = @ \o s]
<1>4. longer = TextItem(t \o s) /\ t \o s \in Seq(Nat)
  <2>1. [TextItem(t) EXCEPT !.bytes = @ \o s] = TextItem(t \o s)
    <3>1. TextItem(t).bytes = t
      BY DEF TextItem
    <3> QED BY <3>1, TextChanged
  <2>2. longer = [TextItem(t) EXCEPT !.bytes = @ \o s]
    BY <1>3
  <2>3. t \o s \in Seq(Nat)
    BY ConcatProperties
  <2> QED BY <2>1, <2>2, <2>3
<1>5. longer \in Item
  BY <1>4 DEF Item
<1>6. kids' = [kids EXCEPT ![Top] = [kids[Top] EXCEPT ![len] = longer]]
  BY DEF AddToText
<1> HIDE DEF longer
<1> DEFINE kidsOfTop == [kids[Top] EXCEPT ![len] = longer]
<1>7. /\ kidsOfTop \in Seq(Item) /\ DOMAIN kidsOfTop = 1 .. len
      /\ \A i \in 1 .. len : kidsOfTop[i] = IF i = len THEN longer ELSE kids[Top][i]
  <2>1. /\ kidsOfTop \in Seq(Item) /\ Len(kidsOfTop) = len
        /\ \A i \in 1 .. len : kidsOfTop[i] = IF i = len THEN longer ELSE kids[Top][i]
    BY <1>2, <1>5, ExceptSeq
  <2>2. DOMAIN kidsOfTop = 1 .. len
    BY <2>1, LenProperties
  <2> QED BY <2>1, <2>2
<1>8. /\ DOMAIN kids' = DOMAIN kids /\ kids'[Top] = kidsOfTop
      /\ \A m \in DOMAIN kids : m # Top => kids'[m] = kids[m]
      /\ kids' = [m \in DOMAIN kids |-> kids'[m]]
  <2> HIDE DEF kidsOfTop
  <2>1. kids' = [kids EXCEPT ![Top] = kidsOfTop]
    BY <1>6 DEF kidsOfTop
  <2> QED BY <1>1, <2>1 DEF TreeTyped
<1> HIDE DEF kidsOfTop, len
<1>9. ASSUME NEW m \in DOMAIN kids, NEW i, NEW n \in Nat
      PROVE  (i \in DOMAIN kids'[m] /\ kids'[m][i] = Element(n)) <=>
               (i \in DOMAIN kids[m] /\ kids[m][i] = Element(n))
  <2>1. CASE m # Top
    BY <2>1, <1>8
  <2>2. CASE m = Top
    <3>1. longer # Element(n) /\ kids[Top][len] # Element(n)
      BY <1>3, <1>4, ItemsApart
    <3>2. \A k \in 1 .. len : kidsOfTop[k] = Element(n) <=> kids[Top][k] = Element(n)
      BY <3>1, <1>7
    <3> QED BY <2>2, <3>2, <1>2, <1>7, <1>8
  <2> QED BY <2>1, <2>2
<1>10. kids' \in [DOMAIN kids -> Seq(Item)]
  <2>1. \A m \in DOMAIN kids : kids'[m] \in Seq(Item)
    BY <1>7, <1>8 DEF TreeTyped
  <2> QED BY <2>1, <1>8
<1>11. UNCHANGED <<elements, result, started>> /\ depth' \in Nat
  BY DEF TreeTyped
<1> QED BY <1>8, <1>9, <1>10, <1>11, TextsTree

\* dataHandler
LEMMA DataInv ==
  ASSUME XmlInv, NEW s \in TextPieces, dataHandler(s) PROVE XmlInv'
<1>1. /\ TreeTyped /\ TreeShape /\ StackFits /\ expat \in {"parse", "data"} /\ depth > 0
      /\ UNCHANGED <<elements, result, started, depth>> /\ s \in Seq(Nat)
  BY XmlAssumption DEF XmlInv, dataHandler
<1>2. result = NoDocument
  BY <1>1, NoResultYet
<1>3. elements # <<>>
  <2>1. expat = "parse" => Len(elements) = depth
    BY <1>1 DEF StackFits, TreeTyped
  <2>2. expat = "parse" => elements # <<>>
    BY <1>1, <2>1, StackIs
  <2> QED BY <1>1, <2>2 DEF StackFits
<1>4. started' \in Nat /\ started <= started' /\ depth' \in Nat
  BY <1>1 DEF TreeTyped
<1>5. CASE AddToText(s) \/ SkipText(s) \/ AddText(s)
  <2>1. TreeTyped' /\ TreeShape'
    <3>1. CASE AddToText(s)
      BY <1>1, <1>2, <1>3, <3>1, TextGoesOn
    <3>2. CASE AddText(s)
      BY <1>1, <1>2, <1>3, <3>2, TextAdded DEF AddText
    <3>3. CASE SkipText(s)
      <4>1. UNCHANGED <<kids, elements, result>>
        BY <3>3, <1>1 DEF SkipText
      <4> QED BY <1>1, <1>2, <1>4, <4>1, SameTree
    <3> QED BY <1>5, <3>1, <3>2, <3>3
  <2>2. UNCHANGED <<expat, is_error, elements, depth, started>>
    BY <1>1, <1>5 DEF AddToText, SkipText, AddText
  <2>3. StackFits'
    BY <1>1, <2>2 DEF StackFits
  <2> QED BY <2>1, <2>3 DEF XmlInv
<1>6. CASE TextFails(s)
  <2>1. UNCHANGED <<kids, elements, result>> /\ expat' = "data" /\ is_error'
    BY <1>1, <1>6 DEF TextFails, Stop
  <2>2. TreeTyped' /\ TreeShape'
    BY <1>1, <1>2, <1>4, <2>1, SameTree
  <2>3. StackFits'
    BY <1>3, <2>1 DEF StackFits
  <2> QED BY <2>2, <2>3 DEF XmlInv
<1> QED BY <1>5, <1>6 DEF dataHandler

\* endElement
LEMMA EndInv ==
  ASSUME XmlInv, endElement PROVE XmlInv'
<1>1. /\ TreeTyped /\ TreeShape /\ StackFits /\ expat \in {"parse", "end"} /\ depth > 0
      /\ UNCHANGED <<result, started>> /\ depth' = depth - 1 /\ depth' \in Nat
      /\ depth \in Nat /\ started \in Nat /\ Len(elements) \in Nat
  BY StackIs DEF XmlInv, endElement, TreeTyped
<1>2. result = NoDocument
  BY <1>1, NoResultYet
<1>3. ASSUME Len(elements) >= 2, CloseElement PROVE XmlInv'
  <2>1. TreeTyped' /\ TreeShape'
    BY <1>1, <1>2, <1>3, CloseTree
  <2>2. Len(elements') = Len(elements) - 1
    <3>1. Len(elements) - 1 \in 0 .. Len(elements)
      BY <1>1, <1>3
    <3> QED BY <1>1, <1>3, <3>1, PrefixIs DEF CloseElement, Pop, TreeTyped
  <2>3. expat' = (IF is_error THEN "stop" ELSE "parse") /\ UNCHANGED is_error
    BY <1>3 DEF CloseElement
  <2>4. StackFits'
    BY <1>1, <1>3, <2>2, <2>3 DEF StackFits
  <2> QED BY <2>1, <2>4 DEF XmlInv
<1>4. ASSUME Len(elements) >= 2, CloseFails PROVE XmlInv'
  <2>1. TreeTyped' /\ TreeShape'
    BY <1>1, <1>2, <1>4, CloseFailsTree
  <2>2. expat' = "stop"
    BY <1>4 DEF CloseFails, Stop
  <2> QED BY <2>1, <2>2 DEF XmlInv, StackFits
<1>5. ASSUME ~(Len(elements) >= 2), KeepRoot PROVE XmlInv'
  <2>1. /\ UNCHANGED <<kids, elements, result, started, is_error>>
        /\ expat' = IF is_error THEN "stop" ELSE "parse"
    BY <1>1, <1>5 DEF KeepRoot
  <2>2. started' \in Nat /\ started <= started'
    BY <1>1
  <2>3. TreeTyped' /\ TreeShape'
    BY <1>1, <1>2, <2>1, <2>2, SameTree
  <2>4. ~is_error => depth = 1 /\ Len(elements) = 1
    BY <1>1, <1>5 DEF StackFits
  <2>5. ~is_error => started > 0
    <3>1. ~is_error => 1 \in 1 .. Len(elements)
      BY <2>4
    <3>2. ~is_error => elements[1] \in 1 .. started
      BY <1>1, <3>1, StackIs DEF TreeTyped
    <3> QED BY <1>1, <3>2
  <2>6. StackFits'
    BY <1>1, <2>1, <2>4, <2>5 DEF StackFits
  <2> QED BY <2>3, <2>6 DEF XmlInv
<1> QED BY <1>3, <1>4, <1>5 DEF endElement

-----------------------------------------------------------------------------
(* coReadXML *)

\* The root leaves the stack for the caller.
LEMMA ReturnsInv ==
  ASSUME XmlInv, ReadReturns PROVE XmlInv'
<1>1. /\ TreeTyped /\ TreeShape /\ StackFits /\ expat = "parse" /\ depth = 0 /\ started > 0
      /\ expat' = "done" /\ result' = elements[1] /\ elements' = <<>>
      /\ UNCHANGED <<kids, depth, started>>
  BY DEF XmlInv, ReadReturns, DocumentComplete
<1>2. result = NoDocument
  BY <1>1, NoResultYet
<1>3. /\ Len(elements) = 1 /\ DOMAIN elements = {1} /\ elements[1] \in DOMAIN kids
      /\ elements[1] \in Nat
  BY <1>1, StackIs DEF StackFits
<1>4. elements' \in Seq(DOMAIN kids) /\ DOMAIN elements' = {}
  BY <1>1, EmptySeq
<1>5. TreeTyped'
  BY <1>1, <1>3, <1>4 DEF TreeTyped
<1>6. ChildrenExist' /\ StackDistinct' /\ ChildrenDistinct'
  BY <1>1, <1>4 DEF TreeShape, ChildrenExist, StackDistinct, ChildrenDistinct
<1>7. RootsApart'
  BY <1>1, <1>3, <1>4 DEF TreeShape, RootsApart
<1>8. ASSUME NEW n \in DOMAIN kids PROVE HasOwner(n)'
  <2>1. HasOwner(n) /\ n # result
    BY <1>1, <1>2, StackIs, XmlAssumption DEF TreeShape, EachHasOwner
  <2> QED BY <1>1, <1>3, <2>1 DEF HasOwner
<1>9. EachHasOwner'
  BY <1>1, <1>8 DEF EachHasOwner
<1>10. StackFits'
  BY <1>1 DEF StackFits
<1> QED BY <1>5, <1>6, <1>7, <1>9, <1>10 DEF XmlInv, TreeShape

\* Every step keeps the invariant.
LEMMA TreeNextInv == XmlInv /\ [TreeNext]_treeVars => XmlInv'
<1> SUFFICES ASSUME XmlInv, [TreeNext]_treeVars PROVE XmlInv'
  OBVIOUS
<1>1. ASSUME NEW empty \in BOOLEAN, startElement(empty) PROVE XmlInv'
  BY <1>1, StartInv
<1>2. ASSUME NEW s \in TextPieces, dataHandler(s) PROVE XmlInv'
  BY <1>2, DataInv
<1>3. CASE endElement
  BY <1>3, EndInv
<1>4. CASE ReadFails
  <2>1. UNCHANGED <<kids, elements, depth, started, result>> /\ expat' = "failed"
    BY <1>4 DEF ReadFails
  <2>2. result = NoDocument
    BY <1>4, NoResultYet DEF ReadFails
  <2>3. started' \in Nat /\ started <= started' /\ depth' \in Nat
    BY <2>1 DEF XmlInv, TreeTyped
  <2>4. TreeTyped' /\ TreeShape'
    BY <2>1, <2>2, <2>3, SameTree DEF XmlInv
  <2> QED BY <2>1, <2>4 DEF XmlInv, StackFits
<1>5. CASE ReadStopped
  <2>1. expat' = "failed" /\ result = NoDocument
    BY <1>5, NoResultYet DEF ReadStopped
  <2>2. TreeTyped' /\ TreeShape'
    BY <1>5, <2>1, ReadStoppedTree DEF XmlInv
  <2> QED BY <2>1, <2>2 DEF XmlInv, StackFits
<1>6. CASE ReadReturns
  BY <1>6, ReturnsInv
<1>7. CASE UNCHANGED treeVars
  BY <1>7
  DEF treeVars, XmlInv, TreeTyped, TreeShape, ChildrenExist, StackDistinct,
      ChildrenDistinct, RootsApart, EachHasOwner, HasOwner, StackFits
<1> QED BY <1>1, <1>2, <1>3, <1>4, <1>5, <1>6, <1>7 DEF TreeNext

-----------------------------------------------------------------------------
(* The property *)

\* What the places of an element are.
LEMMA OwnersAre ==
  ASSUME TreeTyped, NEW n, NEW p, p \in Owners(n)
  PROVE  \/ p = <<0, 0>> /\ result = n
         \/ \E i \in DOMAIN elements : p = <<0, i>> /\ elements[i] = n
         \/ \E m \in DOMAIN kids : \E i \in DOMAIN kids[m] :
              p = <<m, i>> /\ kids[m][i] = Element(n)
  BY DEF Owners

\* What the invariant says of it.
LEMMA XmlInvImplies == XmlInv => EachOwnedOnce
<1> SUFFICES ASSUME XmlInv PROVE EachOwnedOnce
  OBVIOUS
<1>0. TreeTyped /\ TreeShape /\ StackFits
  BY DEF XmlInv
<1>1. ASSUME NEW n \in DOMAIN kids PROVE \E p \in Owners(n) : Owners(n) = {p}
  <2>1. HasOwner(n) /\ n \in Nat /\ n # NoDocument
    BY <1>0, StackIs, XmlAssumption DEF TreeShape, EachHasOwner
  <2>2. CASE result = n
    <3>1. elements = <<>> /\ DOMAIN elements = {}
      BY <1>0, <2>1, <2>2 DEF TreeShape, RootsApart
    <3>2. <<0, 0>> \in Owners(n)
      BY <2>2 DEF Owners
    <3>3. ASSUME NEW p \in Owners(n) PROVE p = <<0, 0>>
      BY <1>0, <2>1, <2>2, <3>1, OwnersAre DEF TreeShape, RootsApart
    <3> QED BY <3>2, <3>3
  <2>3. CASE \E i \in DOMAIN elements : elements[i] = n
    <3>1. PICK i \in DOMAIN elements : elements[i] = n
      BY <2>3
    <3>2. result # n
      BY <1>0, <2>1, <3>1 DEF TreeShape, RootsApart
    <3>3. <<0, i>> \in Owners(n)
      BY <3>1 DEF Owners
    <3>4. ASSUME NEW p \in Owners(n) PROVE p = <<0, i>>
      <4>1. \A m \in DOMAIN kids : \A k \in DOMAIN kids[m] : kids[m][k] # Element(n)
        BY <1>0, <2>1, <3>1 DEF TreeShape, RootsApart
      <4>2. PICK k \in DOMAIN elements : p = <<0, k>> /\ elements[k] = n
        BY <1>0, <3>2, <4>1, OwnersAre
      <4> QED BY <1>0, <3>1, <4>2 DEF TreeShape, StackDistinct
    <3> QED BY <3>3, <3>4
  <2>4. CASE \E m \in DOMAIN kids : \E i \in DOMAIN kids[m] : kids[m][i] = Element(n)
    <3>1. PICK m \in DOMAIN kids : \E i \in DOMAIN kids[m] : kids[m][i] = Element(n)
      BY <2>4
    <3>2. PICK i \in DOMAIN kids[m] : kids[m][i] = Element(n)
      BY <3>1
    <3>3. <<m, i>> \in Owners(n)
      BY <3>2 DEF Owners
    <3>4. ASSUME NEW p \in Owners(n) PROVE p = <<m, i>>
      <4>1. result # n /\ \A k \in DOMAIN elements : elements[k] # n
        BY <1>0, <2>1, <3>2 DEF TreeShape, RootsApart
      <4>2. PICK q \in DOMAIN kids :
              \E k \in DOMAIN kids[q] : p = <<q, k>> /\ kids[q][k] = Element(n)
        BY <1>0, <4>1, OwnersAre
      <4>3. PICK k \in DOMAIN kids[q] : p = <<q, k>> /\ kids[q][k] = Element(n)
        BY <4>2
      <4> QED BY <1>0, <2>1, <3>2, <4>3 DEF TreeShape, ChildrenDistinct
    <3> QED BY <3>3, <3>4
  <2> QED BY <2>1, <2>2, <2>3, <2>4 DEF HasOwner
<1>2. ASSUME NEW n \in 1 .. started, NEW p \in Owners(n) PROVE n \in DOMAIN kids
  <2>1. n \in Nat /\ n # NoDocument
    BY <1>0, XmlAssumption DEF TreeTyped
  <2>2. result = n => n \in DOMAIN kids
    BY <1>0, <2>1 DEF TreeTyped
  <2> QED BY <1>0, <2>1, <2>2, OwnersAre, StackIs DEF TreeShape, ChildrenExist
<1>3. DocumentComplete => Len(elements) = 1
  BY <1>0 DEF DocumentComplete, StackFits
<1> QED BY <1>1, <1>2, <1>3 DEF EachOwnedOnce

\* Every element has one owner (co_xml.c), for every document, whatever allocations fail
\* and whatever expat still delivers after XML_StopParser.
THEOREM ElementsOwnedOnce == TreeSpec => []EachOwnedOnce
<1>1. TreeSpec => []XmlInv
  BY TreeInitInv, TreeNextInv, PTL DEF TreeSpec
<1> QED BY <1>1, XmlInvImplies, PTL
=============================================================================
