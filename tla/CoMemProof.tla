------------------------------ MODULE CoMemProof ------------------------------
(***************************************************************************)
(* Proofs about CoMem: coMemAdd never copies beyond the memory of a block, *)
(* for every CO_MEM_MIN_EXTEND and CO_MEM_MAX_EXTEND and every sequence of *)
(* calls; and about CoStr: a string object has the text that was put into  *)
(* it.                                                                     *)
(***************************************************************************)
EXTENDS CoStr, SequenceTheorems, TLAPS

\* The inductive invariant.
Inv == TypeOK /\ BytesInside

\* The extension is at least what is asked for.
LEMMA ExtendEnough ==
  ASSUME NEW m \in Nat, NEW n \in Nat
  PROVE  Extend(m, n) \in Nat /\ Extend(m, n) >= n
  BY SizeAssumption DEF Extend, Larger, Smaller

\* What the block o is, by the invariant.
LEMMA BlockType ==
  ASSUME Inv, NEW o \in Block
  PROVE  /\ len[o] \in Nat /\ memlen[o] \in Nat
         /\ \A j \in 0 .. len[o] - 1 : j \in DOMAIN str[o] /\ str[o][j] \in Byte
         /\ o \notin failed => DOMAIN str[o] = 0 .. memlen[o] - 1 /\ len[o] <= memlen[o]
<1>1. /\ len[o] \in Nat /\ memlen[o] \in Nat
      /\ \A j \in 0 .. len[o] - 1 : j \in DOMAIN str[o] /\ str[o][j] \in Byte
  BY DEF Inv, TypeOK, BytesInside
<1>2. ASSUME o \notin failed
      PROVE  DOMAIN str[o] = 0 .. memlen[o] - 1 /\ len[o] <= memlen[o]
  <2>1. DOMAIN str[o] = 0 .. memlen[o] - 1
    BY <1>2 DEF Inv, BytesInside, Sized
  <2>2. CASE len[o] = 0
    BY <1>1, <2>1, <2>2
  <2>3. CASE len[o] # 0
    <3>1. len[o] - 1 \in 0 .. memlen[o] - 1
      BY <1>1, <2>1, <2>3
    <3> QED BY <1>1, <2>1, <3>1
  <2> QED BY <2>2, <2>3
<1> QED BY <1>1, <1>2

\* There is room for the bytes added.
LEMMA RoomForBytes ==
  ASSUME Inv, NEW o \in Block, o \notin failed, NEW n \in Nat
  PROVE  NewMemlen(o, n) \in Nat /\ len[o] + n <= NewMemlen(o, n)
<1>1. /\ len[o] \in Nat /\ memlen[o] \in Nat
      /\ DOMAIN str[o] = 0 .. memlen[o] - 1 /\ len[o] <= memlen[o]
  BY BlockType
<1>2. Extend(memlen[o], n) \in Nat /\ Extend(memlen[o], n) >= n
  BY <1>1, ExtendEnough
<1>3. CASE str[o] = <<>>
  <2>1. DOMAIN str[o] = {}
    BY <1>3
  <2>2. memlen[o] = 0
    <3>1. memlen[o] # 0 => 0 \in 0 .. memlen[o] - 1
      BY <1>1
    <3> QED BY <1>1, <2>1, <3>1
  <2> QED BY <1>1, <1>2, <1>3, <2>2 DEF NewMemlen
<1>4. CASE str[o] # <<>>
  BY <1>1, <1>2, <1>4 DEF NewMemlen, NeedsMore
<1> QED BY <1>3, <1>4

\* The bytes after coMemAdd: the old ones, and behind them the new ones.
LEMMA BytesAdded ==
  ASSUME Inv, NEW o \in Block, o \notin failed, NEW mem \in Seq(Byte),
         NEW m, m = NewMemlen(o, Len(mem)),
         NEW bytes, bytes = Copied(Resized(str[o], m), len[o], mem)
  PROVE  /\ DOMAIN bytes = 0 .. m - 1
         /\ \A j \in 0 .. len[o] - 1 : j \in DOMAIN bytes /\ bytes[j] = str[o][j]
         /\ \A j \in len[o] .. len[o] + Len(mem) - 1 :
              j \in DOMAIN bytes /\ bytes[j] = mem[j - len[o] + 1]
<1>1. /\ len[o] \in Nat /\ Len(mem) \in Nat
      /\ \A j \in 0 .. len[o] - 1 : j \in DOMAIN str[o]
  BY BlockType
<1>2. m \in Nat /\ len[o] + Len(mem) <= m
  BY <1>1, RoomForBytes
<1>3. DOMAIN Resized(str[o], m) = 0 .. m - 1
  BY DEF Resized
<1>4. DOMAIN bytes = 0 .. m - 1
  BY <1>3 DEF Copied
<1>5. ASSUME NEW j \in 0 .. len[o] - 1
      PROVE  j \in DOMAIN bytes /\ bytes[j] = str[o][j]
  <2>1. j \in 0 .. m - 1 /\ ~(len[o] <= j) /\ j \in DOMAIN str[o]
    BY <1>1, <1>2
  <2>2. Resized(str[o], m)[j] = str[o][j]
    BY <2>1 DEF Resized
  <2> QED BY <1>3, <1>4, <2>1, <2>2 DEF Copied
<1>6. ASSUME NEW j \in len[o] .. len[o] + Len(mem) - 1
      PROVE  j \in DOMAIN bytes /\ bytes[j] = mem[j - len[o] + 1]
  <2>1. j \in 0 .. m - 1 /\ len[o] <= j /\ j < len[o] + Len(mem)
    BY <1>1, <1>2
  <2> QED BY <1>3, <1>4, <2>1 DEF Copied
<1> QED BY <1>4, <1>5, <1>6

LEMMA InitInv == ASSUME Init PROVE Inv
  BY DEF Init, Inv, TypeOK, BytesInside, Sized

\* One block changes, to one that satisfies the invariant.
LEMMA OneBlock ==
  ASSUME Inv, NEW o \in Block, NEW bytes, NEW n \in Nat, NEW m \in Nat,
         str' = [str EXCEPT ![o] = bytes], len' = [len EXCEPT ![o] = n],
         memlen' = [memlen EXCEPT ![o] = m],
         \A j \in 0 .. n - 1 : j \in DOMAIN bytes /\ bytes[j] \in Byte,
         DOMAIN bytes = 0 .. m - 1,
         failed' \in {failed, failed \ {o}},
         live' \subseteq Block, failed' \subseteq live', ret' \in {0, 1}
  PROVE  Inv'
<1>1. TypeOK'
  BY DEF Inv, TypeOK
<1>2. ASSUME NEW q \in Block
      PROVE  /\ \A j \in 0 .. len'[q] - 1 : j \in DOMAIN str'[q] /\ str'[q][j] \in Byte
             /\ q \notin failed' => DOMAIN str'[q] = 0 .. memlen'[q] - 1
  <2>1. CASE q = o
    BY <2>1 DEF Inv, TypeOK
  <2>2. CASE q # o
    <3>1. str'[q] = str[q] /\ len'[q] = len[q] /\ memlen'[q] = memlen[q]
      BY <2>2 DEF Inv, TypeOK
    <3>2. q \notin failed' => q \notin failed
      BY <2>2
    <3> QED BY <3>1, <3>2 DEF Inv, BytesInside, Sized
  <2> QED BY <2>1, <2>2
<1>3. BytesInside'
  BY <1>2 DEF BytesInside, Sized
<1> QED BY <1>1, <1>3 DEF Inv

LEMMA EmptyBlock ==
  /\ DOMAIN <<>> = 0 .. 0 - 1
  /\ \A j \in 0 .. 0 - 1 : j \in DOMAIN <<>> /\ <<>>[j] \in Byte
  OBVIOUS

LEMMA AddInv ==
  ASSUME Inv, NEW o \in Block, NEW mem \in Mems, coMemAdd(o, mem) PROVE Inv'
<1>0. mem \in Seq(Byte) /\ o \notin failed /\ o \in live
  BY ByteAssumption DEF coMemAdd
<1>1. CASE mem = <<>>
  BY <1>1 DEF coMemAdd, Inv, TypeOK, BytesInside, Sized
<1>2. CASE mem # <<>>
  <2> DEFINE m == NewMemlen(o, Len(mem))
             bytes == Copied(Resized(str[o], m), len[o], mem)
  <2>1. /\ DOMAIN bytes = 0 .. m - 1
        /\ \A j \in 0 .. len[o] - 1 : j \in DOMAIN bytes /\ bytes[j] = str[o][j]
        /\ \A j \in len[o] .. len[o] + Len(mem) - 1 :
              j \in DOMAIN bytes /\ bytes[j] = mem[j - len[o] + 1]
    BY <1>0, BytesAdded
  <2>2. /\ str' = [str EXCEPT ![o] = bytes]
        /\ len' = [len EXCEPT ![o] = len[o] + Len(mem)]
        /\ memlen' = [memlen EXCEPT ![o] = m]
        /\ ret' = 1 /\ UNCHANGED <<live, failed>>
    BY <1>2 DEF coMemAdd, AddBytes
  <2>3. /\ len[o] \in Nat /\ Len(mem) \in Nat
        /\ \A j \in 0 .. len[o] - 1 : str[o][j] \in Byte
    BY <1>0, BlockType
  <2>4. m \in Nat
    BY <1>0, <2>3, RoomForBytes
  <2> HIDE DEF bytes, m
  <2>5. ASSUME NEW j \in 0 .. (len[o] + Len(mem)) - 1
        PROVE  j \in DOMAIN bytes /\ bytes[j] \in Byte
    <3>1. CASE j < len[o]
      <4>1. j \in 0 .. len[o] - 1
        BY <2>3, <3>1
      <4> QED BY <2>1, <2>3, <4>1
    <3>2. CASE ~(j < len[o])
      <4>1. j \in len[o] .. len[o] + Len(mem) - 1 /\ j - len[o] + 1 \in 1 .. Len(mem)
        BY <2>3, <3>2
      <4>2. mem[j - len[o] + 1] \in Byte
        BY <1>0, <4>1
      <4> QED BY <2>1, <4>1, <4>2
    <3> QED BY <3>1, <3>2
  <2>6. live' \subseteq Block /\ failed' \subseteq live'
    BY <2>2 DEF Inv, TypeOK
  <2>7. len[o] + Len(mem) \in Nat
    BY <2>3
  <2> QED BY <2>1, <2>2, <2>4, <2>5, <2>6, <2>7, OneBlock
<1> QED BY <1>1, <1>2

LEMMA AddFailsInv ==
  ASSUME Inv, NEW o \in Block, NEW mem \in Mems, coMemAddFails(o, mem) PROVE Inv'
<1>1. mem \in Seq(Byte) /\ Len(mem) \in Nat /\ o \notin failed /\ o \in live
  BY ByteAssumption DEF coMemAddFails
<1>2. NewMemlen(o, Len(mem)) \in Nat
  BY <1>1, RoomForBytes
<1>3. TypeOK'
  BY <1>1, <1>2 DEF coMemAddFails, Inv, TypeOK
<1>4. ASSUME NEW q \in Block, q \notin failed'
      PROVE  memlen'[q] = memlen[q] /\ q \notin failed
  BY <1>4 DEF coMemAddFails, Inv, TypeOK
<1>5. BytesInside'
  BY <1>4 DEF coMemAddFails, Inv, BytesInside, Sized
<1> QED BY <1>3, <1>5 DEF Inv

LEMMA CloneInv ==
  ASSUME Inv, NEW o \in Block, NEW n \in Block, coMemClone(o, n) PROVE Inv'
<1> DEFINE m == IF len[o] = 0 THEN 0 ELSE Extend(0, len[o])
           bytes == [j \in 0 .. m - 1 |-> IF j < len[o] THEN str[o][j] ELSE Junk]
<1>1. /\ len[o] \in Nat
      /\ \A j \in 0 .. len[o] - 1 : str[o][j] \in Byte
  BY BlockType
<1>2. m \in Nat /\ len[o] <= m
  <2>1. Extend(0, len[o]) \in Nat /\ Extend(0, len[o]) >= len[o]
    BY <1>1, ExtendEnough
  <2> QED BY <1>1, <2>1
<1>3. memlen'[n] = m
  BY DEF coMemClone, Inv, TypeOK
<1>4. /\ str' = [str EXCEPT ![n] = bytes]
      /\ len' = [len EXCEPT ![n] = len[o]]
      /\ memlen' = [memlen EXCEPT ![n] = m]
      /\ live' = live \cup {n} /\ UNCHANGED <<failed, ret>>
  BY <1>3 DEF coMemClone
<1>5. \A j \in 0 .. len[o] - 1 : j \in DOMAIN bytes /\ bytes[j] \in Byte
  BY <1>1, <1>2
<1>6. DOMAIN bytes = 0 .. m - 1
  OBVIOUS
<1> HIDE DEF m, bytes
<1>7. live' \subseteq Block /\ failed' \subseteq live' /\ ret' \in {0, 1}
  BY <1>4 DEF Inv, TypeOK
<1> QED BY <1>1, <1>2, <1>4, <1>5, <1>6, <1>7, OneBlock

\* One case per action.
LEMMA NextInv == ASSUME Inv, Next PROVE Inv'
<1> PICK o \in Block :
      \/ coNewMem(o)
      \/ \E mem \in Mems : coMemAdd(o, mem) \/ coMemAddFails(o, mem)
      \/ \E n \in Block : coMemClone(o, n)
      \/ coMemDestroy(o)
  BY DEF Next
<1>1. CASE coNewMem(o)
  <2>1. live' \subseteq Block /\ failed' \subseteq live' /\ ret' \in {0, 1}
    BY <1>1 DEF coNewMem, Inv, TypeOK
  <2> QED BY <1>1, <2>1, EmptyBlock, OneBlock DEF coNewMem
<1>2. CASE \E mem \in Mems : coMemAdd(o, mem) \/ coMemAddFails(o, mem)
  BY <1>2, AddInv, AddFailsInv
<1>3. CASE \E n \in Block : coMemClone(o, n)
  BY <1>3, CloneInv
<1>4. CASE coMemDestroy(o)
  <2>1. live' \subseteq Block /\ failed' \subseteq live' /\ ret' \in {0, 1}
    BY <1>4 DEF coMemDestroy, Inv, TypeOK
  <2> QED BY <1>4, <2>1, EmptyBlock, OneBlock DEF coMemDestroy
<1> QED BY <1>1, <1>2, <1>3, <1>4

LEMMA Invariant == Spec => []Inv
<1>1. Inv /\ [Next]_vars => Inv'
  <2>1. ASSUME Inv, UNCHANGED vars PROVE Inv'
    BY <2>1 DEF Inv, TypeOK, BytesInside, Sized, vars
  <2> QED BY <2>1, NextInv
<1> QED BY <1>1, InitInv, PTL DEF Spec

\* The memory of a block (co.c:544-606) always holds its bytes: coMemAdd and
\* coMemClone allocate enough, whatever is added and wherever memory runs out.
THEOREM BytesAlwaysInside == Spec => []BytesInside
<1>1. Inv => BytesInside
  BY DEF Inv
<1> QED BY <1>1, Invariant, PTL

-----------------------------------------------------------------------------
(* A block implements the byte string of CoBytes.                           *)

\* The content of a block that exists is a byte string.
LEMMA ContentSeq ==
  ASSUME Inv, NEW o \in live
  PROVE  /\ o \in Block
         /\ Content(o) \in Seq(Byte) /\ Len(Content(o)) = len[o]
         /\ \A n \in 1 .. len[o] : Content(o)[n] = str[o][n - 1]
<1>1. o \in Block
  BY DEF Inv, TypeOK
<1>2. /\ len[o] \in Nat
      /\ \A j \in 0 .. len[o] - 1 : str[o][j] \in Byte
  BY <1>1, BlockType
<1>3. \A n \in 1 .. len[o] : n - 1 \in 0 .. len[o] - 1
  BY <1>2
<1>4. Content(o) = [n \in 1 .. len[o] |-> str[o][n - 1]]
  BY DEF Content
<1>5. Content(o) \in [1 .. len[o] -> Byte]
  BY <1>2, <1>3, <1>4
<1>6. Content(o) \in Seq(Byte) /\ Len(Content(o)) = len[o]
  BY <1>2, <1>5
<1> QED BY <1>1, <1>4, <1>6

\* A block that is the same, byte by byte, has the same content.
LEMMA ContentKept ==
  ASSUME Inv, NEW q \in Block, q \in live' <=> q \in live,
         str'[q] = str[q], len'[q] = len[q]
  PROVE  Content(q)' = Content(q)
  BY DEF Content

LEMMA AddContent ==
  ASSUME Inv, NEW o \in Block, NEW mem \in Mems, coMemAdd(o, mem)
  PROVE  Content(o)' = Content(o) \o mem
<1>0. /\ mem \in Seq(Byte) /\ Len(mem) \in Nat /\ o \notin failed /\ o \in live
      /\ live' = live
  BY ByteAssumption DEF coMemAdd
<1>1. /\ Content(o) \in Seq(Byte) /\ Len(Content(o)) = len[o] /\ len[o] \in Nat
      /\ \A n \in 1 .. len[o] : Content(o)[n] = str[o][n - 1]
  BY <1>0, ContentSeq, BlockType
<1>2. /\ Inv' /\ o \in live'
  BY <1>0, AddInv
<1>3. CASE mem = <<>>
  <2>1. Content(o)' = Content(o)
    BY <1>3, ContentKept, <1>0 DEF coMemAdd
  <2>2. Content(o) \o <<>> = Content(o)
    BY <1>1
  <2> QED BY <1>3, <2>1, <2>2
<1>4. CASE mem # <<>>
  <2> DEFINE A == Content(o)'
             B == Content(o) \o mem
             bytes == Copied(Resized(str[o], NewMemlen(o, Len(mem))), len[o], mem)
  <2>1. str'[o] = bytes /\ len'[o] = len[o] + Len(mem)
    BY <1>4 DEF coMemAdd, AddBytes, Inv, TypeOK
  <2>2. /\ \A j \in 0 .. len[o] - 1 : bytes[j] = str[o][j]
        /\ \A j \in len[o] .. len[o] + Len(mem) - 1 : bytes[j] = mem[j - len[o] + 1]
    BY <1>0, BytesAdded
  <2>3. /\ B \in Seq(Byte) /\ Len(B) = len[o] + Len(mem)
        /\ \A n \in 1 .. len[o] + Len(mem) :
             B[n] = IF n <= len[o] THEN Content(o)[n] ELSE mem[n - len[o]]
    <3> DEFINE c == Content(o)
    <3>1. c \in Seq(Byte) /\ Len(c) = len[o]
      BY <1>1
    <3> HIDE DEF c
    <3>2. /\ c \o mem \in Seq(Byte) /\ Len(c \o mem) = Len(c) + Len(mem)
          /\ \A n \in 1 .. Len(c) + Len(mem) :
               (c \o mem)[n] = IF n <= Len(c) THEN c[n] ELSE mem[n - Len(c)]
      BY <1>0, <3>1, ConcatProperties
    <3> QED BY <3>1, <3>2 DEF c, B
  <2>4. /\ A \in Seq(Byte) /\ Len(A) = len[o] + Len(mem)
        /\ \A n \in 1 .. len[o] + Len(mem) : A[n] = bytes[n - 1]
    <3>1. A = [n \in 1 .. len'[o] |-> str'[o][n - 1]]
      BY <1>2 DEF Content
    <3>2. \A j \in 0 .. len'[o] - 1 : str'[o][j] \in Byte
      BY <1>2 DEF Inv, BytesInside
    <3>3. \A n \in 1 .. len'[o] : n - 1 \in 0 .. len'[o] - 1
      BY <1>0, <1>1, <2>1
    <3>4. A \in [1 .. len'[o] -> Byte] /\ len'[o] \in Nat
      BY <1>0, <1>1, <2>1, <3>1, <3>2, <3>3
    <3>5. A \in Seq(Byte) /\ Len(A) = len'[o]
      BY <3>4
    <3> QED BY <2>1, <3>1, <3>5
  <2> HIDE DEF A, B, bytes
  <2>5. ASSUME NEW n \in 1 .. len[o] + Len(mem) PROVE A[n] = B[n]
    <3>1. CASE n <= len[o]
      <4>1. n - 1 \in 0 .. len[o] - 1 /\ n \in 1 .. len[o]
        BY <1>0, <1>1, <3>1
      <4> QED BY <1>1, <2>2, <2>3, <2>4, <3>1, <4>1
    <3>2. CASE ~(n <= len[o])
      <4>1. /\ n - 1 \in len[o] .. len[o] + Len(mem) - 1
            /\ (n - 1) - len[o] + 1 = n - len[o]
        BY <1>0, <1>1, <3>2
      <4> QED BY <2>2, <2>3, <2>4, <3>2, <4>1
    <3> QED BY <3>1, <3>2
  <2>6. A = B
    BY <2>3, <2>4, <2>5, SeqEqual
  <2> QED BY <2>6 DEF A, B
<1> QED BY <1>3, <1>4

LEMMA CloneContent ==
  ASSUME Inv, NEW o \in Block, NEW n \in Block, coMemClone(o, n)
  PROVE  Content(n)' = Content(o)
<1>1. /\ len[o] \in Nat /\ o \in live
      /\ len'[n] = len[o] /\ n \in live'
      /\ str'[n] = [j \in 0 .. memlen'[n] - 1 |-> IF j < len[o] THEN str[o][j] ELSE Junk]
  BY BlockType DEF coMemClone, Inv, TypeOK
<1>2. Inv'
  BY CloneInv
<1>3. \A i \in 1 .. len[o] : i - 1 \in 0 .. memlen'[n] - 1 /\ i - 1 < len[o]
  <2>1. \A j \in 0 .. len[o] - 1 : j \in 0 .. memlen'[n] - 1
    BY <1>1, <1>2 DEF Inv, BytesInside
  <2>2. \A i \in 1 .. len[o] : i - 1 \in 0 .. len[o] - 1 /\ i - 1 < len[o]
    BY <1>1
  <2> QED BY <2>1, <2>2
<1>4. \A i \in 1 .. len[o] : str'[n][i - 1] = str[o][i - 1]
  BY <1>1, <1>3
<1> QED BY <1>1, <1>4 DEF Content

\* The abstract state.
Contents == [o \in Block |-> Content(o)]

\* The block o has a new content and the others keep theirs.
LEMMA ContentsExcept ==
  ASSUME Inv, NEW o \in Block, NEW c, Content(o)' = c,
         \A q \in Block \ {o} : /\ q \in live' <=> q \in live
                                /\ str'[q] = str[q] /\ len'[q] = len[q]
  PROVE  Contents' = [Contents EXCEPT ![o] = c]
<1>1. \A q \in Block \ {o} : Content(q)' = Content(q)
  BY ContentKept
<1> QED BY <1>1 DEF Contents

\* The actions of CoBytes, in terms of Contents.
LEMMA BytesDef ==
  /\ Bytes!Init <=> Contents = [o \in Block |-> None] /\ ret = 1
  /\ Bytes!Next <=>
       \/ \E o \in Block :
            \/ /\ Contents[o] = None
               /\ Contents' = [Contents EXCEPT ![o] = <<>>]
               /\ UNCHANGED ret
            \/ Contents' = [Contents EXCEPT ![o] = None] /\ UNCHANGED ret
       \/ \E o \in Block, mem \in Mems :
            /\ Contents[o] # None
            /\ \/ Contents' = [Contents EXCEPT ![o] = @ \o mem] /\ ret' = 1
               \/ ret' = 0 /\ UNCHANGED Contents
       \/ \E o, n \in Block :
            /\ Contents[o] # None /\ Contents[n] = None
            /\ Contents' = [Contents EXCEPT ![n] = Contents[o]]
            /\ UNCHANGED ret
  BY DEF Contents, Bytes!Init, Bytes!Next, Bytes!New, Bytes!Add, Bytes!Clone,
         Bytes!Delete

LEMMA InitRefines == ASSUME Init PROVE Bytes!Init
  BY BytesDef DEF Init, Contents, Content

\* Only blocks that exist have a content.
LEMMA ContentNone ==
  ASSUME Inv, NEW o \in Block
  PROVE  Contents[o] = Content(o) /\ (Contents[o] = None <=> o \notin live)
  BY ContentSeq, ByteAssumption DEF Contents, Content

\* One case per action.
LEMMA NextRefines == ASSUME Inv, Next PROVE Bytes!Next
<1> PICK o \in Block :
      \/ coNewMem(o)
      \/ \E mem \in Mems : coMemAdd(o, mem) \/ coMemAddFails(o, mem)
      \/ \E n \in Block : coMemClone(o, n)
      \/ coMemDestroy(o)
  BY DEF Next
<1>0. Inv'
  BY NextInv
<1>1. CASE coNewMem(o)
  <2>1. Content(o)' = <<>>
    <3>1. Len(Content(o)') = 0 /\ Content(o)' \in Seq(Byte)
      BY <1>0, <1>1, ContentSeq DEF coNewMem, Content, Inv, TypeOK
    <3> QED BY <3>1, EmptySeq
  <2>2. Contents' = [Contents EXCEPT ![o] = <<>>]
    BY <1>1, <2>1, ContentsExcept DEF coNewMem, Inv, TypeOK
  <2> QED BY <1>1, <2>2, BytesDef, ContentNone DEF coNewMem
<1>2. CASE \E mem \in Mems : coMemAdd(o, mem) \/ coMemAddFails(o, mem)
  <2> PICK mem \in Mems : coMemAdd(o, mem) \/ coMemAddFails(o, mem)
    BY <1>2
  <2>1. CASE coMemAdd(o, mem)
    <3>1. Content(o)' = Content(o) \o mem
      BY <2>1, AddContent
    <3>2. Contents' = [Contents EXCEPT ![o] = Content(o) \o mem]
      BY <2>1, <3>1, ContentsExcept DEF coMemAdd, AddBytes, Inv, TypeOK
    <3>3. Contents' = [Contents EXCEPT ![o] = @ \o mem]
      BY <3>2, ContentNone
    <3> QED BY <2>1, <3>3, BytesDef, ContentNone DEF coMemAdd
  <2>2. CASE coMemAddFails(o, mem)
    <3>1. UNCHANGED Contents
      BY <2>2 DEF coMemAddFails, Contents, Content
    <3> QED BY <2>2, <3>1, BytesDef, ContentNone DEF coMemAddFails
  <2> QED BY <2>1, <2>2
<1>3. CASE \E n \in Block : coMemClone(o, n)
  <2> PICK n \in Block : coMemClone(o, n)
    BY <1>3
  <2>1. Contents' = [Contents EXCEPT ![n] = Content(o)]
    BY CloneContent, ContentsExcept DEF coMemClone, Inv, TypeOK
  <2>2. Contents' = [Contents EXCEPT ![n] = Contents[o]]
    BY <2>1, ContentNone
  <2> QED BY <2>2, BytesDef, ContentNone DEF coMemClone
<1>4. CASE coMemDestroy(o)
  <2>1. Content(o)' = None
    BY <1>4 DEF coMemDestroy, Content
  <2>2. Contents' = [Contents EXCEPT ![o] = None]
    BY <1>4, <2>1, ContentsExcept DEF coMemDestroy, Inv, TypeOK
  <2> QED BY <1>4, <2>2, BytesDef DEF coMemDestroy
<1> QED BY <1>1, <1>2, <1>3, <1>4

\* A memory block is the string of the bytes that coMemAdd returned 1 for, and
\* a clone has the bytes of the original (co.c:544-606): memory errors, the
\* doubling of the memory and the bytes not yet written are not visible.
THEOREM ByteStringImplemented == Spec => IsByteString
<1>1. Init => Bytes!Init
  BY InitRefines
<1>2. Inv /\ [Next]_vars => [Bytes!Next]_<<[o \in Block |-> Content(o)], ret>>
  <2>1. ASSUME UNCHANGED vars
        PROVE  UNCHANGED <<[o \in Block |-> Content(o)], ret>>
    BY <2>1 DEF vars, Content
  <2> QED BY <2>1, NextRefines
<1> QED BY <1>1, <1>2, Invariant, PTL DEF Spec, IsByteString, Bytes!Spec

-----------------------------------------------------------------------------
(* A string object implements the text of CoText.                           *)

\* The memory mem has the text t of n bytes and its terminator.
HasText(mem, n, t) ==
  /\ t \in Seq(Byte) /\ n = Len(t)
  /\ DOMAIN mem \subseteq Nat /\ 0 .. n \subseteq DOMAIN mem
  /\ mem[n] = Nul
  /\ \A j \in 0 .. n - 1 : mem[j] = t[j + 1]

StrFlags == {"CO_STRDUP", "CO_STRFREE"}

\* The inductive invariant: every string object has a text.
StrInv ==
  /\ sflags \in [StrObj -> (SUBSET StrFlags) \cup {None}]
  /\ DOMAIN smem = StrObj /\ DOMAIN slen = StrObj
  /\ \A o \in StrObj : Exists(o) => /\ Strings # {}
                                    /\ \E t \in Seq(Byte) : HasText(smem[o], slen[o], t)

\* strlen finds the terminator.
LEMMA StrLenIs ==
  ASSUME NEW mem, NEW n, NEW t, HasText(mem, n, t)
  PROVE  StrLen(mem) = n /\ TextOf(mem, n) = t
<1>1. t \in Seq(Byte) /\ n \in Nat /\ n = Len(t) /\ n \in DOMAIN mem
  BY DEF HasText
<1>2. \A j \in 0 .. n - 1 : mem[j] \in Byte /\ mem[j] # Nul
  <2> SUFFICES ASSUME NEW j \in 0 .. n - 1 PROVE mem[j] \in Byte
    BY StrAssumption
  <2>1. j + 1 \in 1 .. Len(t)
    BY <1>1
  <2>2. t[j + 1] \in Byte
    BY <1>1, <2>1
  <2> QED BY <2>2 DEF HasText
<1>3. StrLen(mem) = n
  <2> DEFINE P(m) == mem[m] = Nul /\ \A j \in 0 .. m - 1 : mem[j] # Nul
  <2>1. n \in DOMAIN mem /\ P(n)
    BY <1>1, <1>2 DEF HasText
  <2>2. StrLen(mem) \in DOMAIN mem /\ P(StrLen(mem))
    BY <2>1 DEF StrLen
  <2>3. StrLen(mem) \in Nat
    BY <2>2 DEF HasText
  <2> DEFINE m == StrLen(mem)
  <2> HIDE DEF m
  <2>4. m \in Nat /\ P(m)
    BY <2>2, <2>3 DEF m
  <2>5. ~(m < n)
    BY <1>1, <1>2, <2>4
  <2>6. ~(n < m)
    BY <1>1, <2>1, <2>4
  <2> QED BY <1>1, <2>4, <2>5, <2>6 DEF m
<1>4. TextOf(mem, n) = t
  <2>1. DOMAIN TextOf(mem, n) = 1 .. n /\ DOMAIN t = 1 .. n
    BY <1>1 DEF TextOf
  <2>2. ASSUME NEW j \in 1 .. n PROVE TextOf(mem, n)[j] = t[j]
    <3>1. j - 1 \in 0 .. n - 1 /\ (j - 1) + 1 = j
      BY <1>1
    <3>2. mem[j - 1] = t[j]
      BY <3>1 DEF HasText
    <3> QED BY <3>2 DEF TextOf
  <2>3. t = [j \in 1 .. n |-> t[j]] /\ TextOf(mem, n) = [j \in 1 .. n |-> mem[j - 1]]
    BY <1>1 DEF TextOf
  <2> QED BY <2>2, <2>3 DEF TextOf
<1> QED BY <1>3, <1>4

\* such a memory satisfies what is promised of the length
LEMMA HasTextLen ==
  ASSUME NEW o \in StrObj, NEW t, HasText(smem[o], slen[o], t)
  PROVE  LenIsStrLen(o)
<1>1. t \in Seq(Byte) /\ slen[o] \in Nat /\ slen[o] = Len(t)
  BY DEF HasText
<1>2. ASSUME NEW j \in 0 .. slen[o] - 1 PROVE smem[o][j] \in Byte
  <2>1. j + 1 \in 1 .. Len(t)
    BY <1>1
  <2>2. t[j + 1] \in Byte
    BY <1>1, <2>1
  <2> QED BY <2>2 DEF HasText
<1> QED BY <1>1, <1>2 DEF LenIsStrLen, HasText

\* strcpy and strncpy: the bytes of s and a terminator behind the first n bytes
\* of mem, whatever was there.
LEMMA CopyText ==
  ASSUME NEW mem, NEW n, NEW t \in Seq(Byte), n = Len(t), NEW s \in Seq(Byte),
         DOMAIN mem \subseteq Nat, 0 .. n + Len(s) \subseteq DOMAIN mem,
         \A j \in 0 .. n - 1 : mem[j] = t[j + 1],
         NEW bytes, DOMAIN bytes = DOMAIN mem,
         \A j \in 0 .. n - 1 : bytes[j] = mem[j],
         \A j \in n .. n + Len(s) - 1 : bytes[j] = s[j - n + 1],
         bytes[n + Len(s)] = Nul
  PROVE  HasText(bytes, n + Len(s), t \o s)
<1>1. n \in Nat /\ Len(s) \in Nat
  OBVIOUS
<1>2. /\ t \o s \in Seq(Byte) /\ Len(t \o s) = n + Len(s)
      /\ \A j \in 1 .. n + Len(s) : (t \o s)[j] = IF j <= n THEN t[j] ELSE s[j - n]
  BY ConcatProperties
<1> DEFINE ts == t \o s
<1> HIDE DEF ts
<1>3. ASSUME NEW j \in 0 .. n + Len(s) - 1 PROVE bytes[j] = ts[j + 1]
  <2>1. j + 1 \in 1 .. n + Len(s)
    BY <1>1
  <2>2. ts[j + 1] = IF j + 1 <= n THEN t[j + 1] ELSE s[j + 1 - n]
    BY <1>2, <2>1 DEF ts
  <2>3. CASE j < n
    BY <1>1, <2>2, <2>3
  <2>4. CASE ~(j < n)
    <3>1. j \in n .. n + Len(s) - 1 /\ j + 1 - n = j - n + 1 /\ ~(j + 1 <= n)
      BY <1>1, <2>4
    <3> QED BY <2>2, <3>1
  <2> QED BY <2>3, <2>4
<1>4. ts \in Seq(Byte) /\ Len(ts) = n + Len(s)
  BY <1>2 DEF ts
<1> QED BY <1>3, <1>4 DEF HasText, ts

\* strcpy of s to the position n of mem
LEMMA Strcpy ==
  ASSUME NEW mem, NEW n, NEW t \in Seq(Byte), n = Len(t), NEW s \in Seq(Byte),
         DOMAIN mem \subseteq Nat, 0 .. n + Len(s) \subseteq DOMAIN mem,
         \A j \in 0 .. n - 1 : mem[j] = t[j + 1]
  PROVE  HasText(Copied(mem, n, Append(s, Nul)), n + Len(s), t \o s)
<1> DEFINE z == Append(s, Nul)
           bytes == Copied(mem, n, z)
<1>1. n \in Nat /\ Len(s) \in Nat
  OBVIOUS
<1>2. /\ Len(z) = Len(s) + 1 /\ z[Len(s) + 1] = Nul
      /\ \A j \in 1 .. Len(s) : z[j] = s[j]
  <2>1. s \in Seq(Byte \cup {Nul}) /\ Nul \in Byte \cup {Nul}
    OBVIOUS
  <2> QED BY <2>1, AppendProperties
<1> HIDE DEF z
<1>3. /\ DOMAIN bytes = DOMAIN mem
      /\ \A j \in DOMAIN mem :
           bytes[j] = IF n <= j /\ j < n + Len(z) THEN z[j - n + 1] ELSE mem[j]
  BY DEF Copied
<1> HIDE DEF bytes
<1>4. ASSUME NEW j \in 0 .. n - 1 PROVE bytes[j] = mem[j]
  BY <1>1, <1>3
<1>5. ASSUME NEW j \in n .. n + Len(s) - 1 PROVE bytes[j] = s[j - n + 1]
  <2>1. j \in DOMAIN mem /\ n <= j /\ j < n + Len(z) /\ j - n + 1 \in 1 .. Len(s)
    BY <1>1, <1>2
  <2> QED BY <1>2, <1>3, <2>1
<1>6. bytes[n + Len(s)] = Nul
  <2>1. /\ n + Len(s) \in DOMAIN mem /\ n <= n + Len(s) /\ n + Len(s) < n + Len(z)
        /\ (n + Len(s)) - n + 1 = Len(s) + 1
    BY <1>1, <1>2
  <2> QED BY <1>2, <1>3, <2>1
<1>7. HasText(bytes, n + Len(s), t \o s)
  BY <1>3, <1>4, <1>5, <1>6, CopyText
<1> QED BY <1>7 DEF bytes, z

\* strncpy of s to the position n of mem, and the terminator behind it
LEMMA Strncpy ==
  ASSUME NEW mem, NEW n, NEW t \in Seq(Byte), n = Len(t), NEW s \in Seq(Byte),
         DOMAIN mem \subseteq Nat, 0 .. n + Len(s) \subseteq DOMAIN mem,
         \A j \in 0 .. n - 1 : mem[j] = t[j + 1]
  PROVE  HasText([Copied(mem, n, s) EXCEPT ![n + Len(s)] = Nul], n + Len(s), t \o s)
<1> DEFINE bytes == [Copied(mem, n, s) EXCEPT ![n + Len(s)] = Nul]
<1>1. n \in Nat /\ Len(s) \in Nat /\ n + Len(s) \in DOMAIN mem
  OBVIOUS
<1>3. /\ DOMAIN bytes = DOMAIN mem
      /\ \A j \in DOMAIN mem : bytes[j] = IF j = n + Len(s) THEN Nul
                                          ELSE IF n <= j /\ j < n + Len(s) THEN s[j - n + 1]
                                          ELSE mem[j]
  BY DEF Copied
<1> HIDE DEF bytes
<1>4. ASSUME NEW j \in 0 .. n - 1 PROVE bytes[j] = mem[j]
  BY <1>1, <1>3
<1>5. ASSUME NEW j \in n .. n + Len(s) - 1 PROVE bytes[j] = s[j - n + 1]
  <2>1. j \in DOMAIN mem /\ n <= j /\ j < n + Len(s)
    BY <1>1
  <2> QED BY <1>3, <2>1
<1>6. bytes[n + Len(s)] = Nul
  BY <1>1, <1>3
<1>7. HasText(bytes, n + Len(s), t \o s)
  BY <1>3, <1>4, <1>5, <1>6, CopyText
<1> QED BY <1>7 DEF bytes

\* realloc keeps the text, and makes room
LEMMA ResizedKeeps ==
  ASSUME NEW mem, NEW n, NEW t, HasText(mem, n, t), NEW m \in Nat
  PROVE  /\ DOMAIN Resized(mem, n + m + 1) \subseteq Nat
         /\ 0 .. n + m \subseteq DOMAIN Resized(mem, n + m + 1)
         /\ \A j \in 0 .. n - 1 : Resized(mem, n + m + 1)[j] = t[j + 1]
<1>1. n \in Nat /\ 0 .. n \subseteq DOMAIN mem /\ \A j \in 0 .. n - 1 : mem[j] = t[j + 1]
  BY DEF HasText
<1>2. ASSUME NEW j \in 0 .. n - 1 PROVE Resized(mem, n + m + 1)[j] = t[j + 1]
  <2>1. j \in 0 .. (n + m + 1) - 1 /\ j \in DOMAIN mem
    BY <1>1
  <2>2. Resized(mem, n + m + 1)[j] = mem[j]
    BY <2>1 DEF Resized
  <2> QED BY <1>1, <2>2
<1>3. DOMAIN Resized(mem, n + m + 1) = 0 .. n + m
  BY <1>1 DEF Resized
<1> QED BY <1>1, <1>2, <1>3

\* new memory
LEMMA NewText ==
  ASSUME NEW s \in Seq(Byte)
  PROVE  /\ HasText(CStringOf(s), Len(s), s)
         /\ HasText([Copied(Resized(<<>>, Len(s) + 1), 0, s) EXCEPT ![Len(s)] = Nul],
                    Len(s), s)
<1> DEFINE mem == Resized(<<>>, Len(s) + 1)
<1>1. Len(s) \in Nat /\ DOMAIN mem = 0 .. Len(s)
  BY DEF Resized
<1>2. <<>> \in Seq(Byte) /\ Len(<<>>) = 0 /\ <<>> \o s = s
  OBVIOUS
<1> HIDE DEF mem
<1>3. \A j \in 0 .. 0 - 1 : mem[j] = <<>>[j + 1]
  OBVIOUS
<1>4. /\ DOMAIN mem \subseteq Nat /\ 0 .. 0 + Len(s) \subseteq DOMAIN mem
      /\ 0 + Len(s) = Len(s)
  BY <1>1
<1>5. HasText(Copied(mem, 0, Append(s, Nul)), 0 + Len(s), <<>> \o s)
  BY <1>2, <1>3, <1>4, Strcpy
<1>6. HasText([Copied(mem, 0, s) EXCEPT ![0 + Len(s)] = Nul], 0 + Len(s), <<>> \o s)
  BY <1>2, <1>3, <1>4, Strncpy
<1> QED BY <1>2, <1>4, <1>5, <1>6 DEF CStringOf, mem

-----------------------------------------------------------------------------

\* The abstract state.
Texts == [o \in StrObj |-> IF ~Exists(o) THEN None
                           ELSE IF LenIsStrLen(o) THEN TextOf(smem[o], slen[o])
                           ELSE <<Junk>>]

\* The actions of CoText, in terms of Texts.
LEMMA TextDef ==
  /\ Text!Init <=> Texts = [o \in StrObj |-> None] /\ sret = 1 /\ taken = None
  /\ \A o \in StrObj : \A s : Text!New(o, s) <=>
       /\ Texts[o] = None /\ Texts' = [Texts EXCEPT ![o] = s]
       /\ taken' = None /\ UNCHANGED sret
  /\ \A o \in StrObj : \A s : Text!Change(o, s) <=>
       /\ Texts[o] # None
       /\ \/ Texts' = [Texts EXCEPT ![o] = s] /\ sret' = 1
          \/ sret' = 0 /\ UNCHANGED Texts
       /\ taken' = None
  /\ \A o, n \in StrObj : Text!Clone(o, n) <=>
       /\ Texts[o] # None /\ Texts[n] = None
       /\ Texts' = [Texts EXCEPT ![n] = Texts[o]]
       /\ taken' = None /\ UNCHANGED sret
  /\ \A o \in StrObj : Text!Delete(o) <=>
       /\ Texts' = [Texts EXCEPT ![o] = None]
       /\ taken' \in {None, Texts[o]}
       /\ UNCHANGED sret
  /\ Text!Next <=>
       \/ \E o \in StrObj, s \in Strings :
            Text!New(o, s) \/ Text!Change(o, s) \/ Text!Change(o, Texts[o] \o s)
       \/ \E o, n \in StrObj : Text!Clone(o, n)
       \/ \E o \in StrObj : Text!Delete(o)
  BY DEF Texts, Text!Init, Text!Next, Text!New, Text!Change, Text!Clone, Text!Delete

\* What an object is, by the invariant.
LEMMA TextFacts ==
  ASSUME StrInv, NEW o \in StrObj, Exists(o)
  PROVE  /\ Strings # {}
         /\ Texts[o] \in Seq(Byte) /\ Texts[o] # None
         /\ HasText(smem[o], slen[o], Texts[o])
         /\ TextOf(smem[o], StrLen(smem[o])) = Texts[o]
         /\ slen[o] \in Nat
<1>1. PICK t \in Seq(Byte) : HasText(smem[o], slen[o], t)
  BY DEF StrInv
<1>2. StrLen(smem[o]) = slen[o] /\ TextOf(smem[o], slen[o]) = t
  BY <1>1, StrLenIs
<1>3. LenIsStrLen(o)
  BY <1>1, HasTextLen
<1>4. Texts[o] = t
  BY <1>2, <1>3 DEF Texts
<1> QED BY <1>1, <1>2, <1>4, ByteAssumption DEF StrInv, HasText

LEMMA NoText ==
  ASSUME NEW o \in StrObj, ~Exists(o) PROVE Texts[o] = None
  BY DEF Texts

\* The object o gets the text t, and the others keep theirs.
LEMMA MadeText ==
  ASSUME StrInv, Strings # {}, NEW o \in StrObj, NEW flags \in SUBSET StrFlags,
         NEW mem, NEW n, NEW t, HasText(mem, n, t), Made(o, flags, mem, n)
  PROVE  StrInv' /\ Texts' = [Texts EXCEPT ![o] = t]
<1>1. /\ sflags'[o] = flags /\ smem'[o] = mem /\ slen'[o] = n
      /\ DOMAIN smem' = StrObj /\ DOMAIN slen' = StrObj
      /\ sflags' \in [StrObj -> (SUBSET StrFlags) \cup {None}]
  BY DEF Made, StrInv
<1>2. \A q \in StrObj \ {o} :
        sflags'[q] = sflags[q] /\ smem'[q] = smem[q] /\ slen'[q] = slen[q]
  BY DEF Made, StrInv
<1>3. flags # None
  BY StrAssumption DEF StrFlags
<1>4. t \in Seq(Byte)
  BY DEF HasText
<1>5. StrInv'
  BY <1>1, <1>2, <1>4 DEF StrInv, Exists
<1>6. LenIsStrLen(o)'
  <2>1. HasText(smem'[o], slen'[o], t)
    BY <1>1
  <2>2. t \in Seq(Byte) /\ slen'[o] \in Nat /\ slen'[o] = Len(t)
    BY <2>1 DEF HasText
  <2>3. ASSUME NEW j \in 0 .. slen'[o] - 1 PROVE smem'[o][j] \in Byte
    <3>1. j + 1 \in 1 .. Len(t)
      BY <2>2
    <3>2. t[j + 1] \in Byte
      BY <2>2, <3>1
    <3> QED BY <2>1, <3>2 DEF HasText
  <2> QED BY <2>1, <2>2, <2>3 DEF LenIsStrLen, HasText
<1>7. Texts'[o] = t
  <2>1. TextOf(mem, n) = t
    BY StrLenIs
  <2>2. Texts'[o] = TextOf(smem'[o], slen'[o])
    BY <1>1, <1>3, <1>6 DEF Texts, Exists
  <2> QED BY <1>1, <2>1, <2>2
<1>8. ASSUME NEW q \in StrObj \ {o} PROVE Texts'[q] = Texts[q]
  BY <1>2, <1>8 DEF Texts, Exists, LenIsStrLen, TextOf
<1>9. Texts' = [q \in StrObj |-> Texts'[q]] /\ DOMAIN Texts = StrObj
  BY DEF Texts
<1> HIDE DEF Texts
<1> QED BY <1>5, <1>7, <1>8, <1>9

\* The object o is deleted.
LEMMA MadeNone ==
  ASSUME StrInv, NEW o \in StrObj, Made(o, None, <<>>, 0)
  PROVE  StrInv' /\ Texts' = [Texts EXCEPT ![o] = None]
<1>1. /\ sflags'[o] = None
      /\ DOMAIN smem' = StrObj /\ DOMAIN slen' = StrObj
      /\ sflags' \in [StrObj -> (SUBSET StrFlags) \cup {None}]
  BY DEF Made, StrInv
<1>2. \A q \in StrObj \ {o} :
        sflags'[q] = sflags[q] /\ smem'[q] = smem[q] /\ slen'[q] = slen[q]
  BY DEF Made, StrInv
<1>3. StrInv'
  BY <1>1, <1>2 DEF StrInv, Exists
<1>4. Texts'[o] = None
  BY <1>1 DEF Texts, Exists
<1>5. ASSUME NEW q \in StrObj \ {o} PROVE Texts'[q] = Texts[q]
  BY <1>2, <1>5 DEF Texts, Exists, LenIsStrLen, TextOf
<1>6. Texts' = [q \in StrObj |-> Texts'[q]] /\ DOMAIN Texts = StrObj
  BY DEF Texts
<1> HIDE DEF Texts
<1> QED BY <1>3, <1>4, <1>5, <1>6

\* Nothing changes but what was returned.
LEMMA SameText ==
  ASSUME StrInv, UNCHANGED <<sflags, smem, slen>>
  PROVE  StrInv' /\ Texts' = Texts
  BY DEF StrInv, Texts, Exists, LenIsStrLen, TextOf

\* A call that fails changes no text.
LEMMA FailText ==
  ASSUME StrInv, NEW o \in StrObj, Exists(o), Unchanged0(o)
  PROVE  StrInv' /\ Text!Next
<1>1. StrInv' /\ Texts' = Texts /\ sret' = 0 /\ taken' = None
  BY SameText DEF Unchanged0
<1>2. PICK s \in Strings : TRUE
  BY TextFacts
<1>3. Text!Change(o, s)
  BY <1>1, TextFacts, TextDef
<1> QED BY <1>1, <1>3, TextDef

LEMMA NewStrText ==
  ASSUME StrInv, NEW o \in StrObj, NEW t \in Seq(Byte), Strings # {},
         NEW flags \in SUBSET StrFlags, coNewStr(o, t, flags)
  PROVE  StrInv' /\ Text!New(o, t)
<1> DEFINE f == IF "CO_STRDUP" \in flags THEN flags \cup {"CO_STRFREE"} ELSE flags
<1>1. HasText(CStringOf(t), Len(t), t)
  BY NewText
<1>2. StrLen(CStringOf(t)) = Len(t)
  BY <1>1, StrLenIs
<1>3. Made(o, f, CStringOf(t), Len(t)) /\ ~Exists(o) /\ taken' = None /\ sret' = sret
  BY <1>2 DEF coNewStr
<1>4. f \in SUBSET StrFlags
  BY DEF StrFlags
<1> HIDE DEF f
<1>5. StrInv' /\ Texts' = [Texts EXCEPT ![o] = t]
  BY <1>1, <1>3, <1>4, MadeText
<1> QED BY <1>3, <1>5, NoText, TextDef

\* coStrAdd and coStrAddWithLen
LEMMA AddText ==
  ASSUME StrInv, NEW o \in StrObj, NEW s \in Strings,
         coStrAdd(o, s) \/ coStrAddWithLen(o, s)
  PROVE  StrInv' /\ Text!Change(o, Texts[o] \o s)
<1> DEFINE t == Texts[o]
           mem == Resized(smem[o], slen[o] + Len(s) + 1)
           bytes == IF coStrAdd(o, s) THEN Copied(mem, slen[o], Append(s, Nul))
                    ELSE [Copied(mem, slen[o], s) EXCEPT ![slen[o] + Len(s)] = Nul]
<1>1. Exists(o) /\ s \in Seq(Byte) /\ Strings # {} /\ sret' = 1 /\ taken' = None
  BY StrAssumption DEF coStrAdd, coStrAddWithLen, Dup
<1>2. t \in Seq(Byte) /\ HasText(smem[o], slen[o], t) /\ slen[o] \in Nat /\ slen[o] = Len(t)
  BY <1>1, TextFacts DEF HasText
<1>3. Len(s) \in Nat
  BY <1>1
<1> HIDE DEF t
<1>4. /\ DOMAIN mem \subseteq Nat /\ 0 .. slen[o] + Len(s) \subseteq DOMAIN mem
      /\ \A j \in 0 .. slen[o] - 1 : mem[j] = t[j + 1]
  <2> DEFINE n == slen[o]
             m == Len(s)
  <2>1. m \in Nat /\ HasText(smem[o], n, t)
    BY <1>2, <1>3
  <2> HIDE DEF n, m
  <2>2. /\ DOMAIN Resized(smem[o], n + m + 1) \subseteq Nat
        /\ 0 .. n + m \subseteq DOMAIN Resized(smem[o], n + m + 1)
        /\ \A j \in 0 .. n - 1 : Resized(smem[o], n + m + 1)[j] = t[j + 1]
    BY <2>1, ResizedKeeps
  <2> QED BY <2>2 DEF n, m
<1> HIDE DEF mem
<1>5. HasText(Copied(mem, slen[o], Append(s, Nul)), slen[o] + Len(s), t \o s)
  BY <1>1, <1>2, <1>4, Strcpy
<1>6. HasText([Copied(mem, slen[o], s) EXCEPT ![slen[o] + Len(s)] = Nul],
              slen[o] + Len(s), t \o s)
  BY <1>1, <1>2, <1>4, Strncpy
<1>7. HasText(bytes, slen[o] + Len(s), t \o s)
  BY <1>5, <1>6
<1>8. /\ sflags' = [sflags EXCEPT ![o] = sflags[o]]
      /\ smem' = [smem EXCEPT ![o] = bytes]
      /\ slen' = [slen EXCEPT ![o] = slen[o] + Len(s)]
  BY DEF coStrAdd, coStrAddWithLen, mem, StrInv
<1>9. sflags[o] \in SUBSET StrFlags
  BY <1>1 DEF StrInv, Exists
<1> HIDE DEF bytes
<1>10. StrInv' /\ Texts' = [Texts EXCEPT ![o] = t \o s]
  BY <1>1, <1>7, <1>8, <1>9, MadeText DEF Made
<1> QED BY <1>1, <1>10, TextFacts, TextDef DEF t

\* coStrSet: a string that is not longer is copied into the memory that is there.
LEMMA SetText ==
  ASSUME StrInv, NEW o \in StrObj, NEW s \in Strings, coStrSet(o, s)
  PROVE  StrInv' /\ Text!Change(o, s)
<1> DEFINE mem == IF Len(s) <= slen[o] THEN smem[o] ELSE Resized(smem[o], Len(s) + 1)
           bytes == Copied(mem, 0, Append(s, Nul))
<1>1. /\ Exists(o) /\ s \in Seq(Byte) /\ Strings # {} /\ sret' = 1 /\ taken' = None
      /\ Len(s) \in Nat
  BY StrAssumption DEF coStrSet, Dup
<1>2. HasText(smem[o], slen[o], Texts[o]) /\ slen[o] \in Nat
  BY <1>1, TextFacts
<1>3. DOMAIN mem \subseteq Nat /\ 0 .. Len(s) \subseteq DOMAIN mem
  <2>1. CASE Len(s) <= slen[o]
    BY <1>1, <1>2, <2>1 DEF HasText
  <2>2. CASE ~(Len(s) <= slen[o])
    <3>1. DOMAIN Resized(smem[o], Len(s) + 1) = 0 .. Len(s)
      BY <1>1 DEF Resized
    <3> QED BY <1>1, <2>2, <3>1
  <2> QED BY <2>1, <2>2
<1> HIDE DEF mem
<1>4. HasText(bytes, Len(s), s)
  <2>1. <<>> \in Seq(Byte) /\ Len(<<>>) = 0 /\ <<>> \o s = s /\ 0 + Len(s) = Len(s)
    BY <1>1
  <2>2. \A j \in 0 .. 0 - 1 : mem[j] = <<>>[j + 1]
    OBVIOUS
  <2>3. 0 .. 0 + Len(s) \subseteq DOMAIN mem
    BY <1>3, <2>1
  <2>4. HasText(Copied(mem, 0, Append(s, Nul)), 0 + Len(s), <<>> \o s)
    BY <1>1, <1>3, <2>1, <2>2, <2>3, Strcpy
  <2> QED BY <2>1, <2>4
<1>5. /\ sflags' = [sflags EXCEPT ![o] = sflags[o]]
      /\ smem' = [smem EXCEPT ![o] = bytes]
      /\ slen' = [slen EXCEPT ![o] = Len(s)]
  BY DEF coStrSet, mem, StrInv
<1>6. sflags[o] \in SUBSET StrFlags
  BY <1>1 DEF StrInv, Exists
<1> HIDE DEF bytes
<1>7. StrInv' /\ Texts' = [Texts EXCEPT ![o] = s]
  BY <1>1, <1>4, <1>5, <1>6, MadeText DEF Made
<1> QED BY <1>1, <1>7, TextFacts, TextDef

\* One case per action.
LEMMA StrNextText == ASSUME StrInv, StrNext PROVE StrInv' /\ Text!Next
<1> PICK o \in StrObj :
      \/ \E s \in Strings, flags \in SUBSET StrFlags : coNewStr(o, s, flags)
      \/ \E flags \in SUBSET StrFlags : coNewStrFails(o, flags)
      \/ \E s \in Strings :
           \/ coNewStrWithLen(o, s) \/ coStrAdd(o, s) \/ coStrAddWithLen(o, s)
           \/ coStrSet(o, s) \/ coStrSetFails(o, s)
      \/ AddFailsOrNotDup(o)
      \/ \E n \in StrObj : coStrClone(o, n)
      \/ coStrDestroy(o)
      \/ coStrDeleteAndGetAllocatedStringContent(o)
  BY DEF StrNext, StrFlags
<1>0. \A s \in Strings : s \in Seq(Byte)
  BY StrAssumption
<1>1. ASSUME NEW s \in Strings, NEW flags \in SUBSET StrFlags, coNewStr(o, s, flags)
      PROVE  StrInv' /\ Text!Next
  <2>1. s \in Seq(Byte) /\ Strings # {}
    BY <1>0
  <2> QED BY <1>1, <2>1, NewStrText, TextDef
<1>2. ASSUME NEW flags \in SUBSET StrFlags, coNewStrFails(o, flags)
      PROVE  StrInv' /\ Text!Next
  <2>1. /\ UNCHANGED <<sflags, smem, slen>> /\ sret' = sret /\ taken' = None
        /\ ~Exists(o)
    BY <1>2 DEF coNewStrFails
  <2>2. StrInv' /\ Texts' = Texts /\ Texts[o] = None
    BY <2>1, SameText, NoText
  <2>3. Texts' = [Texts EXCEPT ![o] = None]
    BY <2>2 DEF Texts
  <2>4. Text!Delete(o)
    BY <2>1, <2>3, TextDef
  <2> QED BY <2>2, <2>4, TextDef
<1>3. ASSUME NEW s \in Strings, coNewStrWithLen(o, s) PROVE StrInv' /\ Text!Next
  <2> DEFINE mem == [Copied(Resized(<<>>, Len(s) + 1), 0, s) EXCEPT ![Len(s)] = Nul]
  <2>1. HasText(mem, Len(s), s)
    BY <1>0, NewText
  <2>2. /\ Made(o, StrFlags, mem, Len(s))
        /\ ~Exists(o) /\ taken' = None /\ sret' = sret
    BY <1>3 DEF coNewStrWithLen, StrFlags
  <2> HIDE DEF mem
  <2>3. StrInv' /\ Texts' = [Texts EXCEPT ![o] = s]
    BY <2>1, <2>2, MadeText
  <2>4. Text!New(o, s)
    BY <2>2, <2>3, NoText, TextDef
  <2> QED BY <2>3, <2>4, TextDef
<1>4. ASSUME NEW s \in Strings, coStrAdd(o, s) \/ coStrAddWithLen(o, s)
      PROVE  StrInv' /\ Text!Next
  BY <1>4, AddText, TextDef
<1>5. ASSUME NEW s \in Strings, coStrSet(o, s) PROVE StrInv' /\ Text!Next
  BY <1>5, SetText, TextDef
<1>6. ASSUME NEW s \in Strings, coStrSetFails(o, s) PROVE StrInv' /\ Text!Next
  BY <1>6, FailText DEF coStrSetFails
<1>7. CASE AddFailsOrNotDup(o)
  BY <1>7, FailText DEF AddFailsOrNotDup
<1>8. ASSUME NEW n \in StrObj, coStrClone(o, n) PROVE StrInv' /\ Text!Next
  <2> DEFINE flags == sflags[o] \cup StrFlags
  <2>1. /\ Exists(o) /\ Strings # {} /\ Texts[o] \in Seq(Byte) /\ Texts[o] # None
        /\ TextOf(smem[o], StrLen(smem[o])) = Texts[o]
    BY <1>8, TextFacts DEF coStrClone
  <2>2. flags \in SUBSET StrFlags
    BY <2>1 DEF StrInv, Exists
  <2>3. coNewStr(n, Texts[o], flags)
    BY <1>8, <2>1 DEF coStrClone, StrFlags
  <2> HIDE DEF flags
  <2>4. StrInv' /\ Text!New(n, Texts[o])
    BY <2>1, <2>2, <2>3, NewStrText
  <2>5. Text!Clone(o, n)
    BY <2>1, <2>4, TextDef
  <2> QED BY <2>4, <2>5, TextDef
<1>9. CASE coStrDestroy(o)
  <2>1. StrInv' /\ Texts' = [Texts EXCEPT ![o] = None]
    BY <1>9, MadeNone DEF coStrDestroy
  <2>2. Text!Delete(o)
    BY <1>9, <2>1, TextDef DEF coStrDestroy
  <2> QED BY <2>1, <2>2, TextDef
<1>10. CASE coStrDeleteAndGetAllocatedStringContent(o)
  <2>1. StrInv' /\ Texts' = [Texts EXCEPT ![o] = None]
    BY <1>10, MadeNone DEF coStrDeleteAndGetAllocatedStringContent
  <2>2. TextOf(smem[o], StrLen(smem[o])) = Texts[o]
    BY <1>10, TextFacts DEF coStrDeleteAndGetAllocatedStringContent
  <2>3. Text!Delete(o)
    BY <1>10, <2>1, <2>2, TextDef DEF coStrDeleteAndGetAllocatedStringContent
  <2> QED BY <2>1, <2>3, TextDef
<1> QED BY <1>1, <1>2, <1>3, <1>4, <1>5, <1>6, <1>7, <1>8, <1>9, <1>10

\* A string object is the text that was put into it (co.c:355-511): the length
\* that is kept and the terminator agree after every sequence of calls, when a
\* shorter text is written over a longer one, and after every memory error.
THEOREM TextImplemented == StrSpec => IsText
<1>1. StrInit => StrInv /\ Text!Init
  <2> SUFFICES ASSUME StrInit PROVE StrInv /\ Text!Init
    OBVIOUS
  <2>1. StrInv
    BY DEF StrInit, StrInv, Exists
  <2>2. \A o \in StrObj : Texts[o] = None
    BY NoText DEF StrInit, Exists
  <2>3. Texts = [o \in StrObj |-> None]
    BY <2>2 DEF Texts
  <2> QED BY <2>1, <2>3, TextDef DEF StrInit
<1>2. StrInv /\ [StrNext]_strVars => StrInv' /\ [Text!Next]_<<Texts, sret, taken>>
  <2>1. ASSUME StrInv, UNCHANGED strVars PROVE StrInv' /\ UNCHANGED <<Texts, sret, taken>>
    <3>1. UNCHANGED <<sflags, smem, slen, sret, taken>>
      BY <2>1 DEF strVars
    <3> QED BY <2>1, <3>1, SameText
  <2> QED BY <2>1, StrNextText
<1> QED BY <1>1, <1>2, PTL DEF StrSpec, IsText, Text!Spec, Texts
=============================================================================
