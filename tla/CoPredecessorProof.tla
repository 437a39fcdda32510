-------------------------- MODULE CoPredecessorProof --------------------------
(***************************************************************************)
(* The binary search of co.c returns the predecessor, for every sorted     *)
(* vector and every key; and getMemoryArea, which uses it, returns bytes   *)
(* that the file has for the addresses asked for, and finds every range    *)
(* inside of a record when records do not overlap, but for what memory     *)
(* errors in coNewVectorByMap have left out.                               *)
(***************************************************************************)
EXTENDS CoMemoryImage, FiniteSetTheorems, SequenceTheorems, TLAPS

\* The keys below lower_pos are lower or equal to the search key, those from
\* upper_pos on are greater, and the rest is still to be searched.
Split ==
  /\ \A i \in 0 .. lower_pos - 1 : v[i] <= search_key
  /\ \A i \in upper_pos .. size - 1 : v[i] > search_key

Inv ==
  /\ size \in Nat
  /\ v \in [0 .. size - 1 -> Int]
  /\ search_key \in Int
  /\ lower_pos \in Int /\ upper_pos \in Int
  /\ 0 <= lower_pos /\ lower_pos <= upper_pos /\ upper_pos <= size
  /\ Sorted(v, size) => Split
  /\ result \in Int
  /\ result # -2 => lower_pos = upper_pos /\ result = upper_pos - 1

LEMMA InitInv == ASSUME SearchInit PROVE Inv
<1>1. size \in Nat /\ v \in [0 .. size - 1 -> Int] /\ search_key \in Int
  <2>1. v = [i \in 0 .. size - 1 |-> v[i]] /\ \A i \in 0 .. size - 1 : v[i] \in Keys
    BY DEF SearchInit
  <2>2. v \in [0 .. size - 1 -> Int]
    BY <2>1, KeysAssumption
  <2> QED BY <2>2, KeysAssumption DEF SearchInit
<1>2. (0 .. lower_pos - 1) = {} /\ (upper_pos .. size - 1) = {}
  BY <1>1 DEF SearchInit
<1>3. /\ lower_pos = 0 /\ upper_pos = size /\ result = -2
  BY DEF SearchInit
<1> QED BY <1>1, <1>2, <1>3 DEF Inv, Split

\* The middle lies between the bounds.
LEMMA Middle ==
  ASSUME Inv, lower_pos < upper_pos
  PROVE  /\ mid_pos \in Int /\ lower_pos <= mid_pos /\ mid_pos < upper_pos
         /\ mid_pos \in 0 .. size - 1
  BY DEF Inv, mid_pos

LEMMA CompareInv == ASSUME Inv, Compare PROVE Inv'
<1>1. /\ mid_pos \in Int /\ lower_pos <= mid_pos /\ mid_pos < upper_pos
      /\ mid_pos \in 0 .. size - 1
  BY Middle DEF Compare
<1>2. \A i \in 0 .. size - 1 : v[i] \in Int
  BY KeysAssumption DEF Inv
<1>3. search_key \in Int
  BY KeysAssumption DEF Inv
<1> HIDE DEF mid_pos
<1>4. /\ size' = size /\ v' = v /\ search_key' = search_key /\ result' = result
      /\ Sorted(v, size)' = Sorted(v, size)
  BY DEF Compare, Sorted
<1>5. /\ lower_pos' \in Int /\ upper_pos' \in Int
      /\ 0 <= lower_pos' /\ lower_pos' <= upper_pos' /\ upper_pos' <= size
  BY <1>1 DEF Inv, Compare
<1>6. ASSUME Sorted(v, size) PROVE Split'
  <2>1. CASE v[mid_pos] > search_key
    <3>1. \A i \in mid_pos .. size - 1 : v[i] > search_key
      <4>1. \A i \in mid_pos .. size - 1 : i \in 0 .. size - 1 /\ v[mid_pos] <= v[i]
        BY <1>1, <1>6 DEF Inv, Sorted
      <4> QED BY <1>1, <1>2, <1>3, <2>1, <4>1
    <3> QED BY <1>1, <1>4, <1>6, <2>1, <3>1 DEF Inv, Split, Compare, Greater
  <2>2. CASE ~(v[mid_pos] > search_key)
    <3>1. \A i \in 0 .. mid_pos : v[i] <= search_key
      <4>1. \A i \in 0 .. mid_pos : i \in 0 .. size - 1 /\ v[i] <= v[mid_pos]
        BY <1>1, <1>6 DEF Inv, Sorted
      <4> QED BY <1>1, <1>2, <1>3, <2>2, <4>1
    <3>2. \A i \in 0 .. lower_pos' - 1 : v[i] <= search_key
      BY <1>1, <2>2, <3>1 DEF Compare, Greater
    <3> QED BY <1>1, <1>4, <1>6, <2>2, <3>2 DEF Inv, Split, Compare, Greater
  <2> QED BY <2>1, <2>2
<1>7. result' = -2
  BY <1>4 DEF Compare
<1> QED BY <1>4, <1>5, <1>6, <1>7 DEF Inv

LEMMA FoundInv == ASSUME Inv, Found PROVE Inv'
<1>1. /\ UNCHANGED <<v, size, search_key, lower_pos, upper_pos>>
      /\ lower_pos = upper_pos /\ result' = upper_pos - 1
  BY DEF Inv, Found
<1>2. Sorted(v, size)' = Sorted(v, size) /\ Split' = Split
  BY <1>1 DEF Sorted, Split
<1> QED BY <1>1, <1>2 DEF Inv

LEMMA Invariant == SearchSpec => []Inv
<1>1. Inv /\ [SearchNext]_searchVars => Inv'
  <2>1. ASSUME Inv, UNCHANGED searchVars PROVE Inv'
    BY <2>1 DEF Inv, Split, Sorted, searchVars
  <2> QED BY <2>1, CompareInv, FoundInv DEF SearchNext
<1> QED BY <1>1, InitInv, PTL DEF SearchSpec

\* coVectorPredecessorBinarySearch reads inside the vector, whatever its size.
THEOREM SearchReadsInside == SearchSpec => []ReadsInside
<1>1. Inv => ReadsInside
  BY Middle DEF ReadsInside
<1> QED BY <1>1, Invariant, PTL

LEMMA PredecessorFound == ASSUME Inv PROVE Predecessor
<1>1. (\A i \in 0 .. size - 1 : v[i] \in Int) /\ search_key \in Int
  BY DEF Inv
<1> QED BY <1>1 DEF Inv, Split, Predecessor

\* coVectorPredecessorBinarySearch returns the predecessor that its comment
\* (co.c:1174-1203) describes, for every sorted vector and every search key.
THEOREM SearchCorrect == SearchSpec => []Predecessor
  BY PredecessorFound, Invariant, PTL

-----------------------------------------------------------------------------
(* The vector of a map *)

InOrder(S, n) == [i \in 0 .. n - 1 |-> CHOOSE a \in S : Before(S, a) = i]

\* w has the n keys of S, in order
HasKeys(S, n, w) ==
  /\ n \in Nat /\ w \in [0 .. n - 1 -> Int] /\ Sorted(w, n)
  /\ \A i \in 0 .. n - 1 : w[i] \in S
  /\ \A a \in S : \E i \in 0 .. n - 1 : w[i] = a

\* the elements of w are blocks of S, in order when all have their keys
HasBlocks(S, n, w) ==
  /\ n \in Nat /\ w \in [0 .. n - 1 -> Int]
  /\ \A i \in 0 .. n - 1 : BlockOf(w[i]) \in S
  /\ (\A i \in 0 .. n - 1 : w[i] >= 0) => Sorted(w, n)

\* The number of smaller keys is different for every key, and every number below
\* that of the keys occurs: the vector has every key, in order.
LEMMA KeysInOrder ==
  ASSUME NEW S, S \subseteq Nat, IsFiniteSet(S),
         NEW n, n = Cardinality(S),
         NEW w, w = InOrder(S, n)
  PROVE  HasKeys(S, n, w)
<1> DEFINE B(a) == {b \in S : b < a}
           f == [a \in S |-> Before(S, a)]
<1>1. n \in Nat
  BY FS_CardinalityType
<1>2. ASSUME NEW a \in S PROVE Before(S, a) \in 0 .. n - 1
  <2>1. B(a) \in SUBSET S /\ a \in S /\ a \notin B(a)
    OBVIOUS
  <2>2. /\ IsFiniteSet(B(a)) /\ Cardinality(B(a)) \in Nat
        /\ Cardinality(B(a)) <= n /\ Cardinality(B(a)) # n
    BY <2>1, FS_Subset, FS_CardinalityType
  <2> QED BY <1>1, <2>2 DEF Before
<1>3. ASSUME NEW a \in S, NEW b \in S, a < b PROVE Before(S, a) < Before(S, b)
  <2>1. B(a) \in SUBSET B(b) /\ a \in B(b) /\ a \notin B(a) /\ B(b) \in SUBSET S
    <3>1. a \in Int /\ b \in Int
      OBVIOUS
    <3>2. ASSUME NEW c \in S, c < a PROVE c < b
      <4>1. c \in Int
        OBVIOUS
      <4> QED BY <1>3, <3>1, <3>2, <4>1
    <3>3. ~(a < a)
      BY <3>1
    <3> QED BY <1>3, <3>2, <3>3, Zenon
  <2>2. IsFiniteSet(B(b))
    BY <2>1, FS_Subset
  <2>3. Cardinality(B(a)) <= Cardinality(B(b)) /\ Cardinality(B(a)) # Cardinality(B(b))
    BY <2>1, <2>2, FS_Subset
  <2>4. Cardinality(B(a)) \in Int /\ Cardinality(B(b)) \in Int
    BY <1>2 DEF Before
  <2> QED BY <2>3, <2>4 DEF Before
<1>4. ASSUME NEW a \in S, NEW b \in S, Before(S, a) <= Before(S, b) PROVE a <= b
  <2>1. Before(S, a) \in Int /\ Before(S, b) \in Int /\ a \in Int /\ b \in Int
    BY <1>2
  <2> QED BY <1>3, <1>4, <2>1
<1>5. f \in Injection(S, 0 .. n - 1)
  <2>1. f \in [S -> 0 .. n - 1]
    BY <1>2
  <2>2. ASSUME NEW a \in S, NEW b \in S, f[a] = f[b] PROVE a = b
    <3>1. Before(S, a) = Before(S, b) /\ Before(S, a) \in Int
      BY <1>2, <2>2
    <3>2. a <= b /\ b <= a
      BY <1>4, <3>1
    <3> QED BY <3>2
  <2> QED BY <2>1, <2>2 DEF Injection, IsInjective
<1>6. f \in Surjection(S, 0 .. n - 1)
  <2>1. IsFiniteSet(0 .. n - 1) /\ Cardinality(0 .. n - 1) = n
    <3>1. n - 1 \in Int /\ 0 \in Int
      BY <1>1
    <3>2. /\ IsFiniteSet(0 .. n - 1)
          /\ Cardinality(0 .. n - 1) = IF 0 > n - 1 THEN 0 ELSE (n - 1) - 0 + 1
      BY <3>1, FS_Interval
    <3> QED BY <1>1, <3>2
  <2> HIDE DEF f
  <2>2. Cardinality(S) = n
    OBVIOUS
  <2> QED BY <1>5, <2>1, <2>2, FS_Injection
<1>7. ASSUME NEW i \in 0 .. n - 1 PROVE w[i] \in S /\ Before(S, w[i]) = i
  <2>1. \E a \in S : Before(S, a) = i
    <3> HIDE DEF f
    <3>1. \E a \in S : f[a] = i
      BY <1>6 DEF Surjection
    <3> QED BY <3>1 DEF f
  <2>2. w[i] = CHOOSE a \in S : Before(S, a) = i
    BY DEF InOrder
  <2> HIDE DEF f
  <2> QED BY <2>1, <2>2
<1> HIDE DEF f, B
<1>8. w \in [0 .. n - 1 -> Int]
  <2>1. w = [i \in 0 .. n - 1 |-> w[i]]
    BY DEF InOrder
  <2>2. ASSUME NEW i \in 0 .. n - 1 PROVE w[i] \in Int
    <3>1. w[i] \in S
      BY <1>7
    <3>2. \A c \in S : c \in Int
      OBVIOUS
    <3> QED BY <3>1, <3>2, Zenon
  <2> QED BY <2>1, <2>2
<1>9. Sorted(w, n)
  <2> SUFFICES ASSUME NEW i \in 0 .. n - 1, NEW j \in 0 .. n - 1, i <= j
               PROVE  w[i] <= w[j]
    BY DEF Sorted
  <2>1. /\ w[i] \in S /\ w[j] \in S
        /\ Before(S, w[i]) <= Before(S, w[j])
    BY <1>7
  <2> QED BY <1>4, <2>1, Zenon
<1>10. ASSUME NEW a \in S PROVE \E i \in 0 .. n - 1 : w[i] = a
  <2>1. PICK i \in 0 .. n - 1 : i = Before(S, a)
    BY <1>2
  <2>2. w[i] \in S /\ Before(S, w[i]) = i
    BY <1>7, <2>1
  <2>3. Before(S, w[i]) <= Before(S, a) /\ Before(S, a) <= Before(S, w[i])
    BY <2>1, <2>2
  <2>4. w[i] <= a /\ a <= w[i]
    BY <1>4, <2>2, <2>3, Zenon
  <2>5. w[i] \in Int /\ a \in Int
    <3>1. \A c \in S : c \in Int
      OBVIOUS
    <3> QED BY <2>2, <3>1, Zenon
  <2> QED BY <2>4, <2>5
<1> QED BY <1>1, <1>7, <1>8, <1>9, <1>10 DEF HasKeys

\* The elements of the vector that coNewVectorByMap makes.  One without a key is
\* negative; when there is none, the vector is that of the keys in order.
LEMMA VectorMade ==
  ASSUME NEW S, NEW K, S \subseteq Nat, IsFiniteSet(S),
         NEW n, n = Cardinality(S),
         NEW w, w = VectorOf(S, K)
  PROVE  HasBlocks(S, n, w) /\ (K = {} => HasKeys(S, n, w))
<1> DEFINE u == InOrder(S, n)
<1>1. HasKeys(S, n, u)
  BY KeysInOrder
<1>2. w = [i \in 0 .. n - 1 |-> IF u[i] \in K THEN NoKey(u[i]) ELSE u[i]]
  BY DEF VectorOf, InOrder
<1> HIDE DEF u
<1>3. /\ n \in Nat /\ u \in [0 .. n - 1 -> Int] /\ Sorted(u, n)
      /\ \A i \in 0 .. n - 1 : u[i] \in S /\ u[i] \in Nat
  BY <1>1 DEF HasKeys
<1>4. ASSUME NEW i \in 0 .. n - 1
      PROVE  w[i] \in Int /\ BlockOf(w[i]) = u[i] /\ (w[i] >= 0 => w[i] = u[i])
  <2>1. u[i] \in Nat /\ w[i] = IF u[i] \in K THEN -1 - u[i] ELSE u[i]
    BY <1>2, <1>3 DEF NoKey
  <2> QED BY <2>1 DEF BlockOf
<1>5. w \in [0 .. n - 1 -> Int]
  BY <1>2, <1>4
<1>6. ASSUME \A i \in 0 .. n - 1 : w[i] >= 0 PROVE Sorted(w, n)
  BY <1>3, <1>4, <1>6 DEF Sorted
<1>7. HasBlocks(S, n, w)
  BY <1>3, <1>4, <1>5, <1>6 DEF HasBlocks
<1>8. ASSUME K = {} PROVE w = u
  BY <1>2, <1>3, <1>8
<1> QED BY <1>1, <1>7, <1>8

-----------------------------------------------------------------------------
(* The invariant of the images *)

\* the records of a file, wherever they are and however long
RecordSet == [start : Nat, cnt : Nat]

\* mo is the block that was written last, last_address the address behind it
ImageType ==
  /\ state \in {"reading", "failed", "halted", "ready", "searching"}
  /\ DOMAIN map \subseteq Nat /\ IsFiniteSet(DOMAIN map)
  /\ \A a \in DOMAIN map : map[a] \in Seq(Nat)
  /\ file \in Seq(RecordSet)
  /\ last_address \in Nat /\ seg_address \in Nat /\ length \in Nat
  /\ mo # NULL => mo \in DOMAIN map /\ last_address = mo + Len(map[mo])

\* every byte of a block came with a record for its address
BytesFromFile ==
  \A a \in DOMAIN map : \A p \in DOMAIN map[a] :
    map[a][p] \in DOMAIN file /\ a + p - 1 \in Addresses(file[map[a][p]])

\* the record j is in the block a only
OnlyIn(j, a) ==
  \A b \in DOMAIN map : \A p \in DOMAIN map[b] : map[b][p] = j => b = a

\* every block was begun by a record, which is in no other block
BlocksBegun ==
  \A a \in DOMAIN map : \E j \in DOMAIN file : file[j].start = a /\ OnlyIn(j, a)

\* the block b has memory for all addresses of the record r
Covers(b, r) == \A x \in Addresses(r) : x >= b /\ x - b + 1 \in DOMAIN map[b]

\* a record is complete in one block
RecordsPlaced ==
  state \notin {"failed", "halted"} /\ Separate =>
    \A k \in DOMAIN file :
      Addresses(file[k]) # {} => \E b \in DOMAIN map : Covers(b, file[k])

\* The elements of the vector are blocks of the map, in order when all have their
\* keys, and all of them when memory was not short.
VectorReady ==
  /\ size \in Nat /\ v \in [0 .. size - 1 -> Int]
  /\ \A j \in 0 .. size - 1 : BlockOf(v[j]) \in DOMAIN map
  /\ Keyed => Sorted(v, size)
  /\ ~short => Keyed /\ \A a \in DOMAIN map : \E j \in 0 .. size - 1 : v[j] = a

\* what getMemoryArea returns for the element of the vector that it has found
AreaAt(r) ==
  IF r = -1 THEN NULL
  ELSE IF Inside(search_key - AddressOf(v[r]), length, Len(map[BlockOf(v[r])]))
         THEN [block |-> BlockOf(v[r]), delta |-> search_key - AddressOf(v[r])] ELSE NULL

\* The map while the file is read, the vector made of it, the search in the vector.
ImageInv ==
  /\ ImageType /\ BytesFromFile /\ BlocksBegun /\ RecordsPlaced
  /\ state \in {"reading", "failed", "halted"} => result = -2 /\ area = NULL
  /\ state \in {"ready", "searching"} =>
       /\ VectorReady
       /\ state = "searching" \/ result # -2 => Inv
  /\ state = "searching" => area = NULL
  /\ state # "searching" /\ result = -2 => lower_pos = upper_pos /\ upper_pos \in Int
  /\ state = "ready" => area = IF result = -2 THEN NULL ELSE AreaAt(result)

LEMMA ImageInitInv == ASSUME ImageInit PROVE ImageInv
<1>1. DOMAIN map = {} /\ IsFiniteSet({}) /\ file = <<>> /\ <<>> \in Seq(RecordSet)
  BY FS_EmptySet DEF ImageInit, NoBlocks
<1>2. DOMAIN file = {}
  BY <1>1
<1>3. ImageType
  <2>1. /\ state = "reading" /\ mo = NULL
        /\ last_address = 0 /\ seg_address = 0 /\ length = 0
    BY DEF ImageInit
  <2>2. DOMAIN map \subseteq Nat /\ IsFiniteSet(DOMAIN map)
    BY <1>1
  <2>3. \A a \in DOMAIN map : map[a] \in Seq(Nat)
    BY <1>1
  <2>4. file \in Seq(RecordSet)
    BY <1>1
  <2>5. last_address \in Nat /\ seg_address \in Nat /\ length \in Nat
    BY <2>1
  <2> QED BY <2>1, <2>2, <2>3, <2>4, <2>5 DEF ImageType
<1>4. BytesFromFile /\ BlocksBegun /\ RecordsPlaced
  BY <1>1, <1>2 DEF BytesFromFile, BlocksBegun, RecordsPlaced
<1>5. state = "reading" /\ result = -2 /\ area = NULL /\ lower_pos = upper_pos
      /\ upper_pos \in Int
  BY DEF ImageInit
<1> QED BY <1>3, <1>4, <1>5 DEF ImageInv

\* What a record does to the map: the block c gets n bytes behind its first l.
BlockGrows(c, l, address, n) ==
  /\ c + l = address /\ mo' = c
  /\ DOMAIN map' = DOMAIN map \cup {c}
  /\ \A a \in DOMAIN map \ {c} : map'[a] = map[a]
  /\ map'[c] \in Seq(Nat) /\ Len(map'[c]) = l + n
  /\ \A p \in 1 .. l : map'[c][p] = map[c][p]
  /\ \A p \in l + 1 .. l + n : map'[c][p] = Len(file) + 1
  /\ \/ c \in DOMAIN map /\ l = Len(map[c])
     \/ l = 0 /\ c = address

LEMMA BlockAdded ==
  ASSUME ImageInv, NEW address \in Nat, NEW n \in Nat, AddBlock(address, n)
  PROVE  \E c, l \in Nat : BlockGrows(c, l, address, n)
<1> DEFINE bytes == RecordBytes(n)
<1>1. Len(file) \in Nat
  BY DEF ImageInv, ImageType
<1>2. bytes \in Seq(Nat) /\ Len(bytes) = n /\ \A p \in 1 .. n : bytes[p] = Len(file) + 1
  <2>1. bytes = [j \in 1 .. n |-> Len(file) + 1]
    BY DEF RecordBytes
  <2>2. bytes \in [1 .. n -> Nat]
    BY <1>1, <2>1
  <2> QED BY <2>1, <2>2
<1> HIDE DEF bytes
<1>3. CASE Continues(address)
  <2> DEFINE c == mo
             s == map[c]
             l == Len(s)
  <2>1. c \in DOMAIN map /\ c \in Nat /\ address = c + l /\ s \in Seq(Nat) /\ l \in Nat
    BY <1>3 DEF Continues, ImageInv, ImageType
  <2>2. map' = [map EXCEPT ![c] = s \o bytes] /\ mo' = c
    BY <1>3 DEF AddBlock, bytes
  <2> HIDE DEF c, s
  <2>3. /\ s \o bytes \in Seq(Nat) /\ Len(s \o bytes) = l + n
        /\ \A p \in 1 .. l + n : (s \o bytes)[p] = IF p <= l THEN s[p] ELSE bytes[p - l]
    BY <1>2, <2>1, ConcatProperties
  <2> DEFINE t == s \o bytes
  <2> HIDE DEF t, l
  <2>4. \A p \in 1 .. l : t[p] = s[p]
    BY <2>1, <2>3 DEF t
  <2>5. ASSUME NEW p \in l + 1 .. l + n PROVE t[p] = Len(file) + 1
    <3>1. p \in 1 .. l + n /\ ~(p <= l) /\ p - l \in 1 .. n
      BY <2>1
    <3>2. t[p] = bytes[p - l]
      BY <2>3, <3>1 DEF t
    <3> QED BY <1>2, <3>1, <3>2
  <2>6. /\ DOMAIN map' = DOMAIN map \cup {c} /\ map'[c] = t
        /\ \A a \in DOMAIN map \ {c} : map'[a] = map[a]
    BY <2>1, <2>2 DEF t
  <2>7. t \in Seq(Nat) /\ Len(t) = l + n /\ s = map[c] /\ l = Len(map[c])
    BY <2>3 DEF t, s, l
  <2>8. BlockGrows(c, l, address, n)
    BY <2>1, <2>2, <2>4, <2>5, <2>6, <2>7 DEF BlockGrows
  <2> QED BY <2>1, <2>8
<1>4. CASE ~Continues(address)
  <2>1. /\ map' = [a \in DOMAIN map \cup {address} |->
                     IF a = address THEN bytes ELSE map[a]]
        /\ mo' = address
    BY <1>4 DEF AddBlock, bytes
  <2>2. /\ DOMAIN map' = DOMAIN map \cup {address} /\ map'[address] = bytes
        /\ \A a \in DOMAIN map \ {address} : map'[a] = map[a]
    BY <2>1
  <2>3. \A p \in 1 .. 0 : map'[address][p] = map[address][p]
    OBVIOUS
  <2>4. \A p \in 0 + 1 .. 0 + n : map'[address][p] = Len(file) + 1
    BY <1>2, <2>2
  <2>5. address + 0 = address /\ Len(map'[address]) = 0 + n /\ 0 \in Nat
    BY <1>2, <2>2
  <2>6. BlockGrows(address, 0, address, n)
    BY <1>2, <2>1, <2>2, <2>3, <2>4, <2>5 DEF BlockGrows
  <2> QED BY <2>5, <2>6
<1> QED BY <1>3, <1>4

\* One more record, which is in the block that was extended or made.
LEMMA RecordAdded ==
  ASSUME ImageInv, state = "reading", NEW address \in Nat, NEW n \in Nat,
         AddBlock(address, n), last_address' = address + n,
         file' = Append(file, [start |-> address, cnt |-> n]),
         UNCHANGED <<format, seg_address, short, searchVars, length, area>>
  PROVE  ImageInv'
<1> DEFINE r == [start |-> address, cnt |-> n]
           N == Len(file)
<1>1. /\ N \in Nat /\ DOMAIN file = 1 .. N /\ DOMAIN file' = 1 .. N + 1
      /\ file' \in Seq(RecordSet) /\ file'[N + 1] = r /\ state' = state
      /\ \A j \in 1 .. N : file'[j] = file[j]
  <2>1. file \in Seq(RecordSet) /\ r \in RecordSet
    BY DEF ImageInv, ImageType, RecordSet
  <2> HIDE DEF r
  <2>2. file' = Append(file, r) /\ state' = state
    BY DEF AddBlock, r
  <2> QED BY <2>1, <2>2, AppendProperties
<1> PICK c \in Nat, l \in Nat : BlockGrows(c, l, address, n)
  BY BlockAdded
<1>2. /\ c + l = address /\ mo' = c
      /\ DOMAIN map' = DOMAIN map \cup {c}
      /\ \A a \in DOMAIN map \ {c} : map'[a] = map[a]
      /\ map'[c] \in Seq(Nat) /\ Len(map'[c]) = l + n
      /\ \A p \in 1 .. l : map'[c][p] = map[c][p]
      /\ \A p \in l + 1 .. l + n : map'[c][p] = N + 1
      /\ \/ c \in DOMAIN map /\ l = Len(map[c])
         \/ l = 0 /\ c = address
  BY DEF BlockGrows
<1>3. r.start = address /\ r.cnt = n /\ Addresses(r) = address .. address + n - 1
  BY DEF Addresses
<1> HIDE DEF r, N
<1>4. /\ DOMAIN map'[c] = 1 .. l + n
      /\ \A a \in DOMAIN map : map[a] \in Seq(Nat) /\ DOMAIN map[a] = 1 .. Len(map[a])
      /\ l > 0 => c \in DOMAIN map /\ l = Len(map[c])
  BY <1>2 DEF ImageInv, ImageType
<1>5. \* the bytes after the step
      ASSUME NEW a \in DOMAIN map', NEW p \in DOMAIN map'[a]
      PROVE  \/ /\ a \in DOMAIN map /\ p \in DOMAIN map[a]
                /\ map'[a][p] = map[a][p] /\ map[a][p] \in 1 .. N
             \/ /\ a = c /\ p \in l + 1 .. l + n /\ map'[a][p] = N + 1
  <2>1. \A b \in DOMAIN map : \A q \in DOMAIN map[b] : map[b][q] \in 1 .. N
    BY <1>1 DEF ImageInv, BytesFromFile
  <2>2. CASE a # c
    BY <1>2, <2>1, <2>2
  <2>3. CASE a = c
    <3>1. CASE p \in 1 .. l
      <4>1. c \in DOMAIN map /\ DOMAIN map[c] = 1 .. l
        BY <1>4, <3>1
      <4> QED BY <1>2, <2>1, <2>3, <3>1, <4>1
    <3>2. CASE p \notin 1 .. l
      <4>1. p \in l + 1 .. l + n
        BY <1>2, <1>4, <2>3, <3>2
      <4> QED BY <1>2, <2>3, <4>1
    <3> QED BY <3>1, <3>2
  <2> QED BY <2>2, <2>3
<1>6. ImageType'
  <2>1. IsFiniteSet(DOMAIN map \cup {c})
    BY FS_AddElement DEF ImageInv, ImageType
  <2>2. DOMAIN map' \subseteq Nat /\ \A a \in DOMAIN map' : map'[a] \in Seq(Nat)
    BY <1>2, <1>4 DEF ImageInv, ImageType
  <2>3. mo' \in DOMAIN map' /\ last_address' = mo' + Len(map'[mo']) /\ last_address' \in Nat
    <3>1. mo' = c /\ c \in DOMAIN map' /\ Len(map'[c]) = l + n
      BY <1>2
    <3>2. c + l = address /\ last_address' = address + n
      BY <1>2
    <3>3. last_address' = c + (l + n) /\ last_address' \in Nat
      BY <3>2
    <3> QED BY <3>1, <3>3
  <2> QED BY <1>1, <1>2, <2>1, <2>2, <2>3 DEF ImageInv, ImageType
<1>7. BytesFromFile'
  <2> SUFFICES ASSUME NEW a \in DOMAIN map', NEW p \in DOMAIN map'[a]
               PROVE  /\ map'[a][p] \in DOMAIN file'
                      /\ a + p - 1 \in Addresses(file'[map'[a][p]])
    BY DEF BytesFromFile, Addresses
  <2>1. CASE /\ a \in DOMAIN map /\ p \in DOMAIN map[a]
             /\ map'[a][p] = map[a][p] /\ map[a][p] \in 1 .. N
    <3>1. a + p - 1 \in Addresses(file[map[a][p]])
      BY <2>1 DEF ImageInv, BytesFromFile
    <3>2. file'[map'[a][p]] = file[map[a][p]]
      BY <1>1, <2>1
    <3> QED BY <1>1, <2>1, <3>1, <3>2
  <2>2. CASE a = c /\ p \in l + 1 .. l + n /\ map'[a][p] = N + 1
    <3>1. a + p - 1 \in address .. address + n - 1
      <4>1. c + l = address /\ a = c
        BY <1>2, <2>2
      <4>2. p \in Nat /\ l + 1 <= p /\ p <= l + n
        BY <2>2
      <4>3. a + p - 1 \in Nat /\ address <= a + p - 1 /\ a + p - 1 <= address + n - 1
        BY <4>1, <4>2
      <4> QED BY <4>3
    <3> QED BY <1>1, <1>3, <2>2, <3>1
  <2> QED BY <1>5, <2>1, <2>2
<1>8. BlocksBegun'
  <2> DEFINE Only(j, a) == \A b \in DOMAIN map' : \A p \in DOMAIN map'[b] :
                              map'[b][p] = j => b = a
  <2> SUFFICES ASSUME NEW a \in DOMAIN map'
               PROVE  \E j \in DOMAIN file' : file'[j].start = a /\ Only(j, a)
    BY DEF BlocksBegun, OnlyIn
  <2>1. CASE a \in DOMAIN map
    <3>1. PICK j \in DOMAIN file : file[j].start = a /\ OnlyIn(j, a)
      BY <2>1 DEF ImageInv, BlocksBegun
    <3>2. j \in 1 .. N /\ j # N + 1
      BY <1>1
    <3>3. Only(j, a)
      BY <1>5, <3>1, <3>2 DEF OnlyIn
    <3> HIDE DEF Only
    <3> QED BY <1>1, <3>1, <3>2, <3>3
  <2>2. CASE a \notin DOMAIN map
    <3>1. a = c /\ c = address
      BY <1>2, <2>2
    <3>2. Only(N + 1, a)
      BY <1>1, <1>5, <3>1
    <3> HIDE DEF Only
    <3> QED BY <1>1, <1>3, <3>1, <3>2
  <2> QED BY <2>1, <2>2
<1>9. RecordsPlaced'
  <2> SUFFICES ASSUME Separate', NEW k \in DOMAIN file', Addresses(file'[k]) # {}
               PROVE  \E b \in DOMAIN map' : \A x \in Addresses(file'[k]) :
                        x >= b /\ x - b + 1 \in DOMAIN map'[b]
    BY DEF RecordsPlaced, Covers, Addresses
  <2>1. CASE k = N + 1
    <3>1. file'[k] = r
      BY <1>1, <2>1
    <3>2. ASSUME NEW x \in Addresses(r) PROVE x >= c /\ x - c + 1 \in DOMAIN map'[c]
      BY <1>2, <1>3, <1>4
    <3> QED BY <1>2, <3>1, <3>2
  <2>2. CASE k # N + 1
    <3>1. k \in 1 .. N /\ file'[k] = file[k]
      BY <1>1, <2>2
    <3>2. \A i, j \in 1 .. N + 1 : i # j => file'[i].start \notin Addresses(file'[j])
      BY <1>1 DEF Separate, Addresses
    <3>3. Separate
      BY <1>1, <3>2 DEF Separate
    <3>4. PICK b \in DOMAIN map : Covers(b, file[k])
      BY <1>1, <3>1, <3>3 DEF ImageInv, RecordsPlaced
    <3>5. CASE b # c
      BY <1>2, <3>1, <3>4, <3>5 DEF Covers
    <3>6. CASE b = c /\ l = Len(map[c])
      <4>1. DOMAIN map[c] \subseteq DOMAIN map'[c]
        BY <1>2, <1>4, <3>6
      <4> QED BY <1>2, <3>1, <3>4, <3>6, <4>1 DEF Covers
    <3>7. CASE b = c /\ l = 0 /\ c = address
      <4>1. PICK x \in Addresses(file[k]) : TRUE
        BY <3>1
      <4>2. DOMAIN map[c] # {} /\ c \in DOMAIN map
        BY <3>4, <3>7, <4>1 DEF Covers
      <4>3. 1 \in DOMAIN map[c]
        BY <1>4, <4>2
      <4>4. map[c][1] \in 1 .. N /\ c + 1 - 1 \in Addresses(file[map[c][1]])
        BY <1>1, <4>2, <4>3 DEF ImageInv, BytesFromFile
      <4> DEFINE j == map[c][1]
      <4> HIDE DEF j
      <4>5. j \in 1 .. N /\ c \in Addresses(file[j])
        BY <4>4 DEF j
      <4>6. file'[N + 1].start = c /\ N + 1 # j /\ j \in 1 .. N + 1 /\ N + 1 \in 1 .. N + 1
        BY <1>1, <1>3, <3>7, <4>5
      <4> QED BY <1>1, <3>2, <4>5, <4>6
    <3> QED BY <1>2, <3>5, <3>6, <3>7
  <2> QED BY <2>1, <2>2
<1>10. /\ state' = "reading" /\ result' = result /\ area' = area
       /\ UNCHANGED <<lower_pos, upper_pos>>
  BY <1>1 DEF searchVars
<1> QED BY <1>6, <1>7, <1>8, <1>9, <1>10 DEF ImageInv

-----------------------------------------------------------------------------
(* The steps *)

\* The file and the map stay as they are.
LEMMA ImageKept ==
  ASSUME ImageInv, UNCHANGED <<map, mo, last_address, file>>,
         seg_address' \in Nat, length' \in Nat, state \notin {"failed", "halted"},
         state' \in {"reading", "failed", "halted", "ready", "searching"}
  PROVE  ImageType' /\ BytesFromFile' /\ BlocksBegun' /\ RecordsPlaced'
<1>1. ImageType' /\ BytesFromFile' /\ BlocksBegun'
  BY DEF ImageInv, ImageType, BytesFromFile, BlocksBegun, OnlyIn, Addresses
<1>2. RecordsPlaced'
  BY DEF ImageInv, RecordsPlaced, Covers, Separate, Addresses
<1> QED BY <1>1, <1>2

\* The map was deleted.
LEMMA ImageDropped ==
  ASSUME ImageInv, map' = NoBlocks, mo' = NULL, state' = "failed",
         last_address' \in Nat, UNCHANGED seg_address, file' \in Seq(RecordSet),
         UNCHANGED <<searchVars, length, area>>, state = "reading"
  PROVE  ImageInv'
<1>1. DOMAIN map' = {} /\ IsFiniteSet({})
  BY FS_EmptySet DEF NoBlocks
<1>2. ImageType'
  BY <1>1 DEF ImageInv, ImageType
<1>3. BytesFromFile' /\ BlocksBegun' /\ RecordsPlaced'
  BY <1>1 DEF BytesFromFile, BlocksBegun, RecordsPlaced
<1>4. result' = result /\ area' = area /\ UNCHANGED <<lower_pos, upper_pos>>
  BY DEF searchVars
<1> QED BY <1>2, <1>3, <1>4 DEF ImageInv

\* The program has ended; a record may have been read.
LEMMA ImageHalted ==
  ASSUME ImageInv, state = "reading", state' = "halted", map' = map, mo' = NULL,
         last_address' \in Nat, seg_address' \in Nat, file' \in Seq(RecordSet),
         \A j \in DOMAIN file : j \in DOMAIN file' /\ file'[j] = file[j],
         UNCHANGED <<searchVars, length, area>>
  PROVE  ImageInv'
<1>1. ImageType'
  BY DEF ImageInv, ImageType
<1>2. BytesFromFile'
  BY DEF ImageInv, BytesFromFile, Addresses
<1>3. BlocksBegun'
  <2> SUFFICES ASSUME NEW a \in DOMAIN map'
               PROVE  \E j \in DOMAIN file' :
                        /\ file'[j].start = a
                        /\ \A b \in DOMAIN map' : \A p \in DOMAIN map'[b] :
                             map'[b][p] = j => b = a
    BY DEF BlocksBegun, OnlyIn
  <2>1. PICK j \in DOMAIN file : file[j].start = a /\ OnlyIn(j, a)
    BY DEF ImageInv, BlocksBegun
  <2> QED BY <2>1 DEF OnlyIn
<1>4. RecordsPlaced'
  BY DEF RecordsPlaced
<1>5. result' = result /\ area' = area /\ UNCHANGED <<lower_pos, upper_pos>>
  BY DEF searchVars
<1> QED BY <1>1, <1>2, <1>3, <1>4, <1>5 DEF ImageInv

LEMMA RecordInv ==
  ASSUME ImageInv, state = "reading", NEW address \in Nat, NEW n \in Nat,
         Record(address, n)
  PROVE  ImageInv'
<1>1. CASE AddBlock(address, n)
  BY <1>1, RecordAdded DEF Record
<1>2. CASE AddBlockFails(address, n) \/ AddBlockHalts(address)
  <2>1. /\ file \in Seq(RecordSet) /\ [start |-> address, cnt |-> n] \in RecordSet
        /\ last_address' = address + n
        /\ file' = Append(file, [start |-> address, cnt |-> n])
    BY DEF Record, ImageInv, ImageType, RecordSet
  <2> DEFINE r == [start |-> address, cnt |-> n]
  <2> HIDE DEF r
  <2>2. file' = Append(file, r) /\ r \in RecordSet
    BY <2>1 DEF r
  <2>3. file' \in Seq(RecordSet) /\ last_address' \in Nat
    BY <2>1, <2>2
  <2>4. CASE AddBlockFails(address, n)
    <3>1. map' = NoBlocks /\ mo' = NULL /\ state' = "failed"
      BY <2>4 DEF AddBlockFails
    <3> QED BY <2>3, <3>1, ImageDropped DEF Record
  <2>5. CASE AddBlockHalts(address)
    <3>1. state' = "halted" /\ map' = map /\ mo' = NULL
      BY <2>5 DEF AddBlockHalts
    <3>2. \A j \in DOMAIN file : j \in DOMAIN file' /\ file'[j] = file[j]
      BY <2>1, <2>2, AppendProperties
    <3>3. seg_address' \in Nat /\ UNCHANGED <<searchVars, length, area>>
      BY DEF Record, ImageInv, ImageType
    <3> QED BY <2>3, <3>1, <3>2, <3>3, ImageHalted
  <2> QED BY <1>2, <2>4, <2>5
<1> QED BY <1>1, <1>2 DEF Record

LEMMA BadRecordInv == ASSUME ImageInv, BadRecord PROVE ImageInv'
  BY ImageDropped DEF BadRecord, ImageInv, ImageType

LEMMA HexSegmentInv ==
  ASSUME ImageInv, NEW s \in Segments, HexSegment(s) PROVE ImageInv'
<1>1. /\ state = "reading" /\ state' = "reading" /\ result' = result /\ area' = area
      /\ UNCHANGED <<lower_pos, upper_pos>>
  BY DEF HexSegment, searchVars
<1>2. seg_address' \in Nat /\ length' \in Nat /\ UNCHANGED <<map, mo, last_address, file>>
  BY ImageAssumption DEF HexSegment, ImageInv, ImageType
<1> QED BY <1>1, <1>2, ImageKept DEF ImageInv

LEMMA VectorInv ==
  ASSUME ImageInv, NEW S \in SUBSET DOMAIN map, NEW K, Vector(S, K),
         ~short' => S = DOMAIN map /\ K = {}
  PROVE  ImageInv'
<1>1. /\ state = "reading" /\ state' = "ready" /\ result = -2 /\ result' = -2
      /\ area = NULL /\ area' = NULL /\ UNCHANGED <<lower_pos, upper_pos>>
      /\ UNCHANGED <<map, last_address, seg_address, file, length>> /\ mo' = NULL
  BY DEF Vector, ImageInv
<1>2. ImageType' /\ BytesFromFile' /\ BlocksBegun'
  BY <1>1 DEF ImageInv, ImageType, BytesFromFile, BlocksBegun, OnlyIn, Addresses
<1>3. RecordsPlaced'
  BY <1>1 DEF ImageInv, RecordsPlaced, Covers, Separate, Addresses
<1>4. HasBlocks(S, size', v') /\ (K = {} => HasKeys(S, size', v'))
  <2>1. size' = Cardinality(S) /\ v' = VectorOf(S, K)
    BY DEF Vector
  <2>2. S \subseteq Nat /\ IsFiniteSet(S)
    BY FS_Subset DEF ImageInv, ImageType
  <2> DEFINE n == size'
             w == v'
  <2>3. n = Cardinality(S) /\ w = VectorOf(S, K)
    BY <2>1
  <2> HIDE DEF n, w
  <2>4. HasBlocks(S, n, w) /\ (K = {} => HasKeys(S, n, w))
    BY <2>2, <2>3, VectorMade
  <2> QED BY <2>4 DEF n, w
<1>5. /\ size' \in Nat /\ v' \in [0 .. size' - 1 -> Int]
      /\ \A i \in 0 .. size' - 1 : BlockOf(v'[i]) \in DOMAIN map
      /\ (\A i \in 0 .. size' - 1 : v'[i] >= 0) => Sorted(v', size')
  BY <1>4 DEF HasBlocks
<1>6. ASSUME ~short'
      PROVE  /\ \A i \in 0 .. size' - 1 : v'[i] >= 0
             /\ \A a \in DOMAIN map : \E i \in 0 .. size' - 1 : v'[i] = a
  <2>1. HasKeys(DOMAIN map, size', v')
    BY <1>4, <1>6
  <2>2. DOMAIN map \subseteq Nat
    BY DEF ImageInv, ImageType
  <2> DEFINE n == size'
             w == v'
  <2>3. HasKeys(DOMAIN map, n, w)
    BY <2>1
  <2> HIDE DEF n, w
  <2>4. /\ \A i \in 0 .. n - 1 : w[i] >= 0
        /\ \A a \in DOMAIN map : \E i \in 0 .. n - 1 : w[i] = a
    BY <2>2, <2>3 DEF HasKeys
  <2> QED BY <2>4 DEF n, w
<1>7. VectorReady'
  BY <1>1, <1>5, <1>6 DEF VectorReady, Keyed, Sorted, BlockOf
<1> QED BY <1>1, <1>2, <1>3, <1>7 DEF ImageInv

LEMMA MakeVectorInv == ASSUME ImageInv, MakeVector PROVE ImageInv'
  BY VectorInv DEF MakeVector

LEMMA MakeShortVectorInv == ASSUME ImageInv, MakeShortVector PROVE ImageInv'
<1>1. PICK S \in SUBSET DOMAIN map : \E K \in SUBSET S : Vector(S, K)
  BY DEF MakeShortVector
<1>2. PICK K \in SUBSET S : Vector(S, K)
  BY <1>1
<1>3. short'
  BY DEF MakeShortVector
<1> QED BY <1>2, <1>3, VectorInv

LEMMA MakeVectorHaltsInv == ASSUME ImageInv, MakeVectorHalts PROVE ImageInv'
  BY ImageHalted DEF MakeVectorHalts, ImageInv, ImageType

LEMMA GetInv ==
  ASSUME ImageInv, NEW address \in Keys, NEW n \in 0 .. MaxBytes,
         getMemoryArea(address, n)
  PROVE  ImageInv'
<1>1. /\ state = "ready" /\ state' = "searching" /\ result' = -2 /\ area' = NULL
      /\ UNCHANGED <<v, size, map, mo, last_address, seg_address, file, short>>
      /\ search_key' = address /\ lower_pos' = 0 /\ upper_pos' = size /\ length' = n
  BY DEF getMemoryArea, image
<1>2. ImageType' /\ BytesFromFile' /\ BlocksBegun' /\ RecordsPlaced'
  BY <1>1, ImageKept DEF ImageInv, ImageType
<1>3. size \in Nat /\ v \in [0 .. size - 1 -> Int] /\ VectorReady
  BY <1>1 DEF ImageInv, VectorReady
<1>4. VectorReady'
  BY <1>1, <1>3 DEF VectorReady, Keyed, Sorted
<1>5. Inv'
  <2>1. (0 .. lower_pos' - 1) = {} /\ (upper_pos' .. size' - 1) = {}
    BY <1>1, <1>3
  <2>2. search_key' \in Int
    BY <1>1, KeysAssumption
  <2>3. size' = size /\ v' = v /\ lower_pos' = 0 /\ upper_pos' = size
    BY <1>1
  <2>4. Split'
    BY <2>1 DEF Split
  <2> QED BY <1>1, <1>3, <2>2, <2>3, <2>4 DEF Inv
<1> QED BY <1>1, <1>2, <1>3, <1>4, <1>5 DEF ImageInv

LEMMA SearchInv == ASSUME ImageInv, Search PROVE ImageInv'
<1>1. /\ state = "searching" /\ state' = "searching" /\ area' = area /\ length' = length
      /\ UNCHANGED <<map, mo, last_address, seg_address, file, short>>
      /\ UNCHANGED <<v, size, search_key>>
  BY DEF Search, image, Compare, Found
<1>2. ImageType' /\ BytesFromFile' /\ BlocksBegun' /\ RecordsPlaced'
  BY <1>1, ImageKept DEF ImageInv, ImageType
<1>3. Inv'
  BY <1>1, CompareInv, FoundInv DEF Search, ImageInv
<1>4. VectorReady'
  BY <1>1 DEF VectorReady, Keyed, Sorted, ImageInv
<1> QED BY <1>1, <1>2, <1>3, <1>4 DEF ImageInv

LEMMA AnswerInv == ASSUME ImageInv, Answer PROVE ImageInv'
<1>1. /\ state = "searching" /\ state' = "ready" /\ length' = length /\ result # -2
      /\ UNCHANGED <<map, mo, last_address, seg_address, file, short>>
      /\ UNCHANGED <<v, size, search_key, lower_pos, upper_pos, result>>
      /\ area' = AreaAt(result)
  BY DEF Answer, image, searchVars, AreaAt
<1>2. ImageType' /\ BytesFromFile' /\ BlocksBegun' /\ RecordsPlaced'
  BY <1>1, ImageKept DEF ImageInv, ImageType
<1>3. Inv' /\ VectorReady'
  BY <1>1 DEF VectorReady, Keyed, Sorted, Split, ImageInv, Inv
<1>4. area' = AreaAt(result)'
  BY <1>1 DEF AreaAt
<1> QED BY <1>1, <1>2, <1>3, <1>4 DEF ImageInv

\* One case per action.
LEMMA ImageNextInv == ASSUME ImageInv, ImageNext PROVE ImageInv'
<1>1. ASSUME NEW address \in Address, NEW n \in 0 .. MaxBytes,
             S19Record(address, n) \/ ElfBlock(address, n)
      PROVE  ImageInv'
  BY <1>1, RecordInv, ImageAssumption DEF S19Record, ElfBlock
<1>2. ASSUME NEW offset \in Offsets, NEW n \in 0 .. MaxBytes, HexData(offset, n)
      PROVE  ImageInv'
  <2>1. seg_address + offset \in Nat
    BY ImageAssumption DEF ImageInv, ImageType
  <2> QED BY <1>2, <2>1, RecordInv DEF HexData
<1> QED BY <1>1, <1>2, HexSegmentInv, BadRecordInv, MakeVectorInv, MakeShortVectorInv,
           MakeVectorHaltsInv, GetInv, SearchInv, AnswerInv
        DEF ImageNext, Lookup

LEMMA ImageInvariant == ImageSpec => []ImageInv
<1>1. ImageInv /\ [ImageNext]_all => ImageInv'
  <2>1. ASSUME ImageInv, UNCHANGED all PROVE ImageInv'
    <3>1. /\ state' = state /\ length' = length /\ area' = area
          /\ UNCHANGED <<map, mo, last_address, seg_address, file, short>>
          /\ UNCHANGED <<v, size, search_key, lower_pos, upper_pos, result>>
      BY <2>1 DEF all, image, searchVars
    <3>2. ImageType' /\ BytesFromFile' /\ BlocksBegun'
      BY <2>1, <3>1 DEF ImageInv, ImageType, BytesFromFile, BlocksBegun, OnlyIn, Addresses
    <3>5. RecordsPlaced'
      BY <2>1, <3>1 DEF ImageInv, RecordsPlaced, Covers, Separate, Addresses
    <3>3. /\ Inv => Inv'
          /\ VectorReady => VectorReady'
      BY <3>1 DEF VectorReady, Keyed, Sorted, Inv, Split
    <3>4. AreaAt(result)' = AreaAt(result)
      BY <3>1 DEF AreaAt
    <3> QED BY <2>1, <3>1, <3>2, <3>3, <3>4, <3>5 DEF ImageInv
  <2> QED BY <2>1, ImageNextInv
<1> QED BY <1>1, ImageInitInv, PTL DEF ImageSpec

-----------------------------------------------------------------------------
(* What getMemoryArea returns *)

\* No two blocks have memory for an address: the other one would begin in the memory
\* of the first, with a record that is in another.
LEMMA OneBlock ==
  ASSUME ImageInv, Separate, NEW b \in DOMAIN map, NEW p \in DOMAIN map, NEW x \in Int,
         b <= p, p <= x, x - b + 1 \in DOMAIN map[b]
  PROVE  p = b
<1> SUFFICES ASSUME p # b PROVE FALSE
  OBVIOUS
<1>1. map[b] \in Seq(Nat) /\ DOMAIN map[b] = 1 .. Len(map[b]) /\ Len(map[b]) \in Nat
      /\ b \in Nat /\ p \in Nat
  BY DEF ImageInv, ImageType
<1>2. x - b + 1 \in 1 .. Len(map[b])
  BY <1>1
<1>3. p - b + 1 \in DOMAIN map[b]
  BY <1>1, <1>2
<1> DEFINE r == map[b][p - b + 1]
<1>4. r \in DOMAIN file /\ b + (p - b + 1) - 1 \in Addresses(file[r])
  BY <1>3 DEF ImageInv, BytesFromFile
<1>5. b + (p - b + 1) - 1 = p
  BY <1>1
<1>6. PICK j \in DOMAIN file : file[j].start = p /\ OnlyIn(j, p)
  BY DEF ImageInv, BlocksBegun
<1>7. j = r
  BY <1>4, <1>5, <1>6 DEF Separate
<1> QED BY <1>3, <1>6, <1>7 DEF OnlyIn

\* The block that was found is the one the bytes of a record are in, if that is in the
\* vector at all.
LEMMA BlockFound ==
  ASSUME ImageInv, Inv, VectorReady, Keyed, Separate, state \notin {"failed", "halted"},
         result # -2, short => InVector(search_key),
         NEW k \in DOMAIN file, search_key \in Addresses(file[k])
  PROVE  result \in 0 .. size - 1 /\ Covers(v[result], file[k])
<1>1. PICK b \in DOMAIN map : Covers(b, file[k])
  BY DEF ImageInv, RecordsPlaced
<1>2. b \in Nat /\ b <= search_key /\ search_key \in Int
      /\ search_key - b + 1 \in DOMAIN map[b]
  <2>1. b \in Nat /\ search_key \in Int
    BY DEF ImageInv, ImageType, Inv
  <2> QED BY <1>1, <2>1 DEF Covers
<1>3. \A i \in 0 .. size - 1 : v[i] \in DOMAIN map /\ v[i] \in Nat
  <2>1. \A i \in 0 .. size - 1 : BlockOf(v[i]) \in DOMAIN map /\ v[i] >= 0 /\ v[i] \in Int
    BY DEF VectorReady, Keyed
  <2> QED BY <2>1 DEF BlockOf
<1>4. \E i \in 0 .. size - 1 : v[i] = b
  <2>1. CASE ~short
    BY <2>1 DEF VectorReady
  <2>2. CASE short
    <3>1. PICK i \in 0 .. size - 1 : search_key \in v[i] .. v[i] + Len(map[v[i]]) - 1
      BY <2>2 DEF InVector
    <3> DEFINE a == v[i]
    <3>2. a \in DOMAIN map /\ a \in Nat /\ map[a] \in Seq(Nat)
      BY <1>3 DEF ImageInv, ImageType
    <3>3. search_key \in a .. a + Len(map[a]) - 1
      BY <3>1
    <3> HIDE DEF a
    <3>4. a <= search_key /\ search_key - a + 1 \in DOMAIN map[a]
      BY <1>2, <3>2, <3>3
    <3>5. a = b
      <4>1. CASE a <= b
        BY <1>2, <3>2, <3>4, <4>1, OneBlock
      <4>2. CASE b <= a
        BY <1>2, <3>2, <3>4, <4>2, OneBlock
      <4> QED BY <1>2, <3>2, <4>1, <4>2
    <3> QED BY <3>5 DEF a
  <2> QED BY <2>1, <2>2
<1>5. PICK i \in 0 .. size - 1 : v[i] = b
  BY <1>4
<1>6. /\ size \in Nat /\ result \in Int /\ result = upper_pos - 1 /\ lower_pos = upper_pos
      /\ 0 <= lower_pos /\ upper_pos <= size /\ lower_pos \in Int /\ upper_pos \in Int
      /\ \A j \in 0 .. lower_pos - 1 : v[j] <= search_key
      /\ \A j \in upper_pos .. size - 1 : v[j] > search_key
      /\ \A j \in 0 .. size - 1 : v[j] \in Int
      /\ Sorted(v, size)
  BY DEF Inv, Split, VectorReady
<1>7. i <= result
  <2>1. ~(i \in upper_pos .. size - 1)
    BY <1>2, <1>5, <1>6
  <2> QED BY <1>6, <2>1
<1>8. result \in 0 .. size - 1 /\ v[result] <= search_key /\ b <= v[result]
  <2>1. result \in 0 .. size - 1 /\ result \in 0 .. lower_pos - 1
    BY <1>6, <1>7
  <2> QED BY <1>5, <1>6, <1>7, <2>1 DEF Sorted
<1>9. v[result] = b
  <2> DEFINE p == v[result]
  <2>1. p \in DOMAIN map /\ b <= p /\ p <= search_key
    BY <1>3, <1>8
  <2> HIDE DEF p
  <2>2. p = b
    BY <1>2, <2>1, OneBlock
  <2> QED BY <2>2 DEF p
<1> QED BY <1>1, <1>8, <1>9

\* The answer is right.
LEMMA AreaRight == ASSUME ImageInv PROVE AreaIsRight
<1>1. AreaFromFile
  <2> SUFFICES ASSUME area # NULL, Keyed, NEW j \in 1 .. length
               PROVE  /\ area.delta + j \in DOMAIN map[area.block]
                      /\ search_key + j - 1 \in
                           Addresses(file[map[area.block][area.delta + j]])
    BY DEF AreaFromFile
  <2>1. /\ state = "ready" /\ result # -2 /\ area = AreaAt(result) /\ Inv /\ VectorReady
    BY DEF ImageInv, ImageType
  <2>2. /\ result # -1 /\ area = [block |-> v[result], delta |-> search_key - v[result]]
        /\ search_key - v[result] + length < Len(map[v[result]])
        /\ result \in 0 .. lower_pos - 1 /\ result \in 0 .. size - 1
        /\ BlockOf(v[result]) = v[result]
    <3>1. /\ result # -1
          /\ area = [block |-> BlockOf(v[result]),
                     delta |-> search_key - AddressOf(v[result])]
          /\ search_key - AddressOf(v[result]) + length < Len(map[BlockOf(v[result])])
      BY <2>1 DEF AreaAt, Inside
    <3>2. result \in 0 .. lower_pos - 1 /\ result \in 0 .. size - 1
      BY <2>1, <3>1 DEF Inv
    <3>3. v[result] \in Int /\ v[result] >= 0
      BY <2>1, <3>2 DEF Inv, Keyed
    <3>4. BlockOf(v[result]) = v[result] /\ AddressOf(v[result]) = v[result]
      BY <3>3 DEF BlockOf, AddressOf
    <3> QED BY <3>1, <3>2, <3>4
  <2>3. /\ result \in 0 .. size - 1 /\ v[result] <= search_key
        /\ v[result] \in Int /\ search_key \in Int
    BY <2>1, <2>2 DEF Inv, Split, VectorReady
  <2> DEFINE b == v[result]
             d == search_key - b
  <2>4. b \in DOMAIN map /\ map[b] \in Seq(Nat) /\ length \in Nat
    BY <2>1, <2>2, <2>3 DEF VectorReady, ImageInv, ImageType
  <2>5. d \in Nat /\ d + length < Len(map[b]) /\ area.block = b /\ area.delta = d
        /\ b + d = search_key /\ b \in Int
    BY <2>2, <2>3
  <2> HIDE DEF b, d
  <2>6. d + j \in DOMAIN map[b] /\ b + (d + j) - 1 = search_key + j - 1
    BY <2>4, <2>5
  <2>7. b + (d + j) - 1 \in Addresses(file[map[b][d + j]])
    BY <2>4, <2>6 DEF ImageInv, BytesFromFile
  <2> QED BY <2>5, <2>6, <2>7
<1>2. RangesFound
  <2> SUFFICES ASSUME state = "ready", result # -2, Separate,
                      short => Keyed /\ InVector(search_key), NEW k \in DOMAIN file,
                      search_key \in Addresses(file[k]),
                      search_key + length \in Addresses(file[k])
               PROVE  area # NULL
    BY DEF RangesFound
  <2>1. area = AreaAt(result) /\ Inv /\ VectorReady /\ Keyed
    BY DEF ImageInv, VectorReady
  <2>2. result \in 0 .. size - 1 /\ Covers(v[result], file[k])
    BY <2>1, BlockFound
  <2>8. BlockOf(v[result]) = v[result] /\ AddressOf(v[result]) = v[result]
    <3>1. v[result] \in Int /\ v[result] >= 0
      BY <2>1, <2>2 DEF Inv, Keyed
    <3> QED BY <3>1 DEF BlockOf, AddressOf
  <2> DEFINE b == v[result]
             d == search_key - b
  <2>3. b \in DOMAIN map /\ b \in Nat /\ map[b] \in Seq(Nat) /\ length \in Nat
        /\ search_key \in Int
    <3>1. BlockOf(v[result]) \in DOMAIN map
      BY <2>1, <2>2 DEF VectorReady
    <3> QED BY <2>1, <2>8, <3>1 DEF ImageInv, ImageType, Inv
  <2> HIDE DEF b
  <2>4. search_key >= b /\ (search_key + length) - b + 1 \in DOMAIN map[b]
    BY <2>2 DEF Covers, b
  <2>5. d + length < Len(map[b]) /\ d \in Nat
    BY <2>3, <2>4
  <2>6. result # -1 /\ area = [block |-> b, delta |-> d]
    BY <2>1, <2>2, <2>5, <2>8 DEF AreaAt, Inside, b
  <2>7. [block |-> b, delta |-> d] \in [block : Nat, delta : Nat]
    BY <2>3, <2>5
  <2> QED BY <2>6, <2>7, ImageAssumption
<1> QED BY <1>1, <1>2 DEF AreaIsRight

\* The S19, HEX and ELF readers and getMemoryArea (co_extra.c:269-590,
\* a2l_info.c:579-614), for any records, in any order, that overlap or not, and
\* whatever coNewVectorByMap (co.c:1143-1172) leaves out when memory is short: every
\* byte that is returned came with a record for that address, unless a key is lost; and
\* every range inside of a record is found when no record starts inside another, unless
\* its block is left out.
THEOREM AreaAlwaysRight == ImageSpec => []AreaIsRight
<1>1. ImageInv => AreaIsRight
  BY AreaRight
<1> QED BY <1>1, ImageInvariant, PTL

\* In a2l_info, too, the search reads inside the vector of the map, whatever memory
\* errors have made of it, and returns the predecessor if the vector is sorted.
THEOREM LookupCorrect == ImageSpec => []ReadsInside /\ []Predecessor
<1>1. ASSUME ImageInv PROVE ReadsInside
  <2>1. CASE state = "searching" \/ result # -2
    <3>1. CASE state \in {"ready", "searching"}
      BY <1>1, <2>1, <3>1, Middle DEF ImageInv, ReadsInside
    <3> QED BY <1>1, <2>1, <3>1 DEF ImageInv, ImageType
  <2>2. CASE state # "searching" /\ result = -2
    BY <1>1, <2>2 DEF ImageInv, ReadsInside, ImageType
  <2> QED BY <2>1, <2>2
<1>2. ImageInv => Predecessor
  BY PredecessorFound DEF ImageInv, ImageType, Predecessor
<1> QED BY <1>1, <1>2, ImageInvariant, PTL
=============================================================================
