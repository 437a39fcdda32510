---------------------------- MODULE CoMemoryImage ----------------------------
(***************************************************************************)
(* Memory images: the S19, HEX and ELF readers (co/co_extra.c, lines 269   *)
(* to 590) merge the data records of a file into the memory blocks of a    *)
(* map, whose keys are the addresses of the blocks; getMemoryArea          *)
(* (test/a2l_info.c, lines 579 to 614) finds a range of bytes in it with   *)
(* the binary search of CoPredecessor in the vector of the map.            *)
(*                                                                         *)
(* A record is its address and its bytes, parsed and as long as it says.   *)
(* A byte is the number of the record it came with.  Addresses have at     *)
(* most eight hex digits, so that keys are ordered as addresses are.       *)
(***************************************************************************)
EXTENDS CoPredecessor, Sequences, FiniteSets

CONSTANTS
  NULL,        \* no block, no memory
  Formats,     \* the file formats, of "S19", "HEX" and "ELF"
  Address,     \* the addresses of the records of S19 and ELF files
  Segments,    \* the base addresses, and the offsets to them, of HEX files
  Offsets,
  MaxBytes,    \* bound: bytes in a record
  MaxRecords,  \* bound: data records in a file
  MaxLost,     \* bound: blocks and keys lost when the vector is made but not NULL
  MayFail      \* TRUE: an allocation may fail

ASSUME ImageAssumption ==
  /\ Formats \subseteq {"S19", "HEX", "ELF"}
  /\ Address \subseteq Nat /\ Segments \subseteq Nat /\ Offsets \subseteq Nat
  /\ Keys \subseteq Nat
  /\ NULL \notin Nat \cup [block : Nat, delta : Nat]
  /\ MaxBytes \in Nat /\ MaxRecords \in Nat /\ MaxLost \in Nat
  /\ MayFail \in BOOLEAN

VARIABLES
  format,        \* the format of the file
  state,         \* "reading"; "failed"; "halted"; "ready" with the vector of the map;
                 \* "searching" in getMemoryArea
  map,           \* map[a]: the bytes of the block with the key a
  mo,            \* the key of the block that was added last, or NULL
  last_address,  \* the address behind the last record
  seg_address,   \* base address of a HEX file
  file,          \* the data records read so far, [start, cnt]
  short,         \* history: an allocation failed while the vector was made
  length,        \* how many bytes getMemoryArea has to find at search_key
  area           \* what it returned: NULL or the key of a block and an offset

image  == <<format, map, mo, last_address, seg_address, file, short>>
all    == <<searchVars, image, state, length, area>>

-----------------------------------------------------------------------------
(* Reading *)

NoBlocks == [a \in {} |-> <<>>]

\* the bytes of the next record
RecordBytes(n) == [j \in 1 .. n |-> Len(file) + 1]

\* does a record at this address continue the block that was added last?
Continues(address) == mo # NULL /\ last_address = address

\* the record extends the last block or makes a new one, which replaces a block
\* with the same key
AddBlock(address, n) ==
  /\ IF Continues(address)
       THEN map' = [map EXCEPT ![mo] = @ \o RecordBytes(n)] /\ UNCHANGED mo
       ELSE /\ map' = [a \in DOMAIN map \cup {address} |->
                         IF a = address THEN RecordBytes(n) ELSE map[a]]
            /\ mo' = address
  /\ UNCHANGED state

\* no memory for the bytes, or for the map's node of a new block: the map is deleted;
\* a new block that is not in it yet is leaked
AddBlockFails(address, n) ==
  /\ MayFail /\ (Continues(address) => n > 0)
  /\ map' = NoBlocks /\ mo' = NULL
  /\ state' = "failed"

\* no memory for the object of a new block: coMemAdd is called with NULL
AddBlockHalts(address) ==
  /\ MayFail /\ ~Continues(address)
  /\ mo' = NULL
  /\ state' = "halted"
  /\ UNCHANGED map

\* a data record of n bytes
Record(address, n) ==
  /\ Len(file) < MaxRecords
  /\ AddBlock(address, n) \/ AddBlockFails(address, n) \/ AddBlockHalts(address)
  /\ last_address' = address + n
  /\ file' = Append(file, [start |-> address, cnt |-> n])
  /\ UNCHANGED <<format, seg_address, short, searchVars, length, area>>

\* S1, S2, S3; the other lines of the file change nothing
S19Record(address, n) == format = "S19" /\ state = "reading" /\ Record(address, n)

ElfBlock(address, n) == format = "ELF" /\ state = "reading" /\ Record(address, n)

\* record type 0
HexData(offset, n) ==
  format = "HEX" /\ state = "reading" /\ Record(seg_address + offset, n)

\* record type 4
HexSegment(s) ==
  /\ format = "HEX" /\ state = "reading"
  /\ seg_address' = s
  /\ UNCHANGED <<searchVars, format, map, mo, last_address, file, short, state, length, area>>

\* a line that is no record, or a section of an ELF file without a header
BadRecord ==
  /\ state = "reading"
  /\ map' = NoBlocks /\ mo' = NULL
  /\ state' = "failed"
  /\ UNCHANGED <<searchVars, format, last_address, seg_address, file, short, length, area>>

-----------------------------------------------------------------------------
(* Finding *)

\* An element of the vector whose string for the key could not be allocated:
\* coStrGet of the NULL in its place is "", which is lower than all addresses and
\* becomes the address 0.  The number -1 - a stands for that of the block a.
NoKey(a)     == -1 - a
BlockOf(e)   == IF e < 0 THEN -1 - e ELSE e
AddressOf(e) == IF e < 0 THEN 0 ELSE e

Before(S, a) == Cardinality({b \in S : b < a})

\* the vector of the blocks S in the order of their keys, those of K without a key
VectorOf(S, K) ==
  [i \in 0 .. Cardinality(S) - 1 |->
     LET a == CHOOSE a \in S : Before(S, a) = i IN IF a \in K THEN NoKey(a) ELSE a]

\* The file ends (a HEX file also with a record of type 1 or 2) and
\* coNewVectorByMap makes the vector of the blocks S, those of K without a key.
Vector(S, K) ==
  /\ state = "reading"
  /\ state' = "ready"
  /\ size' = Cardinality(S)
  /\ v' = VectorOf(S, K)
  /\ mo' = NULL
  /\ UNCHANGED <<search_key, lower_pos, upper_pos, result, format, map,
                 last_address, seg_address, file, length, area>>

MakeVector == Vector(DOMAIN map, {}) /\ short' = FALSE

\* Memory is short.  A block for which coVectorByMapCB fails is left out, and
\* avl_for_each skips those to the right of it in its subtree of the map; at the root
\* the vector is deleted and NULL returned, which getMemoryArea takes for a vector
\* without elements.  Which blocks are left out together depends on the shape of the
\* tree (CoAvl): here any are.
MakeShortVector ==
  /\ MayFail /\ short' = TRUE
  /\ \E S \in SUBSET DOMAIN map : \E K \in SUBSET S :
       /\ Cardinality(DOMAIN map \ S) + Cardinality(K) \in 1 .. MaxLost \/ S = {}
       /\ Vector(S, K)

\* no memory for the vector: the first block is added to NULL
MakeVectorHalts ==
  /\ MayFail
  /\ state = "reading" /\ map # NoBlocks
  /\ state' = "halted" /\ mo' = NULL
  /\ UNCHANGED <<searchVars, format, map, last_address, seg_address, file, short, length,
                 area>>

\* (mutant: the search starts with an element that does not exist)
GetTooFar(address, n) ==
  /\ state = "ready"
  /\ state' = "searching"
  /\ search_key' = address /\ length' = n /\ area' = NULL
  /\ lower_pos' = 0 /\ upper_pos' = size + 1 /\ result' = -2
  /\ UNCHANGED <<v, size, image>>

getMemoryArea(address, n) ==
  /\ state = "ready"
  /\ state' = "searching"
  /\ search_key' = address /\ length' = n /\ area' = NULL
  /\ lower_pos' = 0 /\ upper_pos' = size /\ result' = -2
  /\ UNCHANGED <<v, size, image>>

Search ==
  /\ state = "searching"
  /\ Compare \/ Found
  /\ UNCHANGED <<image, state, length, area>>

\* (mutant: the length is not looked at)
InsideStart(delta, n, memory_len) == delta < memory_len

\* the range must end before the last byte of the block
Inside(delta, n, memory_len) == delta + n < memory_len

Answer ==
  /\ state = "searching"
  /\ result # -2
  /\ area' = IF result = -1 THEN NULL
             ELSE LET block == BlockOf(v[result])
                      delta == search_key - AddressOf(v[result])
                  IN IF Inside(delta, length, Len(map[block]))
                       THEN [block |-> block, delta |-> delta] ELSE NULL
  /\ state' = "ready"
  /\ UNCHANGED <<searchVars, image, length>>

Lookup == Search \/ Answer

ImageInit ==
  /\ format \in Formats
  /\ state = "reading"
  /\ map = NoBlocks /\ mo = NULL
  /\ last_address = 0 /\ seg_address = 0
  /\ file = <<>> /\ short = FALSE
  /\ v = [i \in {} |-> 0] /\ size = 0
  /\ search_key = 0 /\ lower_pos = 0 /\ upper_pos = 0 /\ result = -2
  /\ length = 0 /\ area = NULL

ImageNext ==
  \/ \E address \in Address, n \in 0 .. MaxBytes :
       S19Record(address, n) \/ ElfBlock(address, n)
  \/ \E offset \in Offsets, n \in 0 .. MaxBytes : HexData(offset, n)
  \/ \E s \in Segments : HexSegment(s)
  \/ BadRecord
  \/ MakeVector \/ MakeShortVector \/ MakeVectorHalts
  \/ \E address \in Keys, n \in 0 .. MaxBytes : getMemoryArea(address, n)
  \/ Lookup

\* getMemoryArea is executed once it is called
ImageSpec == ImageInit /\ [][ImageNext]_all /\ WF_all(Lookup)

-----------------------------------------------------------------------------
(* Properties; ReadsInside and Predecessor are those of CoPredecessor *)

Addresses(r) == r.start .. r.start + r.cnt - 1

\* all elements of the vector have a key
Keyed == \A i \in 0 .. size - 1 : v[i] >= 0

\* a block of the vector has memory for that address
InVector(address) ==
  \E i \in 0 .. size - 1 : address \in v[i] .. v[i] + Len(map[v[i]]) - 1

\* Every byte of the range that getMemoryArea returns is there, and a record of
\* the file had it for that address; records may overlap, and blocks may be missing.
AreaFromFile ==
  area # NULL /\ Keyed =>
    \A j \in 1 .. length :
      /\ area.delta + j \in DOMAIN map[area.block]
      /\ search_key + j - 1 \in Addresses(file[map[area.block][area.delta + j]])

\* no record starts inside another
Separate == \A j, k \in DOMAIN file : j # k => file[j].start \notin Addresses(file[k])

\* In a file whose records do not overlap getMemoryArea finds every range of a
\* record that ends before its last byte, in whatever order the records are; when
\* memory was short for the vector, those of the blocks that are in it.
RangesFound ==
  /\ state = "ready" /\ result # -2 /\ Separate
  /\ short => Keyed /\ InVector(search_key)
  /\ \E k \in DOMAIN file : /\ search_key \in Addresses(file[k])
                            /\ search_key + length \in Addresses(file[k])
  => area # NULL

\* getMemoryArea returns a range if and only if the file has one that it can find,
\* and that range; but for a vector that has lost a key, whose block it takes for one
\* at the address 0.
AreaIsRight == AreaFromFile /\ RangesFound

\* getMemoryArea returns.
LookupReturns == state = "searching" ~> state = "ready"
=============================================================================
