# TLA+ models of the C Object Library

The C Object Library (`co/co.c`, `co/co.h`) gives C programs strings, numbers,
memory blocks, vectors and maps as objects with one delete and one clone
function, and readers that build such objects from JSON, A2L, S19, HEX, ELF, CSV
and XML files (`co/co_extra.c`, `co/co_xml.c`, the latter over the copy of expat in
`co/expat/`). The programs under `test/` use it to look into measurement files of
car software. This directory holds TLA+ models of the library, TLC configurations
that check them and TLAPS proofs about them. Paths and line numbers are relative to
`src/`.

## 1. Inventory

| component | state | operations | calls |
|---|---|---|---|
| objects (`co.c` 38-105) | `coStruct`: type, flags, a union | new, `coDelete`, `coClone`, `coSize` | dispatches to the type |
| vector (`co.c` 107-353) | `list`, `cnt`, `max` | add, get, set, erase, erase last, clear, for each, map, append, clone | `coDelete`, `coClone` of elements, callbacks |
| string (`co.c` 355-511) | `str`, `len`, `CO_STRDUP`/`CO_STRFREE` | new, add, set, clone, take the buffer out | |
| memory block (`co.c` 513-606) | `str`, `len`, `memlen` | new, add, clone | |
| double, bool, blank (`co.c` 78-105, 608-712) | a number | new, get, set, clone | |
| map (`co.c` 714-1120) | an AVL tree of nodes with key and value | add, add value-key, get, erase, clear, clone, for each, iterator | `coDelete`, `coClone` of values, callbacks |
| vector of a map (`co.c` 1134-1221) | pairs `[key, value]` that refer to the map | make, predecessor search | vector, map, string |
| reader (`co.c` 1223-1580) | current char, byte stack, gzip buffers | init, next | `getc`, zlib |
| JSON reader, writer (`co.c` 1582-2046) | recursion | read, write | reader, all objects |
| A2L, S19, HEX, ELF, CSV (`co_extra.c`) | a line or token buffer, the last address | read | reader, memory blocks, maps, libelf |
| XML (`co_xml.c`) | a stack of vectors | three callbacks | expat |
| expat (`co/expat/`) | parse buffer, role machine, DTD, tag stack, open entities | get buffer, parse buffer, stop | the handlers |
| `a2l_info` (`test/a2l_info.c`) | arrays of file names and results, threads | read all, index, report | everything, pthread |
| other programs (`test/`) | | convert, search, compare, print | everything |

The library has no locks and no threads of its own; its interleavings come from
callbacks (a callback of `coVectorForEach` may change the vector that is being
read, a handler may stop expat in the middle of a token) and from allocation
failures: every `malloc`, `realloc` and `strdup` may fail between two steps of a
function that builds a tree of objects, and the error path must then delete what
was built and nothing else. Input comes in pieces that end anywhere: blocks of
compressed data in the reader, buffers in expat. The threads are in `a2l_info`.

What makes each part correct:

- *objects, vector, map*: `co.h` 22-89 is the contract. An object is moved into a
  container that owns it, otherwise it is only referred to; so every object has one
  owner, is deleted once, and is not leaked. Clones are deep and equal.
- *vector storage*: `cnt <= max`, `max` slots are allocated, nothing unwritten is
  handed out; the vector is a sequence.
- *map*: the tree is a balanced search tree, both traversals see every key once in
  order, the iterator's stack suffices; the map is a dictionary. A key buffer lives
  as long as its node.
- *memory block, string*: copies stay inside, the object is what was put into it;
  the length of a string is where its terminator is.
- *search*: the result is the predecessor, reads stay inside, the loop ends.
- *reader*: it delivers the characters of the text, whatever the encoding and
  wherever the blocks end.
- *parsers*: the parser ends, whatever the bytes of the file are (the CSV reader
  does not for one kind of gzip file, see Findings); what was written is read as it was; what was built on the way is returned or deleted; records are
  merged into blocks that a lookup finds again.
- *expat*: what the handlers are told does not depend on where the input was cut;
  a text is refused exactly where no XML document goes on that way.
- *`a2l_info`*: the list is that of the command line whatever the threads do.

`PROJECT.json` lists under `hazards` the lines where this is hard to test, each with
the properties that watch it.

## 2. Modules

| module | models | abstract specification | proofs |
|---|---|---|---|
| `CoObject` | the heap of objects, who deletes what, the functions that allocate object by object | `CoOwnership` | `CoObjectProof`, `CoAccountProof` |
| `CoVector` | the array behind a vector, its two loops | `CoSequence` | `CoContainerProof` |
| `CoAvl` | the tree behind a map, traversal, iterator | `CoMapSpec` | `CoAvlProof` |
| `CoMapKeys` | the key and string buffers of a map | | `CoContainerProof` |
| `CoMem` | the bytes of memory blocks | `CoBytes` | `CoMemProof` |
| `CoStr` (extends `CoMem`) | the bytes of string objects | `CoText` | `CoMemProof` |
| `CoPredecessor` | binary search in the vector of a map | | `CoPredecessorProof` |
| `CoMemoryImage` (extends `CoPredecessor`) | S19, HEX and ELF readers, `getMemoryArea` | | `CoPredecessorProof` |
| `CoReader` | the reader of characters, as functions on a record | | |
| `CoCsv` (extends `CoReader`) | the CSV reader | | |
| `CoDocument` (extends `CoReader`) | the stack and the account of the recursive readers | | |
| `CoJson`, `CoA2l` (extend `CoDocument`) | the JSON reader and writer, the A2L reader | | |
| `CoXml` | the XML reader under the handlers that expat calls | | `XmlProof` |
| `CoSwList` | the threads of `a2l_info` | | `CoSwListProof` |
| `XmlTok` | expat's tokenizers | `XmlGrammar` | |
| `XmlRole` | the role machine of the prolog | `XmlGrammar` | |
| `XmlDtd` (extends `XmlTok`, `XmlRole`) | the XML declaration, the declarations of a DTD, values of entities and attributes | `XmlGrammar` | |
| `XmlBuffer` | the parse buffer and the deferral of a second try | | `XmlProof` |
| `XmlParse` (extends `XmlBuffer`, `XmlDtd`) | the processors for prolog, content, CDATA, entities, epilog | | |

The `MC` modules give values to the constants for TLC, hold the definitions that need
TLC's recursion, and put components together that belong to one question: a run of
theirs has a variable `part` for the component (or the level) a behaviour is about,
and the variables of the others wait in an initial state.

| module | instantiates |
|---|---|
| `MCObject` | `CoObject` with its flags and symmetry, in three parts with bounds of their own |
| `MCMap` | `CoMapKeys` and `CoAvl`: a map as its buffers and as its tree |
| `MCContainers` | `CoVector` and `MCMap` |
| `MCMem` | `CoMem`, `CoStr`, `CoMemoryImage` |
| `MCCsv`, `MCDocuments`, `MCSwList` | the inputs of `CoCsv`; of `CoJson` and `CoA2l`; command lines for `CoSwList` |
| `MCReaders` | these three |
| `MCXmlTok`, `MCXmlSyntax` | texts for `XmlTok`; tokens for `XmlRole` and `XmlDtd`, and both |
| `MCXmlParse` | documents for `XmlParse` |
| `MCXmlReader` | `MCXmlParse` and `CoXml`, and what document a tree of `CoXml` is |

The modules fit together through what one assumes of the other:

- `CoObject` lets `coVectorAdd` fail only if `cnt` is a positive multiple of the
  extension, which is where `CoVector` calls `realloc`; `CoXml`, `CoCsv` and
  `CoDocument` do the same.
- `CoObject` takes a map for a function from keys to values, visited in key order,
  where a callback that fails skips the rest of a subtree: `CoAvl` has the tree and
  the traversal (`IsDictionary`, and `TraversedInOrder`, which has the skip).
- `CoAvl` takes keys for numbers that do not change: `CoMapKeys` has the buffers
  (`BuffersOwned`).
- `CoPredecessor` searches what `coNewVectorByMap` made: sorted, because
  `coMapForEach` visits the keys in order (`TraversedInOrder`), unless a key was lost.
- `CoMemoryImage` reads records into a map of blocks, makes the sorted vector of
  it, and runs the steps of `CoPredecessor` in it: the reader, the map and the
  search together.
- the parsers call the functions of `CoReader` for every character.
- `CoXml` takes any order of handler calls that a document can cause, and `XmlParse`
  shows which calls expat makes (`DeliversDocument`), including those after
  `XML_StopParser`.
- `CoSwList` takes a file that can be opened for one that is read.

### CoObject

`kind`, `flags`, `elem`, `cnt` are the fields of `coStruct` for every address;
`held` are the objects a local variable owns (of the application, or of a library
function that is still building something); `call` is the stack of the functions
that allocate object by object, each frame with its source, the container it
builds and the slots left to do; `ret` is what the last of them returned; `lost`
are objects no pointer will ever delete; `halted` says that an assertion failed;
`oom`, which never changes, whether allocations of the behaviour may fail.
The other operations (`coVectorAdd`, `coVectorSet`, `coVectorErase` at the end,
`coVectorClear`, `coMapAdd`, `coMapErase`, `coMapClear`, `coDelete`) are one step
each: they allocate at most once, before they change anything. `Tree(S)` is what
deleting the objects of `S` frees, the least set closed under ownership, which is
what the recursion of `coDelete` through `fn->destroy` reaches.

`coClone`, `coVectorAppendVector` and `coNewVectorByMap` run as `LibStep`s: one
per clone of an element, per add, and per error. The error paths are modelled as
they are: a clone that could not be added is not deleted, `coVectorMap` deletes
the elements but not the struct of the vector it made, `coMapClone` that fails
below the root of the tree skips a subtree and goes on (the shape of the tree is
left open: `root` is any key, and the keys skipped are any run that a subtree may
hold), and a container that could not be allocated meets the assertion of
`coVectorAdd`, which is kept in the build.

The application keeps to the contract of `co.h`: it moves only what it holds, it
refers only to what exists, it reads (and clones) only trees whose references are
alive. It may mix owning and referring containers and nest them. It never goes on
after a failed assertion.

### CoVector

`list` is a function on the allocated slots, so an access outside is an access
outside its domain; slots not written hold `Junk`. While `coVectorForEach` runs
(`pc = "foreach"`, with the `end` it read once) every operation may happen, which
is what its callback may do. `coVectorErase` is its real loop.

### CoAvl

`tree` has the nodes: `kid[n][0]` and `kid[n][1]`, `height[n]`, and `value[n]` for
those that are allocated. A key is a number and names the node that holds it; 0 is
`avl_nnil`. The map itself is a node, `MapO`, whose left kid is `m.root`, so that a
parameter `rootp` of the code is always a kid of a node. `avl_new_node`,
`avl_delete_node`, `avl_set_height`, `avl_rotate` and `avl_adjust_balance` change
the nodes as the functions of these names do, including that a rotation leaves the
height of the new root to `avl_adjust_balance` and that C division rounds towards
zero.

The recursive functions are a stack, `path`, of the nodes whose call is running.
`avl_insert`, `avl_delete` and `avl_query` go down one node per step (`CallForKid`)
until they are at the key or at the end of a branch, and after that one call per step
goes on (`AdjustBalance`). `avl_delete` at its node rotates it down (`DeleteRotates`)
until it has no kid on the side it goes to. `avl_for_each` and `avl_loop_sub` share the
steps of the walk: an iterator's `node[0 .. depth - 1]` is `path`, too. So the tree is
seen with the heights as they are between two returns, which is what the invariant of
the proof is about. An iterator ends when the map changes, since its nodes may be gone.

### CoMapKeys

Buffers are addresses with a text. It has the key pointer of each node, the buffer
of each string value and its `CO_STRFREE` flag, what the application still has to
free, and for `coMapAdd` and `coMapAddValueKey` every combination of `CO_STRDUP`
and `CO_STRFREE`, with NULL values and failing allocations. `use` fixes for a
behaviour which flags the map has and which of the functions are called.

### CoMem, CoStr, CoPredecessor

`CoMem` has the growth rule of `coMemAdd` with its two bounds as constants, and
`memlen` assigned before the allocation is known to have worked. After an error
the application deletes the block, as all callers in the library do. `CoStr` has a
function on the allocated bytes with the terminator among them; the size of an
allocation is recorded nowhere in the code, so that the domain of that function is
all there is to keep `strcpy` inside. `CoPredecessor` starts with any sorted vector
and any search key.

### CoMemoryImage

`map` has the bytes of each block under its address, `mo` and `last_address` are
the locals of the readers that decide whether a record continues the last block. A
record is an address and some bytes; a byte is the number of its record, so that
one sees where the bytes of a block came from. `S19Record`, `HexData` with
`HexSegment`, and `ElfBlock` differ in how they come to the address; the rest
(`Record`) is the same code in the three readers. The records come in any order,
overlap, are empty, or have an address seen before, in which case the new block
replaces the old one. `BadRecord` deletes the map.
`MakeVector` is `coNewVectorByMap`; then `getMemoryArea` is called any number of
times. `MakeShortVector` is `coNewVectorByMap` when allocations fail in its callback:
blocks are missing, as the results of the subtrees are ignored; or the root's fails and
the vector is NULL, which has no elements; or `coNewStr` fails and the key of a block
is NULL (`NoKey`), which `coStrGet` turns into an empty string and `strtoll` into the
address 0. Which blocks are missing together depends on the shape of the tree; the model
lets it be any. `coNewMem` that returns NULL for a new block, and `coNewVector` that
does, are used at once by `coMemAdd` and `coVectorAdd`, which ends the program
(`AddBlockHalts`, `MakeVectorHalts`); memory that runs out later makes the readers
delete the map (`AddBlockFails`). Addresses have at most eight hex digits, where the order of the strings is
the order of the numbers.

### CoReader, CoCsv

A reader is a record and `coReaderNext`, with the five functions behind it, maps it
to the next. Of zlib there is what the code sees: input that is used up, output that
is written into a buffer of `CHUNK` bytes, the end of the stream, an error. `Junk` is
the byte of `out` that nobody wrote. The byte order mark is read as `bom_read_and_skip`
does, and looked for once more in the output of inflate, where a partial match sets
the position back to 0 only.

`CoCsv` goes through a file character by character: the field buffer with its
length, `isQuote`, the row, the rows, the pool. The 0 that ends a field goes to
`buf[idx]`, for a field of `CO_CSV_FIELD_STRING_MAX` characters one byte behind the
array (`EndField`, see Findings). `QuoteChar`, `PlainChar` and `TailChar` are the branches
of the loop of `coGetCSVField`; the strings of a row belong to the row or to the pool,
and `live` counts what is allocated. `entry` is one of the three functions to call.

### CoDocument, CoJson, CoA2l

`stack` has a frame for every active call of the recursive descent, with the container
it builds; `pc` is where the function of the top frame is. `live` counts the objects
that exist, `lost` those an error path left behind, `badfree` says that a static
buffer will be freed. `CoJson` has `coJSONGetValue` with its
containers, strings with their escapes (a buffer of `COJ_STR_BUF` bytes is flushed in
the middle), words, and the writer (`writeChar` and what is around it), whose texts
are the inputs of the run. `CoA2l` has words, strings, both kinds of comments, blocks,
and the words with a static string of their own.

### CoXml

`elements` is the stack `cx.v`, `kids` the vectors of the elements that exist. `expat` says which
handler can be called next. After `XML_StopParser` in `startElement` expat still
reports the end of an empty-element tag (`xmlparse.c` 3551 to 3566), after one in
`dataHandler` the rest of a text that it converts from another encoding, and at the
end of an entity's text it returns without an error (`ReadStopped`, see Findings).

### CoSwList

`main` goes through the command line and then through the loops of `getSWList`: start
the threads, join them, collect. `list[t]` and `s19[t]` are where the two threads of
pair `t` are. `index` is the local array of `getSWList` whose elements the threads
read; once it is gone (`CreateThreadFails`) a thread reads any number there. Then `main`
gets NULL, for which `coVectorSize` is 0 (`co.c` 159-161), so that it skips its loop and
returns 0, which ends the threads that still run (`Exit`).

### XmlTok, XmlRole, XmlDtd

A text is a sequence of symbols: bytes, with one symbol for some runs of name
characters, such as a keyword. A tokenizer maps a text and a position to a token and
where it ends, and tells whether more input could make it longer (the negated codes
of `prologTok`). The byte classes, the checks of UTF-8 sequences, `scanLt`, `scanAtts`, `scanRef`,
`scanPi`, `scanComment`, `scanLit`, `cdataSectionTok`, `ignoreSectionTok`,
`attributeValueTok`, `entityValueTok` and `getAtts` follow `xmltok_impl.c`.

`xmlrole.c` is a table: state, token, keyword, next state, role. `XmlDtd` has what
`doProlog` does with a role: declarations of entities, attributes, notations and
content models, `keepProcessing`, group connectors, the values that
`storeEntityValue` and `storeAttributeValue` make.

### XmlBuffer, XmlParse

`XmlBuffer` has `m_buffer` as a function on its bytes, with `bufferPtr`, `bufferEnd`,
`bufferLim`, and the heuristic of `callProcessor` (`enough`). `given` is what the
application has written so far and `parsed` how much of that is used; they are not in
the code, and say what the buffer has to be a window on. `XmlParse` has one step per
token: `Prolog`, `Content`, `CdataSection`, `CloseEntity`, `Epilog`, under the loop of
the application. A tag remembers its raw name as an offset into the buffer until
`StoreRawNames` copies it. `events` is what the handlers were told; a handler may
call `XML_StopParser`.

## 3. Runs

Three kinds of properties: invariants, action properties (`[][...]_vars`), refinements
(`IsSequence`, `IsDictionary`, `IsByteString`, `IsText`, `ImplementsOwnership`: the
abstract specification under a refinement mapping), and liveness.

| run | instance | shows |
|---|---|---|
| `objects` | part *errors*: 3 addresses, 2 elements, every allocation may fail, vectors owning all or only the first element; part *append*: 5 addresses, vectors of 4 elements, allocations fail; part *clean*: 5 addresses, no failures | no double free or dangling owner (`OneOwner`), every object has an owner or was dropped by a known error path (`Accounted`); append adds all or restores the vector (`AppendAllOrNothing`), also when a vector is appended to itself (`SourceLives`); nothing is lost (`NothingLost`), clones are equal (`CloneEqual`), where no allocation fails; the heap implements `CoOwnership` |
| `containers` | a vector with extension 2, 5 elements, failing `realloc`; trees of 6 keys and 2 values; 5 buffers, 2 names, the 5 ways of `SafeUses` to use a map | array accesses, callbacks that change the vector, sequence; AVL tree, both traversals, dictionary; one owner per buffer, one free |
| `memory` | blocks: bounds 2 and 3, 5 bytes, 2 blocks; strings of up to 3 characters, 2 objects; files of 3 records of up to 2 bytes, 3 addresses, vectors of their blocks that are complete or not, lookups of up to 2 bytes | accesses, byte string and text, also after errors; the search stays inside, is right in sorted vectors, ends; what a lookup finds is from the file, and ranges of records that do not overlap are found, as far as their blocks are in the vector (`AreaIsRight`) |
| `readers` | CSV: rows of up to 2 fields, 2 rows, 6 encodings, all texts of up to 4 characters; JSON: values to depth 2, both layouts; A2L: blocks in blocks, comments; each broken off anywhere; any allocation fails; command lines of up to 3 pairs, readable, missing and absent files, failing `pthread_create`, all interleavings | the text is delivered (`ReaderDelivers`), what was written is read (`WrittenIsRead`), nothing is lost but on known error paths (`AllocatedIsOwned`), the end is reached but in the case of `ReadsOn` (`ReadEnds`); `ListInOrder`, `ThreadsDone`, `S19Joined`, `ListReturned` |
| `xml_syntax` | texts that grow by up to 4 symbols behind the openings of five scanners; prologs and external subsets with 2 declarations and 2 levels of groups | tags are those of the grammar at every length (`MarkupIsGrammar`), a token does not change when more arrives (`TokenSettles`), a prolog is refused exactly where the grammar has no continuation (`PrologIsGrammar`), the first declaration of an entity and of an attribute is the one that counts (`FirstDeclarationBinds`, `FirstAttributeBinds`) |
| `xml_documents` | some 60 documents, cut into buffers in every way; trees of 4 elements and 3 pieces of text; the buffer or an object without memory; a handler that stops | the handlers are told the document, however it was cut (`DeliversDocument`), `BufferSound`, `EachOwnedOnce`, the tree is the document, but for white space of XML if that is to be skipped (`DocumentRead`; with `skip_white_space` for ASCII text), the loop ends (`ParserEnds`) |
| `map_keys_mixed` | *violation* | a replaced value takes the key of its node along |
| `vector_erase` | *violation* | `coVectorErase` before the last element does not return |
| `xml_stop` | *violation* | `XML_ParseBuffer` succeeds after `XML_StopParser` |
| `clone_flags` | *violation* | a clone has the flag `CO_FREE_VALS` |
| `foreach_stop` | *violation* | `coMapForEach` goes on after its callback returned 0 |
| `text_kept` | *violation* | text that is not ASCII is skipped as white space |

### Bounds

- *Addresses* (3 or 5): a container, a clone of it and an element make three; an
  error inside a nested clone (container in a container, and their copies) needs
  five. Addresses are interchangeable and no property of the run is one of liveness,
  so it uses symmetry.
- *COV_EXTEND* is 64 in the code and 1 in the runs of `CoObject`, `CoXml` and
  `CoDocument`, so that every add after the first may fail; it is 2 in `CoVector`
  and `CoCsv`, so that a vector grows three times on the way to 5 elements.
- *MaxCnt* (4, 5) bounds the vector, in `MCObject` to 2 but in the part *append*,
  which has 4 so that a vector of two elements can be appended to itself.
- *Keys of a tree* (6): deletions and double rotations of both directions occur from
  4 keys on, and with every order of insertions and deletions these are all AVL trees
  of up to 6 nodes. The iterator's stack has 4 places, the fewest that suffice for 6
  keys; `CoAvlProof` has every number of keys.
- *Buffers* (5) and *names* (2): two entries with a key and a value buffer each and
  one buffer to pass.
- *MIN_EXTEND, MAX_EXTEND* (2, 3) for 16 KiB and 1 MiB, with strings of 0, 1 and 3
  bytes: shorter than, equal to and longer than the extension.
- *Records* (3) of 0, 1 or 2 bytes at 3 addresses: a block, one that continues it
  and one that is before, after or inside; segments 0 and 1 with offsets 0 and 1 let a
  HEX file reach one address in two ways. *MaxLost* (1): a block, or a key, is missing
  in the vector, or all of them are. Vectors of up to 3 blocks take both
  branches of the search at every depth it has there; `CoPredecessorProof` has all
  sizes.
- *CHUNK* (3) and *BLOCK* (5) for the buffers of zlib: either is used up first, and
  a byte order mark lies over the end of one. *CO_CSV_FIELD_STRING_MAX* (4) and *COJ_STR_BUF* (2): the buffer is
  filled within a field or a string. *MaxFields* (5) and *MaxRows* (4) are reached only
  by the input that is read for ever: a row or a file that would go on stops there, and
  the deadlock check shows that no other input does. The words of
  A2L that begin and end a block have two characters; *CO_A2L_IDENTIFIER_STRING_MAX*
  (13) is reached by a name of twelve.
- *BUFSIZ* (3), *INIT_BUFFER_SIZE* (2), *XML_CONTEXT_BYTES* (1): every document needs
  several buffers, that are moved, enlarged, and too small for a token. A symbol may
  stand for many bytes, so a full buffer may end after any number of symbols.
- *MaxMore* (4), *MaxLevel* (2), *MaxDecls* (2), *InitGroupSize* (2): an attribute with a value and
  what follows it; a group in a group, which makes the connectors grow; two
  declarations of one entity, or of one attribute, which have different literals.
- *Elements* (4), *pieces of text* (3): an element with a parent and a grandparent, and
  a sibling; text before, between and after children, in pieces, of blanks, of ASCII
  letters and of the two bytes of another letter.

### Fairness and deadlock

The library is sequential, so the only fairness is that a function that was called
is executed: `WF_vars(LoopStep)` for the loops of `CoVector`, and `WF_all(Lookup)`
for a call of `getMemoryArea`; in `readers` and `xml_documents` the application calls
until the input ends, as `coReadXML` does. There weak fairness is written out with a
variable that every step changes (`odd`), because a step of a parser may leave all else
as it is, and that a step is always possible before the end is what the deadlock check
of these runs shows. For the threads the same formula says only that, of the threads
that can go on, one does, which pthread gives; no thread runs for ever, so this is
enough for `ListReturned`, and a thread that waits for one that was not started shows
as main being blocked (`Blocked`). Nothing obliges the application to call. `CoObject` has
no fairness and no liveness property. Deadlock is not checked where the program
may really stop: after a failed assertion and with all addresses in use (`CoObject`),
with blocks at their bound (`MCMem`), and when a text has its full length
(`MCXmlSyntax`).

### Findings

The six violation runs show where the code disagrees with what `co.h`, `expat.h` or
a comment of the code says; `PROJECT.json` quotes the lines.

- `coVectorErase` loops for ever unless the element is the last (`co.c` 308).
- `coMapAdd` after `coMapAddValueKey` of the same key in a map without `CO_STRDUP`
  frees the key of the node (`co.c` 842).
- When a handler stops the parser at a `]` that ends the text of an entity,
  `XML_ParseBuffer` returns `XML_STATUS_OK` (`xmlparse.c` 3717). `coReadXML` looks at
  its own `is_error` after the last buffer, and only then does that branch run.
- `coClone` is said to set the flags of the new tree to `CO_NONE` (`co.c` 45); a clone
  owns its elements (`co.c` 238 and 1042), as it must, or they could not be deleted with
  it. `CloneEqual` asks for what the code does, `CloneFlagsNone` is the comment.
- `coMapForEach` goes on after its callback returned 0 in a subtree, although `co.h`
  318-320 says it returns as soon as that happens. `ForEachStops` is violated;
  `TraversedInOrder` states how far it goes on, and `CoObject` and `CoMemoryImage` model
  `coMapClone` and `coNewVectorByMap` accordingly: both may return a part as a success.
- `isAllWhiteSpace` (`co_xml.c` 102-109) compares a `char` with 32. Where `char` is
  signed, the bytes of all letters that are not ASCII count as white space, and a
  text of nothing else is dropped with `skip_white_space`. `TextKept`, whose white space
  is that of XML, is violated; `DocumentRead` is `TextKept` for ASCII text and for
  documents read without `skip_white_space`.

One defect is inside a passing run, as an exception that the property names:

- When the text of a gzip file ends with a quote in a field without quotes and input is
  left behind it, `coGetCSVField` reads on over the end of the text (`co_extra.c` 627),
  where `coReaderGZFileNext` delivers the first byte of its last block for ever (`co.c`
  1463-1501): a separator makes one field after the other, another character fills the
  field up to the assertion on its size, until memory is exhausted. The inputs of
  `readers` have that file. `ReadEnds` allows the endless loop for it (`ReadsOn`) and for no
  other; with a newline as that byte, which is not among the inputs, the rows would not
  end.

Besides, the models contain these leaks on error paths, which the invariants name
instead of hiding: the clone that `coVectorAppendVectorCB` could not add, the vector
struct in `coVectorMap`, the clone that `coMapClone` could not add, the block in
`coMemClone`, the copy of the key in `coMapAdd`, the map of `coJSONGetMap` at the end
of the input, the parent array of a nested A2L array, and the elements under
construction in `coReadXML` after a parse error. Some disagreements have no run of
their own:

- A vector with a NULL element, which `co.h` 263-265 allows, cannot be cloned:
  `coVectorMap` takes the NULL clone for an error (`co.c` 246) and leaks the struct of
  the new vector. `StoreNull = TRUE` in `CoObject` lets vectors have such elements.
- When memory is short while `coNewVectorByMap` makes the vector of the blocks,
  `getMemoryArea` works with a part of them, or with a block whose key was lost and
  which it takes for one at the address 0, and returns bytes of a wrong address.
  `AreaIsRight` exempts vectors with a lost key and asks for no block that is not there.
- The readers of S19, HEX and ELF files give the NULL of a failed `coNewMem` to
  `coMemAdd` (`co_extra.c` 382-383, 484-485, 571-572), which dereferences it.
- A CSV field of `CO_CSV_FIELD_STRING_MAX` characters gets its final 0 one byte behind
  the buffer (`buf[idx]` in `co_extra.c` 620-677, the arrays in 775, 784 and 805).
- `getMemoryArea` does not find a range that ends with the last byte of a block
  (`delta+length >= memory_len`, `test/a2l_info.c` 601). `AreaIsRight` asks only for
  ranges that end before it.
- In a CSV field without quotes a quote is dropped and the character behind it is
  stored, a separator, too. A line with one empty field is lost at the start and the
  end of a file.
- Of UTF-16 only code points below 256 survive; `FF FE 00 xx` is not taken for a mark;
  in a string a byte above 127 ends the text where `char` is signed.
- After the end of compressed data with input left, `coReaderNext` delivers the first
  byte of the last block again; data that breaks off in its header delivers a byte
  nobody wrote. A truncated file is accepted as far as it goes.
- A JSON string that breaks off becomes an object that will free the static
  `empty_string`; in all inputs it is below a container that is rejected.
- An A2L word directly at the end of the file is dropped.
- A command line with 16 pairs of files, the last with `-s19`, leaves that out;
  `-s19` twice makes a pair without an A2L file, whose S19 thread nobody joins.
- With an external subset or a parameter reference that is not read, expat skips
  entities that are not declared, as XML 1.0 allows when the document is not
  standalone; `MCXmlParse` has documents of both kinds.

One more hazard is left out of the uses of `containers`: in a map with `CO_STRDUP`, an
entry with a NULL value (stored by `coMapAdd`, or by `coMapAddValueKey` itself when
`coNewStr` failed, `co.c` 976-982) that `coMapAddValueKey` fills gets a string whose
buffer `avl_insert` has just freed. So maps with `CO_STRDUP` and value keys are run
without failures; the model shows the entry dangling as soon as `oom` is TRUE for
them.

## 4. Proofs

The theorems hold for every value of the constants that satisfies the named
assumptions of the modules (sets of addresses and keys of any size, any bounds).
These assumptions say that a NULL, a marker or a byte never written is none of the
values it is told apart from, and of which sets the parameters are. The
theorems listed in `PROJECT.json`:

- `CoObjectProof`: `TypeCorrect` and `NoDoubleFree`. `OneOwner` alone is not
  inductive: a step of a running function changes what the local variables of that
  function own. The invariant `Inv` adds `FreeIsBlank` (a free address has no
  slots) and `FramesOK` (the containers that the frames of the stack build are held
  and all different, and differ from the result under way). The lemmas about `Tree`
  (it is the least closed set; it spares what is held and what others own) carry the
  argument: deleting what a slot owns cannot free an object with another owner.
  There is one lemma per action.
- `CoAccountProof`, on top of that: `EverythingAccounted` (`Accounted`) and
  `AppendIsAllOrNothing`, from `AccountInv`: `Inv`, `Accounted`, and `Shape`
  (a vector is filled from the first slot on; what a running function builds owns its
  elements). A lemma (`OwnStep`) says what a step has to do with owners so that
  nothing is unaccounted for: what loses its owner is freed, held, lost, or gets
  another one. `AppendAllOrNothing` is about steps; each is compared with the
  elements the vector had.
  - `OwnershipImplemented` is the refinement of `CoOwnership`: the owner of an
    object is a function of the state because of `OneOwner`, and every action of
    `CoObject` is a step of `Ownership!Next` or a stutter. That nothing owns itself
    follows from `Accounted`: what only its own slot owned would be reached from nothing.
  - `WhatIsReadLives` (`SourceLives`): a running function reads what the application
    could read when it made the call. `Sources` names the set of the objects that
    still have to be read, which the containers under construction stay out of, and
    what they own, too; so no error path frees any of them, although the source
    and the copy may refer to the same objects.
  - `NothingIsLost` is about behaviours in which no allocation fails (`~oom`), and
    assumes that no NULL is stored (`~StoreNull`). Both are needed: otherwise
    the error paths listed under Findings lose objects.
  - `ClonesAreDeep` (`CloneEqual`) is restricted in the same way. `DeepCopy` asks for a
    map of what the clone owns to the source, slot by slot. The invariant `Copied` has
    that map for everything made so far in a call: `Mapped` says that what was
    made owns its slots and mirrors those of its source, `FramesCopy` that only what a
    frame builds lacks slots, namely those of its `todo`, and that each frame was
    called for the element the one below handles, `ResultCopies` that the clone
    under way was made from that element. What a frame builds is held, so it is not in
    the tree of the clone that is returned, and all in that tree is complete.
- `CoContainerProof`: `CapacityCorrect`, `ForEachSafe` and the refinement
  `SequenceImplemented`. The invariant adds that the slots below `cnt`, and, while a
  loop of `coVectorForEach` runs, those below its `end`, were written: a slot once
  written is never unwritten, since nothing shrinks the array.
  The second half is `MapOwnsBuffers`, about `CoMapKeys`, for maps used in the ways that the predicate
  `SafeUse` allows (`SafeUses` of the run are among them). That restriction is a
  finding: other uses violate the property (`map_keys_mixed`, and the hazard named
  above). `BuffersOwned` says nothing of a buffer that only a step to come will
  free or refer to. `KeysInv` adds where the key of an entry may come from (the
  application, its own copy, or the string in the value), that a string which does not
  own its buffer refers to the key of its entry, that no two entries share a buffer,
  and that what the application still has to free is allocated.
- `CoAvlProof`: `TreeIsAvl` (`AvlTree`), `TraversalIsInOrder` (`TraversedInOrder`) and
  the refinement `DictionaryImplemented` (`IsDictionary`), for any number of keys. All
  come from one invariant, `TreeInv`, which holds in the middle of the calls:
  - *Order and shape* (`Placed`): each node `n` has bounds `lo[n]` and `hi[n]`, the keys
    that its subtree may hold lie between them, its left kid has `lo[n]` and `n` for
    bounds and its right kid `n` and `hi[n]`, and every node is the kid of one that has
    room for it. Bounds exist in every state (they are not a part of it), and with them a subtree is
    an interval of the keys (`SubtreeIs`): no induction over trees is needed. The
    lemmas `RotatePlaced`, `NewPlaced` and `GonePlaced` give the bounds after a rotation, an
    insertion and a deletion. A call for a key stays where that key may be (`PathOK`), so
    at the end of a branch the key is not in the map: this is the refinement, since
    nothing else changes `tree.value`.
  - *Balance*: between two returns the heights stored above are out of date. `Rising`
    says for every node of `path` which height its kid on the way had when the node's
    own was stored, that this is at most one away from what it is now, and that all nodes off the
    path are balanced. `Sinking` says the same while `avl_delete` takes its node down: there, a
    rotation may leave a difference of three, which one call of
    `avl_adjust_balance` mends only if the higher kid is uneven itself (the set `U` of
    `Chain` has those places). `AdjustIs` is the analysis of these cases.
  - *Traversal*: what was visited, what is on the stack and what is still ahead are
    three intervals of the keys (`Stack`, `Passed`, `Point`), without the right kids of a
    callback that returned 0.
  - *Stack of an iterator*: the heights along the stack fall, so it is no longer than the tree
    is high, and a tree of height `h` has at least `Least[h] - 1` nodes (`LeastWide`, by
    induction over the height with a least counterexample). `DepthAssumption` asks that
    this is more than there are keys for the length of the array. `co.h` 322-325 has 45 for 2^31
    keys: `Least[45]` is 2971215073, so the assertion of `avl_loop_sub` holds, and 44 would not do.

  TLC checked these conditions, with the bounds and heights computed from the tree, as an
  invariant for up to 8 keys before they were proved.
- `CoMemProof`: `BytesAlwaysInside` and the refinement `ByteStringImplemented`. The
  invariant describes one block: its length fits, its bytes were written, its
  recorded size is right unless an add has failed. The second half,
  `TextImplemented`, is the refinement of `CoText` by `CoStr`: the memory of a string
  holds its text and a terminator behind it (`HasText`), so that what `strlen` finds,
  what `len` says and the text are the same, also when a shorter text was written
  over a longer one.
- `CoPredecessorProof`: `SearchReadsInside`, `SearchCorrect`. The invariant is the
  usual one: keys left of `lower_pos` are lower or equal, keys from `upper_pos` on
  are greater. The second half is about `CoMemoryImage`: `LookupCorrect` (the same two,
  inside of the whole) and `AreaAlwaysRight`. For these `ImageInv` says that each byte of a
  block was in a record for its address, that each block begins with a record that
  no other block has, that each record lies in one block when none starts inside
  another. Of the vector it says (`VectorReady`) that its elements are blocks of the map,
  that it is sorted when no key was lost, and that it has every block when memory was
  not short. With that, a range is found because its record lies in one block, and the
  predecessor of its address is that block, as no other one in the vector reaches or
  starts there (`OneBlock`, `BlockFound`).
- `CoSwListProof`: `CollectsAfterThreads` (`ThreadsDone`),
  `OnlyFailedPairsLeaveThreads` (`S19Joined`) and `ListReturnedInOrder`
  (`ListInOrder`), for any command line and number of
  pairs. The invariant adds which threads exist in each phase of `main`, that those
  joined have ended, and that thread `t` works on pair `t` as long as `getSWList` has
  not given up: only then does the array it reads from exist. `ListInv` adds what a
  thread has made of its files at each of its steps. That the list is
  filtered is stated by positions (`IsFiltered`: an object is where the number of
  objects before it says), which is provable for any length.
- `XmlProof`: `BufferAlwaysSound`, for all sizes of buffer, context and request.
  `BufferSound` speaks of the bytes not parsed and of the context only; the invariant
  is that *every* byte before `bufferEnd` is the one given at the same distance from
  `bufferPtr`, which survives that `XML_GetBuffer` moves the buffer by
  `bufferPtr - keep`. The theorem is about `BufferSpec`, in which any number of bytes may be
  parsed by a call; `XmlParse` does that with `Consume`, `TakeOver` and
  `XML_GetBuffer`, too.
  The second half is `ElementsOwnedOnce` (`EachOwnedOnce` of `CoXml`), for documents of any
  depth, width and length. `XmlInv` says that an element is on the stack once, a
  child once, or the result, and nothing of it twice (`TreeShape`), and that without an
  error the stack has an element for every start tag that waits (`StackFits`); after an
  error it may be shorter, and a text has an element even then. The lemma `DeletedInv`
  covers the deletion of an element that could not be added and that of the whole
  stack: what leaves the stack may be freed with all its children, and no more.

Only model-checked:

- liveness (`EraseReturns`, `LookupReturns`, `ReadEnds`,
  `ListReturned`, `ParserEnds`), which is out of the prover's reach;
- the properties of the parsers in `MCReaders`, those of `XmlTok`, `XmlDtd` and `XmlParse`, and
  `DocumentRead`, which are about recursive operators: what a
  recursive definition computes for every input is induction over data.

## 5. Not modelled

- Of the library: the characters of a line in S19 and HEX files and the section table
  of ELF files; printing (`coPrint`, `coSize`); the values of doubles and bools; the
  text of strings beyond what the readers tell apart; numbers and memory blocks in the
  JSON writer. zlib and libelf are external.
- Of string objects: `coStrAdd(o, coStrGet(o))`, a 0 byte given to the functions with
  a length, NULL with `CO_STRFREE`.
- Of expat: suspending and resuming, parsers for external and parameter entities,
  namespaces, other encodings than UTF-8, handlers that the library does not set,
  failed allocations but that of the buffer, limits of amplification, the hash
  function. `expat_config.h` is not in the repository; the models assume `XML_GE` 1
  and `XML_DTD`, `XML_NS`, no `XML_UNICODE`, and a parser made with
  `XML_ParserCreate(NULL)`. A document that says it is ASCII and is not stays out. After
  an error `m_bufferPtr` is where the last processor returned in the code, and at the
  token in the model; nothing reads it then but the position of the message.
- Of `test/`: the index and the reports of `a2l_info`, and the other programs, which
  are loops over what was read. `support/` holds prototypes of the tree and of the
  search that the library has its own copies of.

A `malloc` for the list of a new vector that fails and one for its struct that
fails look the same (no object); a `strdup` that fails inside `coStrInit` is
dereferenced by `strlen` in the code: `CoStr` and `CoCsv` end the program there
(`halted`, `StringHalts`), and in `CoObject` and `CoMapKeys` a string whose buffer cannot
be allocated is a string that cannot be allocated.

## 6. Plan

1. *(done)* Objects and ownership, vector storage, tree, key buffers, memory blocks,
   strings, search, memory images, with the proofs above.
2. *(done)* Reader, CSV, JSON, A2L; the threads of `a2l_info`.
3. *(done)* expat as `coReadXML` uses it, and the two together.
4. *(done)* The proofs of all invariants and refinements that are not about recursive
   operators.
5. Parameter entities and suspension in `XmlParse`, if the library comes to use them.
