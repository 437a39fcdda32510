------------------------------- MODULE CoReader -------------------------------
(***************************************************************************)
(* The reader of characters (co/co.c, co.h) that every parser of the       *)
(* library reads through: over a string or over a file, with a byte order  *)
(* mark, in UTF-16 or compressed.  A reader is a record, the functions map *)
(* it to what it is after the call.                                        *)
(*                                                                         *)
(* zlib is external: its input is the mark 31, the bytes of the text, End, *)
(* and what may follow.  A block of BLOCK of these is read at a time, and  *)
(* one call of inflate fills at most CHUNK bytes, so that either may be    *)
(* used up first.  A read error is a file that ends there.                 *)
(***************************************************************************)
EXTENDS Integers, Sequences

CONSTANTS
  CHUNK,   \* size of the buffer out
  BLOCK,   \* what a read of compressed data yields, counted in bytes of the text
  End,     \* the end of the compressed data
  Corrupt, \* what zlib finds wrong in the compressed data
  Junk     \* a byte nobody wrote

ASSUME ReaderAssumption ==
  /\ CHUNK \in Nat \ {0} /\ BLOCK \in Nat \ {0}
  /\ {End, Corrupt} \cap (0 .. 255) = {}
  /\ Junk \in 0 .. 255

EOF == -1

\* the string in a buffer of characters, up to the first 0
CString(s) ==
  LET ends == {i \in DOMAIN s : s[i] = 0} IN
    IF ends = {} THEN s
    ELSE SubSeq(s, 1, (CHOOSE i \in ends : \A j \in ends : i <= j) - 1)

-----------------------------------------------------------------------------
(* The byte order mark *)

At(bytes, i) == IF i <= Len(bytes) THEN bytes[i] ELSE EOF

StartsWith(bytes, s) == \A i \in DOMAIN s : At(bytes, i) = s[i]

\* fpos: the bytes of the file that are read
bom_read_and_skip(bytes) ==
  CASE StartsWith(bytes, <<239, 187, 191>>) -> [bom |-> "UTF8", fpos |-> 3]
    [] StartsWith(bytes, <<254, 255>>) -> [bom |-> "UTF16BE", fpos |-> 2]
    [] StartsWith(bytes, <<255, 254>>) /\ At(bytes, 3) # 0 ->
         [bom |-> "UTF16LE", fpos |-> 2]
    [] StartsWith(bytes, <<255, 254, 0, 0>>) -> [bom |-> "UTF32LE", fpos |-> 4]
    [] StartsWith(bytes, <<0, 0, 254, 255>>) -> [bom |-> "UTF32BE", fpos |-> 4]
    [] OTHER -> [bom |-> "NONE", fpos |-> 0]

-----------------------------------------------------------------------------
(* Next: one operator for each next_cb *)

\* a byte as a char, which has a sign
Char(b) == IF b < 128 THEN b ELSE b - 256

coReaderStringNext(r) ==
  IF r.curr < 0 THEN r
  ELSE [r EXCEPT !.fpos = @ + 1,
                 !.curr = IF r.fpos < Len(r.file) THEN Char(r.file[r.fpos + 1]) ELSE EOF]

coReaderFileNext(r) ==
  IF r.curr < 0 THEN r
  ELSE [r EXCEPT !.fpos = @ + 1, !.curr = At(r.file, r.fpos + 1)]

\* the bytes of a code point in UTF-8, the last one first
coEncodeUTF8(codepoint) ==
  LET Tail6(n) == 128 + ((codepoint \div n) % 64) IN
    CASE codepoint <= 127 -> <<codepoint>>
      [] codepoint \in 128 .. 2047 -> <<Tail6(1), 192 + (codepoint \div 64)>>
      [] codepoint \in 2048 .. 65535 ->
           <<Tail6(1), Tail6(64), 224 + (codepoint \div 4096)>>
      [] codepoint \in 65536 .. 1114111 ->
           <<Tail6(1), Tail6(64), Tail6(4096), 240 + (codepoint \div 262144)>>

coGetCodepointFromUTF16(high, low) ==
  IF high \in 55296 .. 56319 /\ low \in 56320 .. 57343
  THEN 65536 + (high - 55296) * 1024 + (low - 56320)
  ELSE high

Pop(r) ==
  [r EXCEPT !.curr = r.stack[Len(r.stack)], !.stack = SubSeq(@, 1, Len(@) - 1)]

\* order: which of the two bytes that follow is the argument high
FileNext16(r, order) ==
  LET two == [i \in 1 .. 2 |-> At(r.file, r.fpos + i)] IN
    IF r.curr < 0 THEN r
    ELSE IF r.stack # <<>> THEN Pop(r)
    ELSE IF EOF \in {two[1], two[2]}
    THEN [r EXCEPT !.curr = EOF, !.fpos = Len(r.file)]
    ELSE Pop([r EXCEPT !.fpos = @ + 2,
                !.stack = coEncodeUTF8(coGetCodepointFromUTF16(two[order], two[3 - order]))])

\* (mutant: the bytes are not swapped)
SwappedNext16BE(r) == FileNext16(r, 1)

coReaderFileNext16LE(r) == FileNext16(r, 1)

coReaderFileNext16BE(r) == FileNext16(r, 2)

-----------------------------------------------------------------------------
(* gzip *)

\* zlib, external: how far inflate gets in the input
Literals(in) ==
  CHOOSE n \in 0 .. Len(in) :
    /\ \A i \in 1 .. n : in[i] \notin {End, Corrupt}
    /\ n = Len(in) \/ in[n + 1] \in {End, Corrupt}

\* zlib, external: the output is written, the rest of the input is not read yet
Inflated(out, rest) ==
  CASE At(rest, 1) = End ->
         [ret |-> "STREAM_END", strm |-> "done", in |-> Tail(rest), out |-> out]
    [] At(rest, 1) = Corrupt ->
         [ret |-> "DATA_ERROR", strm |-> "run", in |-> rest, out |-> out]
    [] OTHER -> [ret |-> "OK", strm |-> "run", in |-> rest, out |-> out]

\* zlib, external: the result of inflate with CHUNK bytes of room.  Nothing comes
\* after the end of the data; without its state (strm = "ended") it does nothing.
inflate(strm, in) ==
  LET head == IF strm = "start" THEN 1 ELSE 0
      lits == Literals(in)
      n    == IF lits - head < CHUNK THEN lits ELSE head + CHUNK
  IN CASE strm = "ended" -> [ret |-> "STREAM_ERROR", strm |-> strm, in |-> in, out |-> <<>>]
       [] strm = "done" -> [ret |-> "STREAM_END", strm |-> strm, in |-> in, out |-> <<>>]
       [] OTHER -> Inflated(SubSeq(in, head + 1, n), SubSeq(in, n + 1, Len(in)))

\* the bytes that are put over the first ones of the buffer out
Over(out, bytes) == [i \in 1 .. CHUNK |-> IF i <= Len(bytes) THEN bytes[i] ELSE out[i]]

GZStop(r) == [r EXCEPT !.curr = EOF, !.strm = "ended"]

\* (mutant: the rest of the block is dropped)
GZFillDrops(r) ==
  LET n == IF r.fpos + BLOCK < Len(r.file) THEN r.fpos + BLOCK ELSE Len(r.file)
  IN [r EXCEPT !.in = SubSeq(r.file, r.fpos + 1, n), !.fpos = n]

\* a block is read only when inflate has taken the one before
GZFill(r) ==
  LET n == IF r.fpos + BLOCK < Len(r.file) THEN r.fpos + BLOCK ELSE Len(r.file)
  IN IF r.in = <<>> THEN [r EXCEPT !.in = SubSeq(r.file, r.fpos + 1, n), !.fpos = n]
     ELSE r

GZTake(r) == [r EXCEPT !.curr = r.out[r.pos + 1], !.pos = @ + 1]

GZInflated(r, z) ==
  IF z.ret = "DATA_ERROR" \/ (z.ret = "STREAM_END" /\ z.out = <<>>) THEN GZStop(r)
  ELSE GZTake([r EXCEPT !.have = Len(z.out), !.pos = 0])

GZInflate(r, z) ==
  GZInflated([r EXCEPT !.strm = z.strm, !.in = z.in, !.out = Over(@, z.out)], z)

GZContinue(r) == IF r.in = <<>> THEN GZStop(r) ELSE GZInflate(r, inflate(r.strm, r.in))

\* out[0] is taken even if inflate wrote nothing
coReaderGZFileNext(r) ==
  IF r.pos < r.have THEN GZTake(r) ELSE GZContinue(GZFill(r))

coReaderGZInit(r) ==
  [r EXCEPT !.have = 0, !.pos = 0, !.in = <<>>, !.strm = "start", !.fpos = 0]

-----------------------------------------------------------------------------
(* The interface *)

coReaderNext(r) ==
  CASE r.next_cb = "string" -> coReaderStringNext(r)
    [] r.next_cb = "file"   -> coReaderFileNext(r)
    [] r.next_cb = "16LE"   -> coReaderFileNext16LE(r)
    [] r.next_cb = "16BE"   -> coReaderFileNext16BE(r)
    [] r.next_cb = "gz"     -> coReaderGZFileNext(r)

RECURSIVE coReaderSkipWhiteSpace(_)
coReaderSkipWhiteSpace(r) ==
  IF r.curr < 0 \/ r.curr > 32 THEN r ELSE coReaderSkipWhiteSpace(coReaderNext(r))

\* a reader before it is initialised
NewReader(bytes) ==
  [file |-> bytes, fpos |-> 0, curr |-> EOF, bom |-> "NONE", next_cb |-> "file",
   stack |-> <<>>, have |-> 0, pos |-> 0, in |-> <<>>,
   out |-> [i \in 1 .. CHUNK |-> Junk], strm |-> "ended"]

coReaderInitByString(s) ==
  coReaderSkipWhiteSpace(
    [NewReader(s) EXCEPT !.next_cb = "string", !.fpos = 1,
                         !.curr = IF s = <<>> THEN EOF ELSE Char(s[1])])

\* the byte order mark of UTF-8 in compressed data; pos goes back to the start of
\* the buffer
GZAgain(r) == coReaderNext([r EXCEPT !.pos = 0])
GZBOM3(r)  == IF r.curr = 191 THEN [coReaderNext(r) EXCEPT !.bom = "UTF8"] ELSE GZAgain(r)
GZBOM2(r)  == IF r.curr = 187 THEN GZBOM3(coReaderNext(r)) ELSE GZAgain(r)
GZBOM1(r)  == IF r.curr = 239 THEN GZBOM2(coReaderNext(r)) ELSE r
GZSkipBOM(r) == GZBOM1(coReaderNext(r))

Supported == {"NONE", "UTF8", "UTF16LE", "UTF16BE"}

\* the file is plain or compressed; first is its first byte
NoBOM(r, first) ==
  IF first = 31 THEN GZSkipBOM([coReaderGZInit(r) EXCEPT !.next_cb = "gz"])
  ELSE [r EXCEPT !.curr = first, !.fpos = 1]

\* a record with bom outside Supported stands for the result 0
InitFP(r) ==
  IF r.bom \notin Supported THEN r
  ELSE coReaderSkipWhiteSpace(IF r.bom = "NONE" THEN NoBOM(r, At(r.file, 1)) ELSE r)

coReaderInitByFP(bytes) ==
  LET b == bom_read_and_skip(bytes) IN
    InitFP([NewReader(bytes) EXCEPT
              !.curr = 32, !.bom = b.bom, !.fpos = b.fpos,
              !.next_cb = CASE b.bom = "UTF16LE" -> "16LE"
                            [] b.bom = "UTF16BE" -> "16BE"
                            [] OTHER -> "file"])
=============================================================================
