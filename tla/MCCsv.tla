-------------------------------- MODULE MCCsv --------------------------------
(* CoCsv on small files: rows written as RFC 4180 asks for, in each encoding,  *)
(* texts of any characters, and files of any bytes.                            *)
EXTENDS CoCsv

Comma == 44
A     == 97
Umlaut == 228

-----------------------------------------------------------------------------
(* Encodings *)

\* a text in UTF-8, for code points below 2048
Utf8(text) == FlattenSeq([i \in DOMAIN text |-> Reverse(coEncodeUTF8(text[i]))])

\* the bytes of a file, by the encoding
Encoded(encoding, text) ==
  CASE encoding = "plain"   -> Utf8(text)
    [] encoding = "UTF8"    -> <<239, 187, 191>> \o Utf8(text)
    [] encoding = "UTF16LE" -> <<255, 254>> \o FlattenSeq([i \in DOMAIN text |-> <<text[i], 0>>])
    [] encoding = "UTF16BE" -> <<254, 255>> \o FlattenSeq([i \in DOMAIN text |-> <<0, text[i]>>])
    [] encoding = "gz"      -> <<31>> \o Utf8(text) \o <<End>>
    [] encoding = "gzUTF8"  -> <<31, 239, 187, 191>> \o Utf8(text) \o <<End>>

Encodings == {"plain", "UTF8", "UTF16LE", "UTF16BE", "gz", "gzUTF8"}

\* of a file that is not written from rows
Unknown == [lines |-> <<>>, all |-> FALSE, text |-> <<>>]

Input(encoding, text, from) ==
  [file |-> Encoded(encoding, text), string |-> FALSE, text |-> Utf8(text),
   sound |-> TRUE, from |-> from]

-----------------------------------------------------------------------------
(* RFC 4180 *)

NeedsQuotes(s) == \E i \in DOMAIN s : s[i] \in {separator, Quote} \cup Newline

Quoted(s) ==
  <<Quote>> \o FlattenSeq([i \in DOMAIN s |-> IF s[i] = Quote THEN <<Quote, Quote>> ELSE <<s[i]>>])
  \o <<Quote>>

Joined(seqs, between) ==
  FlattenSeq([i \in DOMAIN seqs |-> IF i = 1 THEN seqs[i] ELSE between \o seqs[i]])

RowText(fields, all) ==
  Joined([i \in DOMAIN fields |->
            IF all \/ NeedsQuotes(fields[i]) THEN Quoted(fields[i]) ELSE fields[i]],
         <<separator>>)

Text(lines, all, newline, last) ==
  Joined([i \in DOMAIN lines |-> RowText(lines[i], all)], newline)
  \o (IF last THEN newline ELSE <<>>)

Fields == {<<>>, <<A>>, <<Quote>>, <<A, Comma>>, <<LF>>, <<Quote, A>>, <<Umlaut>>}
Rows   == {<<f>> : f \in Fields} \cup {<<f, g>> : f \in {<<>>, <<Quote>>, <<A, Comma>>}, g \in Fields}

\* those that are read in every encoding
FewRows == {<<<<Umlaut>>>>, <<<<A, Comma>>, <<Quote>>>>, <<<<LF>>>>}

\* the ways to write them: all fields in quotes or not, and the newline
Styles == {[all |-> FALSE, newline |-> n] : n \in {<<LF>>, <<CR>>, <<CR, LF>>}}
          \cup {[all |-> TRUE, newline |-> <<LF>>]}

Lines == {<<r>> : r \in Rows}
         \cup {<<r, s>> : r \in Rows, s \in {<<<<>>>>, <<<<A>>, <<>>>>}}

\* A line with one empty field is lost at the start, where white space is skipped,
\* and at the end without a newline; a caller of coGetCSVRow loses it anywhere.
Written ==
  {[lines |-> w[1], all |-> w[2].all, text |-> Text(w[1], w[2].all, w[2].newline, w[3])] :
     w \in {w \in Lines \X Styles \X BOOLEAN :
              w[1][1] # <<<<>>>> /\ (w[1][Len(w[1])] = <<<<>>>> => w[3])}}

RowsInputs ==
  {Input(e[1], e[2].text, e[2]) :
     e \in {e \in Encodings \X Written :
              e[1] # "plain" => e[2].lines[1] \in FewRows}}

-----------------------------------------------------------------------------
(* Any text, and any bytes *)

Strings(alphabet, n) == UNION {[1 .. k -> alphabet] : k \in 0 .. n}

TextInputs ==
  {Input(e, t, Unknown) :
     e \in {"plain", "gz"}, t \in Strings({Quote, Comma, LF, A}, 3) \cup Strings({Quote, Comma}, 4)}

\* what a file that starts with these bytes says; in UTF-16 only characters of
\* one byte, and the mark of UTF-32 is not taken for that of UTF-16
MarkText(bytes) ==
  LET From(n) == SubSeq(bytes, n, Len(bytes))
      Half(s, k) == [i \in 1 .. Len(s) \div 2 |-> s[2 * i - k]]
  IN CASE StartsWith(bytes, <<255, 254>>) -> [text |-> Utf8(Half(From(3), 1)), high |-> Half(From(3), 0)]
       [] StartsWith(bytes, <<254, 255>>) -> [text |-> Utf8(Half(From(3), 0)), high |-> Half(From(3), 1)]
       [] StartsWith(bytes, <<239, 187, 191>>) -> [text |-> From(4), high |-> <<>>]
       [] OTHER -> [text |-> bytes, high |-> <<>>]

MarkInputs ==
  {[file |-> b, string |-> FALSE, text |-> MarkText(b).text, from |-> Unknown,
    sound |-> /\ \A i \in DOMAIN MarkText(b).high : MarkText(b).high[i] = 0
              /\ ~StartsWith(b, <<255, 254, 0>>)] :
     b \in Strings({239, 187, 191, A}, 4) \cup Strings({254, 255, 0, A}, 4)}

\* Compressed data that breaks off, is corrupt or is followed by something else.
\* No text has a newline: see ReadsOn.
BrokenInputs ==
  {[file |-> <<31>> \o t, string |-> FALSE, text |-> t, from |-> Unknown, sound |-> FALSE] :
     t \in Strings({Quote, Comma, 239}, 3) \cup Strings({Quote, A}, 4)}
  \cup
  {[file |-> <<31>> \o t \o e, string |-> FALSE, text |-> t, from |-> Unknown, sound |-> FALSE] :
     t \in Strings({Comma, 239}, 3) \cup Strings({Quote, Comma}, 3),
     e \in {<<Corrupt>>, <<End, A, A, A>>}}

\* a string; a byte above 127 is negative and ends it
StringInputs ==
  {[file |-> t, string |-> TRUE, text |-> t, from |-> Unknown,
    sound |-> Umlaut \notin {t[i] : i \in DOMAIN t}] :
     t \in Strings({Quote, Comma, A, Umlaut}, 3)}

Nothing == [file |-> <<>>, string |-> TRUE, text |-> <<>>, from |-> Unknown, sound |-> TRUE]

SmallInputs == RowsInputs \cup TextInputs \cup MarkInputs \cup BrokenInputs \cup StringInputs

Init == InitWith(SmallInputs)

-----------------------------------------------------------------------------

Lines8 ==
  [i \in DOMAIN input.from.lines |->
     [j \in DOMAIN input.from.lines[i] |-> Utf8(input.from.lines[i][j])]]

\* Rows written as RFC 4180 asks for are read as they were: separators, quotes and
\* newlines in fields, empty fields, the three kinds of newline, with and without
\* one at the end, in each encoding.
RowsRead ==
  pc = "done" /\ ~failed /\ input.from # Unknown =>
    result = IF entry = "coReadCSVByFP" \/ input.from.all THEN Lines8
             ELSE SelectSeq(Lines8, LAMBDA l : l # <<<<>>>>)

\* The one case in which the reader does not end: the text of compressed data ends
\* with a quote in a field without quotes, and input is left behind it.  QuoteChar
\* reads on over the end of the text, and from then on coReaderGZFileNext delivers
\* the first byte of the last block again and again (co.c:1463-1501).  If that is the
\* separator, the row gets one empty field after the other until memory is exhausted
\* (when that ends the row and not the reader, there are more rows); a newline would
\* make rows, or coReaderSkipWhiteSpace read for ever.
ReadsOn ==
  /\ BoundReached
  /\ ~input.sound /\ input.text # <<>> /\ Last(input.text) = Quote
  /\ reader.in # <<>> /\ reader.strm = "ended" /\ curr = separator
=============================================================================
