-------------------------------- MODULE CoCsv --------------------------------
(***************************************************************************)
(* The CSV reader (co/co_extra.c) over a reader of characters (CoReader).  *)
(* coReadCSVByFP reads all rows, coGetCSVRow one row at a time until it    *)
(* returns NULL.  The strings are those of the rows or of a pool.          *)
(*                                                                         *)
(* A string is the sequence of its characters, a row that of its strings.  *)
(***************************************************************************)
EXTENDS CoReader, FiniteSets, SequencesExt

CONSTANTS
  separator,
  COV_EXTEND, \* a vector grows by that many elements
  CO_CSV_FIELD_STRING_MAX,
  MaxFields,  \* bounds: the fields of a row, and the rows
  MaxRows,
  NULL,       \* no string, no vector
  Oom         \* TRUE: an allocation may fail

VARIABLES
  input,    \* what is read: a record with file, string, text and sound, where
            \* text is what a sound file or string says
  entry,    \* the function called: "coReadCSVByFP" or "coGetCSVRow"
  reader,
  pc,
  buf, isQuote, \* coGetCSVField
  field,    \* what coGetCSVField returned
  row,      \* rowVector
  rows,     \* fileVector, or the rows the caller has got
  pool,     \* the strings in the pool; NULL: there is none
  live,     \* how many strings that no pool owns and row vectors exist
  failed,   \* history: an allocation has failed
  result

vars == <<input, entry, reader, pc, buf, isQuote, field, row, rows, pool, live,
          failed, result>>

-----------------------------------------------------------------------------

Quote   == 34
LF      == 10
CR      == 13
curr    == reader.curr
Newline == {LF, CR}

\* does coVectorAdd need memory?
Full(v) == Len(v) > 0 /\ Len(v) % COV_EXTEND = 0

\* what deleting a row frees
RowSize(v) == 1 + (IF pool = NULL THEN Cardinality({i \in DOMAIN v : v[i] # NULL}) ELSE 0)

Goto(next) == pc' = next

-----------------------------------------------------------------------------
(* coGetCSVField *)

BeginField ==
  /\ pc = "field"
  /\ IF curr < 0 THEN Goto("add") /\ field' = NULL /\ UNCHANGED <<reader, isQuote>>
     ELSE /\ Goto("char")
          /\ isQuote' = (curr = Quote)
          /\ reader' = IF curr = Quote THEN coReaderNext(reader) ELSE reader
          /\ UNCHANGED field
  /\ buf' = <<>>
  /\ UNCHANGED <<input, entry, row, rows, pool, live, failed, result>>

\* coNewCSVStr; the new string is in the pool or is the caller's
StringMade(s) ==
  /\ field' = s
  /\ IF pool = NULL THEN live' = live + 1 /\ UNCHANGED pool
     ELSE pool' = pool \cup {s} /\ UNCHANGED live
  /\ UNCHANGED failed

\* no memory for the object of the string, or for its node in the pool
StringFails(s) ==
  /\ Oom /\ (pool # NULL => s \notin pool)
  /\ field' = NULL /\ failed' = TRUE
  /\ UNCHANGED <<pool, live>>

\* no memory for a copy of the characters: strlen is called with NULL
StringHalts(s) ==
  /\ Oom /\ (pool # NULL => s \notin pool)
  /\ Goto("halt") /\ failed' = TRUE
  /\ UNCHANGED <<field, pool, live>>

coNewCSVStr(s, next) ==
  \/ (StringMade(s) \/ StringFails(s)) /\ Goto(next)
  \/ StringHalts(s)

EndsField(c) == c < 0 \/ c = separator \/ c \in Newline

\* char c is stored and the next one is read; the assertion on the size of buf
Store(c, r) ==
  IF Len(buf) >= CO_CSV_FIELD_STRING_MAX
  THEN Goto("halt") /\ reader' = r /\ UNCHANGED buf
  ELSE Goto("char") /\ buf' = Append(buf, c % 256) /\ reader' = coReaderNext(r)

\* The string is ended with a 0 at buf[Len(buf)].  The assertion of Store lets buf be
\* full: the 0 of such a field is written one byte behind the array, which is a
\* local variable of the caller (co_extra.c:683, 775, 784, 805).  The model goes on
\* as if nothing had been there.
EndField ==
  /\ pc \in {"char", "tail"}
  /\ EndsField(curr)
  /\ pc = "char" /\ isQuote => curr < 0
  /\ coNewCSVStr(CString(buf), "add")
  /\ UNCHANGED <<input, entry, reader, buf, isQuote, row, rows, result>>

\* (mutant: in quotes, a quote always ends the field)
QuoteEnds ==
  /\ pc = "char" /\ curr = Quote
  /\ \E next \in {coReaderNext(reader)} :
       IF isQuote
       THEN Goto("tail") /\ reader' = next /\ UNCHANGED buf
       ELSE Store(next.curr, next)
  /\ UNCHANGED <<input, entry, isQuote, field, row, rows, pool, live, failed, result>>

\* In quotes two quotes are one, and one ends the field.  Otherwise the quote is
\* dropped and the next character is stored, whatever it is.
QuoteChar ==
  /\ pc = "char" /\ curr = Quote
  /\ \E next \in {coReaderNext(reader)} :
       IF isQuote /\ next.curr # Quote
       THEN Goto("tail") /\ reader' = next /\ UNCHANGED buf
       ELSE Store(next.curr, next)
  /\ UNCHANGED <<input, entry, isQuote, field, row, rows, pool, live, failed, result>>

PlainChar ==
  /\ pc = "char" /\ curr >= 0 /\ curr # Quote
  /\ isQuote \/ ~EndsField(curr)
  /\ Store(curr, reader)
  /\ UNCHANGED <<input, entry, isQuote, field, row, rows, pool, live, failed, result>>

\* (mutant: what follows the quotes is not read)
TailStays ==
  /\ pc = "tail" /\ ~EndsField(curr)
  /\ UNCHANGED vars

\* what follows the quotes is dropped
TailChar ==
  /\ pc = "tail" /\ ~EndsField(curr)
  /\ reader' = coReaderNext(reader)
  /\ UNCHANGED <<input, entry, pc, buf, isQuote, field, row, rows, pool, live, failed,
                 result>>

-----------------------------------------------------------------------------
(* coGetCSVRowWithBufferAndPool *)

\* Without memory for the row, the end of the file is still seen; a field cannot be
\* added to NULL.
NoRow ==
  /\ Oom /\ failed' = TRUE
  /\ Goto(IF reader'.curr < 0 THEN "rowdone" ELSE "halt")
  /\ UNCHANGED <<row, live>>

BeginRow ==
  /\ pc = "row"
  /\ reader' = IF entry = "coGetCSVRow" THEN coReaderSkipWhiteSpace(reader) ELSE reader
  /\ \/ Goto("field") /\ row' = <<>> /\ live' = live + 1 /\ UNCHANGED failed
     \/ NoRow
  /\ UNCHANGED <<input, entry, buf, isQuote, field, rows, pool, result>>

\* NULL is returned, and the row is deleted
DropRow ==
  /\ row' = NULL
  /\ live' = live - RowSize(row)

\* (mutant: the string that is in no vector is not deleted)
KeepField == DropRow

DropFieldAndRow ==
  /\ row' = NULL
  /\ live' = live - RowSize(row) - (IF pool = NULL /\ field # NULL THEN 1 ELSE 0)

\* the end of the line: the other one of the two characters belongs to it
PastNewline(next) ==
  IF next.curr \in Newline \ {curr} THEN coReaderNext(next) ELSE next

NoField ==
  /\ pc = "add" /\ field = NULL
  /\ Goto("rowdone")
  /\ IF row = <<>> THEN DropRow ELSE UNCHANGED <<row, live>>
  /\ UNCHANGED <<input, entry, reader, buf, isQuote, field, rows, pool, failed, result>>

AddFails ==
  /\ pc \in {"add", "addlast"} /\ (pc = "add" => field # NULL)
  /\ Oom /\ Full(row)
  /\ Goto("rowdone") /\ failed' = TRUE
  /\ DropFieldAndRow
  /\ UNCHANGED <<input, entry, reader, buf, isQuote, field, rows, pool, result>>

\* after a separator at the very end there is one more string, which is empty
AddField ==
  /\ pc = "add" /\ field # NULL /\ Len(row) < MaxFields
  /\ row' = Append(row, field)
  /\ \E next \in {coReaderNext(reader)} :
       CASE curr \in Newline -> Goto("rowdone") /\ reader' = PastNewline(next)
         [] curr = separator ->
              Goto(IF next.curr < 0 THEN "last" ELSE "field") /\ reader' = next
         [] OTHER -> Goto("field") /\ UNCHANGED reader
  /\ UNCHANGED <<input, entry, buf, isQuote, field, rows, pool, live, failed, result>>

LastField ==
  /\ pc = "last"
  /\ coNewCSVStr(<<>>, "addlast")
  /\ UNCHANGED <<input, entry, reader, buf, isQuote, row, rows, result>>

\* a NULL is added, too
AddLastField ==
  /\ pc = "addlast"
  /\ row' = Append(row, field)
  /\ Goto("rowdone")
  /\ UNCHANGED <<input, entry, reader, buf, isQuote, field, rows, pool, live, failed,
                 result>>

-----------------------------------------------------------------------------
(* coGetCSVFile, and the loop of a caller of coGetCSVRow *)

Return(r) == Goto("done") /\ result' = r /\ rows' = NULL

\* without memory for fileVector the first row is still read
BeginFile ==
  /\ pc = "file"
  /\ reader' = coReaderSkipWhiteSpace(reader)
  /\ Goto("row")
  /\ \/ rows' = <<>> /\ UNCHANGED failed
     \/ Oom /\ entry = "coReadCSVByFP" /\ rows' = NULL /\ failed' = TRUE
  /\ UNCHANGED <<input, entry, buf, isQuote, field, row, pool, live, result>>

FileDone ==
  /\ pc = "rowdone" /\ row = NULL
  /\ Return(rows)
  /\ UNCHANGED <<input, entry, reader, buf, isQuote, field, row, pool, live, failed>>

AddRow ==
  /\ pc = "rowdone" /\ row # NULL /\ (rows # NULL => Len(rows) < MaxRows)
  /\ IF rows = NULL THEN Goto("halt") /\ UNCHANGED <<row, rows>>
     ELSE Goto("row") /\ rows' = Append(rows, row) /\ row' = NULL
  /\ UNCHANGED <<input, entry, reader, buf, isQuote, field, pool, live, failed, result>>

RECURSIVE SizeOf(_)
SizeOf(v) == IF v = <<>> THEN 0 ELSE RowSize(Head(v)) + SizeOf(Tail(v))

AddRowFails ==
  /\ pc = "rowdone" /\ row # NULL
  /\ Oom /\ entry = "coReadCSVByFP" /\ rows # NULL /\ Full(rows)
  /\ live' = live - RowSize(row) - SizeOf(rows)
  /\ row' = NULL /\ failed' = TRUE
  /\ Return(NULL)
  /\ UNCHANGED <<input, entry, reader, buf, isQuote, field, pool>>

InitWith(inputs) ==
  /\ input \in inputs
  /\ entry \in {"coReadCSVByFP", "coGetCSVRow"}
  /\ reader = IF input.string THEN coReaderInitByString(input.file)
              ELSE coReaderInitByFP(input.file)
  /\ pc = IF reader.bom \in Supported THEN "file" ELSE "done"
  /\ pool \in {NULL} \cup (IF entry = "coReadCSVByFP" THEN {{}} ELSE {})
  /\ buf = <<>> /\ isQuote = FALSE
  /\ field = NULL /\ row = NULL /\ rows = NULL
  /\ live = 0 /\ failed = FALSE
  /\ result = NULL

Next ==
  \/ BeginField \/ EndField \/ QuoteChar \/ PlainChar \/ TailChar
  \/ BeginRow \/ NoField \/ AddFails \/ AddField \/ LastField \/ AddLastField
  \/ BeginFile \/ FileDone \/ AddRow \/ AddRowFails

-----------------------------------------------------------------------------
(* Properties *)

RECURSIVE Drain(_)
Drain(r) == IF r.curr < 0 THEN <<>> ELSE <<r.curr>> \o Drain(coReaderNext(r))

\* a text without the white space it starts with
RECURSIVE Trimmed(_)
Trimmed(text) ==
  IF text # <<>> /\ Head(text) <= 32 THEN Trimmed(Tail(text)) ELSE text

\* The reader delivers the text but for the white space at its start, in each
\* encoding and over all blocks of compressed data; and at every point of the
\* parse, what it is still going to deliver is the rest of the text, even where
\* the parser reads on at the end of the file.
ReaderDelivers ==
  input.sound /\ reader.bom \in Supported =>
    /\ pc = "file" => Drain(reader) = Trimmed(input.text)
    /\ IsSuffix(Drain(reader), input.text)

\* Whatever fails, the strings and rows that exist are those in the vectors: none
\* is lost and none is freed twice.
AllocatedIsOwned ==
  pc \in {"row", "field", "done"} =>
    live = (IF rows # NULL THEN SizeOf(rows) ELSE 0)
           + (IF row # NULL THEN RowSize(row) ELSE 0)
           + (IF result # NULL THEN SizeOf(result) ELSE 0)

\* there are as many fields or rows as the bounds allow, and there is one more
BoundReached ==
  \/ pc = "add" /\ field # NULL /\ Len(row) >= MaxFields
  \/ pc = "rowdone" /\ row # NULL /\ rows # NULL /\ Len(rows) >= MaxRows
=============================================================================
