------------------------------ MODULE MCReaders ------------------------------
(* The parsers of characters: CSV (MCCsv), and JSON and A2L (MCDocuments); and   *)
(* the threads of a2l_info that read several files at a time (CoSwList).         *)
EXTENDS MCDocuments, MCSwList

CONSTANTS separator, CsvExtend, CO_CSV_FIELD_STRING_MAX, MaxFields, MaxRows

VARIABLES csvInput, entry, csvReader, csvPc, buf, isQuote, field, row, rows, pool, csvLive,
          csvFailed, csvResult,
          part, \* which of the three the behaviour is about
          odd   \* parity of the steps, so that one that does nothing is a step

Csv == INSTANCE MCCsv WITH
         COV_EXTEND <- CsvExtend, input <- csvInput, reader <- csvReader, pc <- csvPc,
         live <- csvLive, failed <- csvFailed, result <- csvResult

csvVars == <<csvInput, entry, csvReader, csvPc, buf, isQuote, field, row, rows, pool, csvLive,
             csvFailed, csvResult>>
allVars == <<vars, csvVars, swVars, part, odd>>

\* the other parts wait with one of their inputs
ReadersInit ==
  /\ part \in {"rows", "values", "threads"} /\ odd = FALSE
  /\ IF part = "rows" THEN Csv!Init
     ELSE Csv!InitWith({Csv!Nothing}) /\ entry = "coReadCSVByFP" /\ pool = NULL
  /\ IF part = "values" THEN Init ELSE InitWith({Text("json", <<>>, TRUE)}, Start)
  /\ SwInit /\ (part = "threads" \/ argv = <<>>)

Read ==
  /\ UNCHANGED part
  /\ \/ part = "rows" /\ Csv!Next /\ UNCHANGED <<vars, swVars>> /\ odd' = ~odd
     \/ part = "values" /\ Next /\ UNCHANGED <<csvVars, swVars>> /\ odd' = ~odd
     \/ part = "threads" /\ SwNext /\ UNCHANGED <<vars, csvVars, odd>>

Ended ==
  CASE part = "rows"    -> csvPc \in {"done", "halt"}
    [] part = "values"  -> pc \in {"done", "halt"}
    [] part = "threads" -> MainEnded

ReadsOn == part = "rows" /\ Csv!ReadsOn

\* main waits for a thread that never ends
Blocked == part = "threads" /\ ~ENABLED SwNext

ReadersNext == Read \/ ((Ended \/ ReadsOn \/ Blocked) /\ UNCHANGED allVars)

\* A function that was called goes on, and of the threads that can go on one does:
\* weak fairness of Read.  That a parser can, unless it has ended or the row has
\* reached its bound, is what the check for deadlocks shows.
ReadersSpec ==
  /\ ReadersInit /\ [][ReadersNext]_allVars
  /\ []<>(Ended \/ ReadsOn \/ Blocked) \/ []<><<Read>>_allVars

\* What was written is read as it was (MCDocuments, MCCsv).
WrittenIsRead == JsonRead /\ A2lRead /\ Csv!RowsRead

\* What is allocated has an owner, or was left by a known error path (MCDocuments, CoCsv).
AllocatedIsOwned == Accounted /\ Csv!AllocatedIsOwned

\* The reader delivers the text (CoCsv).
ReaderDelivers == Csv!ReaderDelivers

\* Every input is read to its end, or an assertion stops the program, whatever fails
\* and whatever the parser reads on at the end; all but the inputs for which the CSV
\* reader is known not to end (ReadsOn of MCCsv, a defect of co.c:1500 with
\* co_extra.c:627), which it does not leave for any other reason.
ReadEnds == part # "threads" => <>(Ended \/ ReadsOn)

\* getSWList returns: no thread is waited for that was not started.
ListReturned == part = "threads" => <>MainEnded
=============================================================================
