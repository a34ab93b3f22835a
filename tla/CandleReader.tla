---------------------------- MODULE CandleReader ----------------------------
(***************************************************************************)
(* CandleReader of crates/wickra-data/src/csv.rs, as from_reader and open  *)
(* build it: a csv::Reader over a BomStripReader, with the header          *)
(* validated before there is a CandleReader at all.  Rows are taken one by *)
(* one from the iterator candles returns, or together by read_all, which   *)
(* collects them and stops at the first error, dropping what it has.       *)
(*                                                                         *)
(* csv::Reader is external.  It reads its source when its buffer is empty, *)
(* goes on behind a row that does not decode, and after an error of the    *)
(* source it behaves as if the file had ended.                             *)
(***************************************************************************)
EXTENDS BomStripReader

VARIABLES
    phase,      \* "header", "ready", or "refused" for a constructor that failed
    parsed,     \* the lines taken out of handed: the rest is the reader's buffer
    answers,    \* history: the rows answered so far
    collecting, \* is read_all running
    start,      \* history: the rows answered before it
    result,     \* what the last read_all returned; Err before the first
    over        \* has the end of the file been reported since the last error

parserVars == <<phase, parsed, answers, collecting, start, result, over>>
csvVars == <<readerVars, parserVars>>

\* What read_all returns.
Ok(candles) == [ok |-> TRUE, candles |-> candles]
Err == [ok |-> FALSE, candles |-> <<>>]

Init ==
    /\ ReaderInit
    /\ phase = "header"
    /\ parsed = 0
    /\ answers = <<>>
    /\ collecting = FALSE
    /\ start = 0
    /\ result = Err
    /\ over = FALSE

Starved == parsed = Len(handed)
Line == handed[parsed + 1]

\* The rows answered since read_all was called.
Collected == Behind(answers, start)

\* A fill of the reader's buffer, during the constructor or for a row.
Fill ==
    /\ Starved
    /\ ~ended /\ ~failed
    /\ phase # "refused"
    /\ Reading
    /\ UNCHANGED parserVars

\* validate_headers: the constructor fails on a file without a header of the
\* required columns, and on one that is empty.
Header ==
    /\ phase = "header"
    /\ ~failed
    /\ ~Starved \/ ended
    /\ phase' = IF ~Starved /\ Line = "header" THEN "ready" ELSE "refused"
    /\ parsed' = IF Starved THEN parsed ELSE parsed + 1
    /\ UNCHANGED <<readerVars, answers, collecting, start, result, over>>

\* Mutant: read_all takes an error of the source for the end of the file.
FailTruncates ==
    /\ Starved
    /\ ~ended /\ ~failed
    /\ phase # "refused"
    /\ Failing
    /\ phase' = IF phase = "header" THEN "refused" ELSE phase
    /\ collecting' = FALSE
    /\ result' = IF collecting THEN Ok(Collected) ELSE result
    /\ UNCHANGED <<parsed, answers, start, over>>

\* An error of the source: the constructor, the iterator or read_all hands it on.
Fail ==
    /\ Starved
    /\ ~ended /\ ~failed
    /\ phase # "refused"
    /\ Failing
    /\ phase' = IF phase = "header" THEN "refused" ELSE phase
    /\ collecting' = FALSE
    /\ result' = IF collecting THEN Err ELSE result
    /\ UNCHANGED <<parsed, answers, start, over>>

-----------------------------------------------------------------------------

\* Mutant: read_all goes on behind a row that does not decode.
RowSkipped ==
    /\ phase = "ready"
    /\ ~Starved
    /\ parsed' = parsed + 1
    /\ answers' = IF Line = "good" \/ ~collecting THEN Append(answers, Line) ELSE answers
    /\ UNCHANGED <<readerVars, phase, collecting, start, result, over>>

\* A row: a candle, or an error if it does not decode or is no valid candle.
Row ==
    /\ phase = "ready"
    /\ ~Starved
    /\ parsed' = parsed + 1
    /\ answers' = Append(answers, Line)
    /\ LET stops == collecting /\ Line # "good"
       IN  /\ collecting' = (collecting /\ ~stops)
           /\ result' = IF stops THEN Err ELSE result
    /\ UNCHANGED <<readerVars, phase, start, over>>

\* There are no more rows: read_all has them all.
EndOfRows ==
    /\ phase = "ready"
    /\ Starved
    /\ ended \/ failed
    /\ over' = TRUE
    /\ collecting' = FALSE
    /\ result' = IF collecting THEN Ok(Collected) ELSE result
    /\ UNCHANGED <<readerVars, phase, parsed, answers, start>>

ReadAll ==
    /\ phase = "ready"
    /\ ~collecting
    /\ collecting' = TRUE
    /\ start' = Len(answers)
    /\ UNCHANGED <<readerVars, phase, parsed, answers, result, over>>

Next == Fill \/ Header \/ Fail \/ Row \/ EndOfRows \/ ReadAll

Spec == Init /\ [][Next]_csvVars

\* The caller goes on asking for rows, and no read takes for ever.
FairSpec == Spec /\ WF_csvVars(Fill) /\ WF_csvVars(Header) /\ WF_csvVars(Row) /\ WF_csvVars(EndOfRows)

-----------------------------------------------------------------------------
(* Properties. *)

Stripped == IF IsPrefix(Bom, file) THEN Behind(file, Len(Bom)) ELSE file
RowsOf == Behind(Stripped, 1)

\* "This adapter drops the BOM before the CSV parser ever sees it; files without a
\* BOM pass through untouched": whatever the sizes of the reads below, every row
\* is answered once and in order, and the end is not reported before it.
Source == INSTANCE CandleSource WITH rows <- RowsOf
KeepsSource == Source!Spec

\* "a file whose header does not name the required columns is rejected ... instead
\* of silently consuming its first data row", and only such a file, or one that
\* could not be read: a mark, whole or not, cannot hide or fake a header.
RefusedForItsHeader ==
    /\ phase = "refused" => Stripped = <<>> \/ Stripped[1] # "header" \/ failed
    /\ phase = "ready" => Stripped # <<>> /\ Stripped[1] = "header"

\* "Read the entire stream into a Vec": a list that read_all returns holds every
\* row not taken before, all of them candles, and neither a row that does not
\* decode nor a source that fails in the middle of the rows cuts it short.  The
\* one exception is a call made after the source has failed: it finds no rows.
Whole ==
    ~collecting /\ result.ok =>
        \/ failed /\ result.candles = <<>>
        \/ /\ result.candles = Behind(RowsOf, start)
           /\ \A n \in DOMAIN result.candles : result.candles[n] = "good"

\* Whatever the sizes of the reads below, reading comes to its end: the
\* constructor refuses the file, or every row is answered, or an error is.
ReadToTheEnd == <>(phase = "refused" \/ over \/ failed)

=============================================================================
