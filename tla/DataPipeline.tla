---------------------------- MODULE DataPipeline ----------------------------
(***************************************************************************)
(* Ticks to candles to coarser candles: a TickAggregator of a fine         *)
(* timeframe whose candles a caller hands, as resample_all does, to a      *)
(* Resampler of a coarse one, up to the flush of both at the end of the    *)
(* stream.  The two components are the modules TickAggregator and          *)
(* Resampler; queue is the Vec<Candle> the caller is iterating over.       *)
(***************************************************************************)
EXTENDS Integers, Sequences

CONSTANTS
    Fine, Coarse,            \* the two timeframes
    MaxGap, TsMin, TsMax, Infinity, NoBar,
    Prices, Sizes, TickTimes, MaxTicks

\* Resampler: "The output timeframe's bucket must be a strict multiple of the
\* input timeframe's bucket, but this is not enforced".
ASSUME TimeframeAssumption ==
    /\ TsMax \in Nat \ {0}
    /\ TsMin = -TsMax - 1
    /\ Fine \in 1 .. TsMax
    /\ Coarse \in Fine + 1 .. TsMax
    /\ Coarse % Fine = 0

\* The cap counts buckets, and a size is finite.
ASSUME StageAssumption ==
    /\ MaxGap \in Nat
    /\ Infinity \in Nat \ {0}
    /\ Prices \subseteq Int
    /\ Sizes \subseteq 0 .. Infinity - 1
    /\ TickTimes \subseteq TsMin .. TsMax
    /\ MaxTicks \in Nat

VARIABLES
    fOpen, fOut, fResult, fTicks, fSeries,     \* the aggregator
    rOpen, rOut, rResult, rInputs, rSeries,    \* the resampler
    queue,     \* candles the caller has yet to hand to the resampler
    phase,     \* "feeding" ticks, "ending", "done" or "failed" by an error
    output,    \* the Vec that resample_all returns
    filler,    \* the stages built with gap filling, of "fine" and "coarse"; none by default
    fed        \* history: the ticks the aggregator accepted

fVars == <<fOpen, fOut, fResult, fTicks, fSeries>>
rVars == <<rOpen, rOut, rResult, rInputs, rSeries>>
pipeVars == <<fVars, rVars, queue, phase, output, filler, fed>>

\* Either stage without gap filling, and with it.
F == INSTANCE TickAggregator WITH
        Bucket <- Fine, FillGaps <- FALSE, open <- fOpen, out <- fOut,
        result <- fResult, ticks <- fTicks, series <- fSeries

FFilling == INSTANCE TickAggregator WITH
        Bucket <- Fine, FillGaps <- TRUE, open <- fOpen, out <- fOut,
        result <- fResult, ticks <- fTicks, series <- fSeries

R == INSTANCE Resampler WITH
        Bucket <- Coarse, FillGaps <- FALSE, open <- rOpen, out <- rOut,
        result <- rResult, inputs <- rInputs, series <- rSeries,
        Input <- {}, MaxInputs <- TsMax - TsMin

RFilling == INSTANCE Resampler WITH
        Bucket <- Coarse, FillGaps <- TRUE, open <- rOpen, out <- rOut,
        result <- rResult, inputs <- rInputs, series <- rSeries,
        Input <- {}, MaxInputs <- TsMax - TsMin

FinePush(t) == IF "fine" \in filler THEN FFilling!Push(t) ELSE F!Push(t)
CoarsePush(c) == IF "coarse" \in filler THEN RFilling!Push(c) ELSE R!Push(c)

\* What rolling up the ticks directly amounts to: one stage of the coarse timeframe,
\* that leaves its gaps or fills them.
Direct == INSTANCE CandleBatch WITH Bucket <- Coarse, FillGaps <- FALSE
DirectFilling == INSTANCE CandleBatch WITH Bucket <- Coarse, FillGaps <- TRUE

\* The lack of a bar is none.
ASSUME NoBarAssumption == NoBar \notin F!Bar

Init ==
    /\ F!Init
    /\ R!Init
    /\ queue = <<>>
    /\ phase = "feeding"
    /\ output = <<>>
    /\ filler \in SUBSET {"fine", "coarse"}
    /\ fed = <<>>

\* A tick arrives; a refused one is skipped by the caller.
Feed ==
    /\ phase = "feeding"
    /\ queue = <<>>
    /\ \E t \in F!Ticks :
           /\ FinePush(t)
           /\ fed' = IF fResult' = "ok" THEN Append(fed, t) ELSE fed
    /\ queue' = fOut'
    /\ UNCHANGED <<rVars, phase, output, filler>>

\* The stream of ticks ends.
EndOfTicks ==
    /\ phase = "feeding"
    /\ queue = <<>>
    /\ F!Flush
    /\ queue' = fOut'
    /\ phase' = IF fResult' = "ok" THEN "ending" ELSE "failed"
    /\ UNCHANGED <<rVars, output, fed, filler>>

\* Mutant: only the first candle of an emission is handed on.
ForwardFirst ==
    /\ phase \in {"feeding", "ending"}
    /\ queue # <<>>
    /\ CoarsePush(Head(queue))
    /\ output' = output \o rOut'
    /\ queue' = <<>>
    /\ phase' = IF rResult' = "ok" THEN phase ELSE "failed"
    /\ UNCHANGED <<fVars, fed, filler>>

\* Mutant: the candles of an emission are handed on newest first.
ForwardNewest ==
    /\ phase \in {"feeding", "ending"}
    /\ queue # <<>>
    /\ CoarsePush(queue[Len(queue)])
    /\ output' = output \o rOut'
    /\ queue' = SubSeq(queue, 1, Len(queue) - 1)
    /\ phase' = IF rResult' = "ok" THEN phase ELSE "failed"
    /\ UNCHANGED <<fVars, fed, filler>>

\* The body of resample_all's loop: an error ends it.
Forward ==
    /\ phase \in {"feeding", "ending"}
    /\ queue # <<>>
    /\ CoarsePush(Head(queue))
    /\ output' = output \o rOut'
    /\ queue' = Tail(queue)
    /\ phase' = IF rResult' = "ok" THEN phase ELSE "failed"
    /\ UNCHANGED <<fVars, fed, filler>>

\* Mutant: the last coarse bar is not flushed.
ForgetLastBar ==
    /\ phase = "ending"
    /\ queue = <<>>
    /\ phase' = "done"
    /\ UNCHANGED <<fVars, rVars, queue, output, fed, filler>>

\* The end of resample_all.
EndOfCandles ==
    /\ phase = "ending"
    /\ queue = <<>>
    /\ R!Flush
    /\ output' = output \o rOut'
    /\ phase' = IF rResult' = "ok" THEN "done" ELSE "failed"
    /\ UNCHANGED <<fVars, queue, fed, filler>>

Next == Feed \/ EndOfTicks \/ Forward \/ EndOfCandles

Spec == Init /\ [][Next]_pipeVars

-----------------------------------------------------------------------------
(* Properties. *)

DirectCandles ==
    IF fed = <<>> THEN <<>>
    ELSE IF filler = {} THEN Direct!Batch(fed) ELSE DirectFilling!Batch(fed)

\* Going through a finer timeframe changes nothing as long as the fine stage does not
\* fill gaps: the coarse candles are those of the ticks themselves, with gaps if the
\* coarse stage leaves them as it does by default, without if it fills them.  If the
\* fine stage fills gaps, there are none in the end, whether the coarse stage fills
\* them too or not, and the placeholders are absorbed like trades: the open, high and low
\* of a coarse candle may be those of the bar before it, but its time, close and
\* volume are not touched.
Commutes ==
    phase = "done" =>
        /\ "fine" \notin filler => output = DirectCandles
        /\ Len(output) = Len(DirectCandles)
        /\ \A i \in DOMAIN output :
               /\ output[i].ts = DirectCandles[i].ts
               /\ output[i].close = DirectCandles[i].close
               /\ output[i].volume = DirectCandles[i].volume

\* The aggregator's candles are always in an order the resampler accepts.
NeverRefusedAsOlder == rResult # "older"

=============================================================================
