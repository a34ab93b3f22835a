------------------------------- MODULE Candles -------------------------------
(***************************************************************************)
(* Bars, candles, time buckets and gap filling: what the tick aggregator   *)
(* and the resampler of crates/wickra-data share.                          *)
(*                                                                         *)
(* A timestamp is an i64 of a small width, TsMin .. TsMax.  Prices are     *)
(* integers: the code only compares and copies them.  Volumes are added,   *)
(* and f64 addition may reach infinity: Infinity stands for it, and every  *)
(* finite volume is below it.                                              *)
(***************************************************************************)
EXTENDS Integers, Sequences

CONSTANTS
    Bucket,      \* Timeframe::bucket
    FillGaps,    \* TickAggregator::fill_gaps, Resampler::fill_gaps
    MaxGap,      \* MAX_GAP_FILL_CANDLES
    TsMin,       \* i64::MIN
    TsMax,       \* i64::MAX
    Infinity,    \* f64::INFINITY as a volume
    NoBar        \* no bar is open

ASSUME TimeAssumption ==
    /\ TsMax \in Nat \ {0}
    /\ TsMin = -TsMax - 1          \* two's complement
    /\ Bucket \in 1 .. TsMax       \* Timeframe::new

ASSUME CandleAssumption ==
    /\ FillGaps \in BOOLEAN
    /\ MaxGap \in Nat
    /\ Infinity \in Nat \ {0}

Timestamps == TsMin .. TsMax
Volumes == 0 .. Infinity
Candle == [ts : Timestamps, open : Int, high : Int, low : Int, close : Int,
           volume : Volumes]
Bar == [start : Timestamps, last : Timestamps, open : Int, high : Int,
        low : Int, close : Int, volume : Volumes]

ASSUME NoBarAssumption == NoBar \notin Bar

\* What Candle::new accepts.
ValidCandle(c) ==
    /\ c.low <= c.open /\ c.low <= c.close
    /\ c.open <= c.high /\ c.close <= c.high
    /\ c.volume < Infinity

Lesser(a, b) == IF a < b THEN a ELSE b
Greater(a, b) == IF a < b THEN b ELSE a

\* The start of the bucket of a timestamp; saturating at the lowest timestamp.
Floor(ts) == Greater(ts - (ts % Bucket), TsMin)

AddVolume(v, w) == Lesser(v + w, Infinity)

\* Mutant: a bar is stamped with its first tick instead of its bucket.
OpenBarAtTick(c, start) ==
    [start |-> c.ts, last |-> c.ts, open |-> c.open, high |-> c.high,
     low |-> c.low, close |-> c.close, volume |-> c.volume]

\* Bars are opened with, and absorb, candles; a tick counts as the candle of one
\* price at its own timestamp.
OpenBar(c, start) ==
    [start |-> start, last |-> c.ts, open |-> c.open, high |-> c.high,
     low |-> c.low, close |-> c.close, volume |-> c.volume]

\* Mutant: the low is only looked at when the high did not move (else if).
AbsorbElseIf(bar, c) ==
    [bar EXCEPT !.high = Greater(bar.high, c.high),
                !.low = IF c.high > bar.high THEN bar.low
                        ELSE Lesser(bar.low, c.low),
                !.close = c.close,
                !.volume = AddVolume(bar.volume, c.volume),
                !.last = c.ts]

Absorb(bar, c) ==
    [bar EXCEPT !.high = Greater(bar.high, c.high),
                !.low = Lesser(bar.low, c.low),
                !.close = c.close,
                !.volume = AddVolume(bar.volume, c.volume),
                !.last = c.ts]

\* Mutant: the volume is not looked at (Candle::new_unchecked).
Unvalidated(bar) == TRUE

\* into_candle: Candle::new can only object to an infinite volume.
Finite(bar) == bar.volume < Infinity
Closed(bar) ==
    [ts |-> bar.start, open |-> bar.open, high |-> bar.high, low |-> bar.low,
     close |-> bar.close, volume |-> bar.volume]

-----------------------------------------------------------------------------
(* fill_flat_candles(prev, next_bucket, step, out) *)

Flat(price, ts) ==
    [ts |-> ts, open |-> price, high |-> price, low |-> price,
     close |-> price, volume |-> 0]

\* Mutant: the last, partial step of a span is not counted, and neither is the
\* last whole one.
GapCountShort(prev, next) ==
    Greater((next - (prev + Bucket)) \div Bucket - 1, 0)

\* Placeholders from the bucket after prev up to, not including, next; the span
\* saturates at the highest timestamp.
GapCount(prev, next) ==
    LET span == Lesser(next - (prev + Bucket), TsMax)
    IN  IF span <= 0 THEN 0
        ELSE span \div Bucket + (IF span % Bucket = 0 THEN 0 ELSE 1)

FirstFillerFits(prev) == prev + Bucket <= TsMax

Fillable(prev, next) == FirstFillerFits(prev) /\ GapCount(prev, next) <= MaxGap

Fillers(price, prev, next) ==
    [i \in 1 .. GapCount(prev, next) |->
        Flat(price, Lesser(prev + i * Bucket, TsMax))]

\* What closing a bar for a candle of the bucket next emits, if it succeeds.
Rolls(bar, next) == Finite(bar) /\ (FillGaps => Fillable(bar.start, next))
RollOut(bar, next) ==
    <<Closed(bar)>>
        \o (IF FillGaps THEN Fillers(bar.close, bar.start, next) ELSE <<>>)

=============================================================================
