------------------------------ MODULE Resampler ------------------------------
(***************************************************************************)
(* Resampler of crates/wickra-data/src/resample.rs: candles of a finer     *)
(* timeframe are rolled up into candles of a coarser one.                  *)
(*                                                                         *)
(* It differs from TickAggregator in that its RolledBar remembers no       *)
(* timestamp: the last field of a bar is history here, never read by an    *)
(* action.                                                                 *)
(***************************************************************************)
EXTENDS CandleBatch

CONSTANTS
    Input,          \* the candles that may arrive
    MaxInputs       \* bound: candles accepted between two flushes

ASSUME InputAssumption ==
    /\ Input \subseteq Candle
    /\ \A c \in Input : ValidCandle(c)
    /\ MaxInputs \in Nat

VARIABLES
    open,     \* the bar being rolled, or NoBar
    out,      \* the candles the last call returned
    result,   \* and how it ended
    \* history, read by the properties only:
    inputs,   \* the candles accepted since the last flush, in order
    series    \* the candles push returned since the last flush, in order

resVars == <<open, out, result, inputs, series>>

Results == {"ok", "older", "infinite", "gap"}

Init ==
    /\ open = NoBar
    /\ out = <<>>
    /\ result = "ok"
    /\ inputs = <<>>
    /\ series = <<>>

Refuse(why) ==
    /\ out' = <<>>
    /\ result' = why
    /\ UNCHANGED <<open, inputs, series>>

Accept(c, bar, closed) ==
    /\ Len(inputs) < MaxInputs
    /\ open' = bar
    /\ out' = closed
    /\ result' = "ok"
    /\ inputs' = Append(inputs, c)
    /\ series' = series \o closed

\* The four arms of push.
First(c) ==
    /\ open = NoBar
    /\ Accept(c, OpenBar(c, Floor(c.ts)), <<>>)

\* No look at the order of the candles of one bucket.
SameBucket(c) ==
    /\ open # NoBar
    /\ Floor(c.ts) = open.start
    /\ Accept(c, Absorb(open, c), <<>>)

NextBucket(c) ==
    /\ open # NoBar
    /\ Floor(c.ts) > open.start
    /\ IF Rolls(open, Floor(c.ts))
       THEN Accept(c, OpenBar(c, Floor(c.ts)), RollOut(open, Floor(c.ts)))
       ELSE Refuse(IF Finite(open) THEN "gap" ELSE "infinite")

\* Mutant: a candle of an older bucket starts a bar of its own.
RollBackwards(c) ==
    /\ open # NoBar
    /\ Floor(c.ts) < open.start
    /\ Finite(open)
    /\ Accept(c, OpenBar(c, Floor(c.ts)), <<Closed(open)>>)

RefuseOlder(c) ==
    /\ open # NoBar
    /\ Floor(c.ts) < open.start
    /\ Refuse("older")

Push(c) == First(c) \/ SameBucket(c) \/ NextBucket(c) \/ RefuseOlder(c)

\* flush takes the bar first: if its volume is infinite it is gone all the same.
Flush ==
    /\ IF open # NoBar /\ Finite(open)
       THEN out' = <<Closed(open)>> /\ result' = "ok"
       ELSE out' = <<>> /\ result' = IF open = NoBar THEN "ok" ELSE "infinite"
    /\ open' = NoBar
    /\ inputs' = <<>>
    /\ series' = <<>>

Next == (\E c \in Input : Push(c)) \/ Flush

Spec == Init /\ [][Next]_resVars

-----------------------------------------------------------------------------
(* Properties. *)

TypeOK ==
    /\ open \in Bar \cup {NoBar}
    /\ out \in Seq(Candle)
    /\ result \in Results
    /\ inputs \in Seq(Input)
    /\ series \in Seq(Candle)

\* As long as the inputs come in the order of time, the candles push returned, and
\* then the open one, are those a batch over the accepted inputs defines.
InTimeOrder == \A i, j \in DOMAIN inputs : i < j => inputs[i].ts <= inputs[j].ts
StreamingEqualsBatch ==
    open # NoBar /\ InTimeOrder => Append(series, Closed(open)) = Batch(inputs)

\* Whatever the order of the inputs, the candles that leave are valid ones ...
EmitsValidCandles == \A i \in DOMAIN out : ValidCandle(out[i])

\* ... in strictly increasing time, and all of them before the open bar.
NeverBackwards ==
    LET all == IF open = NoBar THEN series ELSE Append(series, Closed(open))
    IN  \A i \in 1 .. Len(all) - 1 : all[i].ts < all[i + 1].ts

\* push's comment: "out-of-order candles are not supported, matching
\* TickAggregator::push" - which refuses an older tick of the open bucket too.
RefusesOutOfOrder ==
    [][open # NoBar /\ open' # NoBar => open'.last >= open.last]_resVars

=============================================================================
