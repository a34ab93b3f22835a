--------------------------- MODULE TickAggregator ---------------------------
(***************************************************************************)
(* TickAggregator of crates/wickra-data/src/aggregator.rs: trade ticks are *)
(* rolled up into candles of one timeframe, with optional flat candles for *)
(* the buckets that saw no trade.                                          *)
(***************************************************************************)
EXTENDS CandleBatch

CONSTANTS
    Prices,      \* the prices of the ticks that may arrive
    Sizes,       \* their volumes
    TickTimes,   \* their timestamps
    MaxTicks     \* bound: ticks accepted between two flushes

ASSUME TickAssumption ==
    /\ Prices \subseteq Int
    /\ Sizes \subseteq 0 .. Infinity - 1     \* Tick::new wants a finite volume
    /\ TickTimes \subseteq Timestamps
    /\ MaxTicks \in Nat

VARIABLES
    open,     \* the bar being built, or NoBar
    out,      \* the candles the last call returned
    result,   \* and how it ended
    \* history, read by the properties only:
    ticks,    \* the ticks accepted since the last flush, in order
    series    \* the candles push returned since the last flush, in order

aggVars == <<open, out, result, ticks, series>>

Results == {"ok", "older", "stale", "infinite", "gap"}

Tick(p, v, ts) ==
    [ts |-> ts, open |-> p, high |-> p, low |-> p, close |-> p, volume |-> v]
Ticks == {Tick(p, v, ts) : p \in Prices, v \in Sizes, ts \in TickTimes}

Init ==
    /\ open = NoBar
    /\ out = <<>>
    /\ result = "ok"
    /\ ticks = <<>>
    /\ series = <<>>

\* A tick that is refused changes nothing.
Refuse(why) ==
    /\ out' = <<>>
    /\ result' = why
    /\ UNCHANGED <<open, ticks, series>>

Accept(t, bar, closed) ==
    /\ Len(ticks) < MaxTicks
    /\ open' = bar
    /\ out' = closed
    /\ result' = "ok"
    /\ ticks' = Append(ticks, t)
    /\ series' = series \o closed

\* The five ways through push.
First(t) ==
    /\ open = NoBar
    /\ Accept(t, OpenBar(t, Floor(t.ts)), <<>>)

RefuseOlder(t) ==
    /\ open # NoBar
    /\ Floor(t.ts) < open.start
    /\ Refuse("older")

\* Mutant: ticks are only checked against the bucket, not against each other.
SameBucketUnchecked(t) ==
    /\ open # NoBar
    /\ Floor(t.ts) = open.start
    /\ Accept(t, Absorb(open, t), <<>>)

SameBucket(t) ==
    /\ open # NoBar
    /\ Floor(t.ts) = open.start
    /\ IF t.ts < open.last
       THEN Refuse("stale")
       ELSE Accept(t, Absorb(open, t), <<>>)

\* Mutant: the new bar is opened before the gap is filled, so a gap that cannot
\* be filled loses the bar that was closed.
OpenBeforeFill(t) ==
    /\ open # NoBar
    /\ Floor(t.ts) > open.start
    /\ Finite(open)
    /\ Len(ticks) < MaxTicks
    /\ open' = OpenBar(t, Floor(t.ts))
    /\ IF Rolls(open, Floor(t.ts))
       THEN /\ out' = RollOut(open, Floor(t.ts))
            /\ result' = "ok"
       ELSE /\ out' = <<>>
            /\ result' = "gap"
    /\ ticks' = Append(ticks, t)
    /\ series' = series \o out'

NextBucket(t) ==
    /\ open # NoBar
    /\ Floor(t.ts) > open.start
    /\ IF Rolls(open, Floor(t.ts))
       THEN Accept(t, OpenBar(t, Floor(t.ts)), RollOut(open, Floor(t.ts)))
       ELSE Refuse(IF Finite(open) THEN "gap" ELSE "infinite")

Push(t) == First(t) \/ RefuseOlder(t) \/ SameBucket(t) \/ NextBucket(t)

\* flush takes the bar first: if its volume is infinite it is gone all the same.
Flush ==
    /\ IF open # NoBar /\ Finite(open)
       THEN out' = <<Closed(open)>> /\ result' = "ok"
       ELSE out' = <<>> /\ result' = IF open = NoBar THEN "ok" ELSE "infinite"
    /\ open' = NoBar
    /\ ticks' = <<>>
    /\ series' = <<>>

Next == (\E t \in Ticks : Push(t)) \/ Flush

Spec == Init /\ [][Next]_aggVars

-----------------------------------------------------------------------------
(* Properties. *)

TypeOK ==
    /\ open \in Bar \cup {NoBar}
    /\ out \in Seq(Candle)
    /\ result \in Results
    /\ ticks \in Seq(Ticks)
    /\ series \in Seq(Candle)

\* The candles push has returned, and then the open one, are those a batch over
\* the accepted ticks defines: nothing is lost, repeated, put into the wrong
\* bucket or overwritten by a stale price, whatever was refused in between and
\* however gaps were filled.
StreamingEqualsBatch ==
    open # NoBar => Append(series, Closed(open)) = Batch(ticks)

\* Candles come out in strictly increasing time, all before the open bar; with
\* gap filling exactly one bucket apart ("an unbroken, evenly spaced series").
Spaced(c, d) == IF FillGaps THEN d.ts = c.ts + Bucket ELSE c.ts < d.ts
WithOpen == Append(series, Closed(open))
EvenlySpaced ==
    open # NoBar =>
        \A i \in 1 .. Len(series) : Spaced(WithOpen[i], WithOpen[i + 1])

\* Every candle that leaves the aggregator is one Candle::new accepts.
EmitsValidCandles == \A i \in DOMAIN out : ValidCandle(out[i])

\* A refused tick leaves the open bar as it was, so the caller can go on.
RefusalKeepsBar ==
    [][result' \in {"older", "stale", "gap"} => open' = open]_aggVars

\* push's comment on gap filling: the only refusal besides the cap is a
\* timestamp overflow, which a rolled bar never meets.
NoFillOverflow ==
    open # NoBar =>
        \A t \in Ticks :
            Floor(t.ts) > open.start => FirstFillerFits(open.start)

=============================================================================
