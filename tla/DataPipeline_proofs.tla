------------------------ MODULE DataPipeline_proofs ------------------------
(***************************************************************************)
(* Of the pipeline, for every pair of timeframes, cap, integer width and   *)
(* set of ticks: the resampler never refuses a candle as older, and the    *)
(* candles it ends up with are those of the ticks themselves.              *)
(*                                                                         *)
(* The second holds step by step: what the coarse stage would show if the  *)
(* candle under way were handed to it is always what the ticks so far      *)
(* amount to.                                                              *)
(***************************************************************************)
EXTENDS DataPipeline, SequenceTheorems, TLAPS

\* The lemmas on buckets and bars, for the timeframe of either stage, and for the
\* coarse one without gap filling.
Crs == INSTANCE Candles_proofs WITH Bucket <- Coarse, FillGaps <- TRUE
Non == INSTANCE Candles_proofs WITH Bucket <- Coarse, FillGaps <- FALSE
Fin == INSTANCE Candles_proofs WITH Bucket <- Fine, FillGaps <- TRUE

\* The instances and the two stages speak of the same bars and candles.
LEMMA SameBars ==
    /\ Fin!Bar = Crs!Bar /\ F!Bar = Crs!Bar /\ Non!Bar = Crs!Bar
    /\ Fin!Candle = Crs!Candle /\ Non!Candle = Crs!Candle
    /\ Fin!Timestamps = Crs!Timestamps
    /\ Fin!Volumes = Crs!Volumes
  BY DEF F!Bar, F!Timestamps, F!Volumes,
         Fin!Bar, Fin!Timestamps, Fin!Volumes, Fin!Candle,
         Non!Bar, Non!Timestamps, Non!Volumes, Non!Candle,
         Crs!Bar, Crs!Timestamps, Crs!Volumes, Crs!Candle

\* What the lemmas assume of their constants holds of every instance.
LEMMA Constants ==
    /\ TsMax \in Nat \ {0} /\ TsMin = -TsMax - 1
    /\ Coarse \in 1 .. TsMax /\ Fine \in 1 .. TsMax
    /\ TRUE \in BOOLEAN /\ FALSE \in BOOLEAN
    /\ MaxGap \in Nat /\ Infinity \in Nat \ {0}
    /\ NoBar \notin Crs!Bar /\ NoBar \notin Fin!Bar /\ NoBar \notin Non!Bar
<1>1. Coarse \in 1 .. TsMax
  BY TimeframeAssumption
<1> QED BY <1>1, TimeframeAssumption, StageAssumption, NoBarAssumption, SameBars

\* A tick is a candle without a range.
LEMMA TickIsCandle ==
    ASSUME NEW t \in F!Ticks
    PROVE  /\ t \in Crs!Candle /\ t \in Fin!Candle
           /\ t.ts \in Crs!Timestamps /\ t.ts \in TickTimes
<1>1. PICK p \in Prices, v \in Sizes, ts \in TickTimes : t = F!Tick(p, v, ts)
  BY DEF F!Ticks
<1>2. p \in Int /\ v \in Crs!Volumes /\ ts \in Crs!Timestamps
  BY StageAssumption DEF Crs!Volumes, Crs!Timestamps
<1> QED BY <1>1, <1>2, SameBars DEF F!Tick, Crs!Candle

-----------------------------------------------------------------------------
(* The steps of the pipeline, in the words of the lemmas. *)

FineEmission(bar, next) ==
    <<Fin!Closed(bar)>>
        \o (IF "fine" \in filler THEN Fin!Fillers(bar.close, bar.start, next) ELSE <<>>)

Idles == fed' = fed /\ fOpen' = fOpen /\ queue' = <<>>
Opens(t) ==
    /\ fOpen = NoBar
    /\ fOpen' = Fin!OpenBar(t, Fin!Floor(t.ts))
    /\ queue' = <<>>
Grows(t) ==
    /\ fOpen # NoBar
    /\ Fin!Floor(t.ts) = fOpen.start
    /\ ~(t.ts < fOpen.last)
    /\ fOpen' = Fin!Absorb(fOpen, t)
    /\ queue' = <<>>
RollsOver(t) ==
    /\ fOpen # NoBar
    /\ Fin!Floor(t.ts) > fOpen.start
    /\ "fine" \in filler => Fin!Fillable(fOpen.start, Fin!Floor(t.ts))
    /\ fOpen' = Fin!OpenBar(t, Fin!Floor(t.ts))
    /\ queue' = FineEmission(fOpen, Fin!Floor(t.ts))

\* The aggregator takes a tick as the lemmas on buckets and bars take its candle.
LEMMA FineWords ==
    /\ \A ts : F!Floor(ts) = Fin!Floor(ts) /\ FFilling!Floor(ts) = Fin!Floor(ts)
    /\ \A c, s : /\ F!OpenBar(c, s) = Fin!OpenBar(c, s)
                 /\ FFilling!OpenBar(c, s) = Fin!OpenBar(c, s)
    /\ \A b, c : /\ F!Absorb(b, c) = Fin!Absorb(b, c)
                 /\ FFilling!Absorb(b, c) = Fin!Absorb(b, c)
    /\ \A b : F!Closed(b) = Fin!Closed(b) /\ FFilling!Closed(b) = Fin!Closed(b)
    /\ \A b, n : F!RollOut(b, n) = <<Fin!Closed(b)>> \o <<>>
    /\ \A b, n : FFilling!RollOut(b, n) =
                     <<Fin!Closed(b)>> \o Fin!Fillers(b.close, b.start, n)
    /\ \A b, n : FFilling!Rolls(b, n) => Fin!Fillable(b.start, n)
  BY DEF F!Floor, F!Greater, F!OpenBar, F!Absorb, F!Lesser, F!AddVolume, F!Closed,
         F!RollOut, FFilling!Floor, FFilling!Greater, FFilling!OpenBar,
         FFilling!Absorb, FFilling!Lesser, FFilling!AddVolume, FFilling!Closed,
         FFilling!RollOut, FFilling!Fillers, FFilling!GapCount, FFilling!Flat,
         FFilling!Rolls, FFilling!Fillable, FFilling!FirstFillerFits,
         Fin!Floor, Fin!Greater, Fin!OpenBar, Fin!Absorb, Fin!Lesser, Fin!AddVolume,
         Fin!Closed, Fin!Fillers, Fin!GapCount, Fin!Flat, Fin!Fillable,
         Fin!FirstFillerFits

\* What feeding a tick does to the bar under way and to the queue.
LEMMA FeedCases ==
    ASSUME Feed
    PROVE  /\ phase = "feeding" /\ queue = <<>>
           /\ rOpen' = rOpen /\ rResult' = rResult /\ phase' = phase
           /\ output' = output /\ filler' = filler
           /\ \/ Idles
              \/ \E t \in F!Ticks : /\ fed' = Append(fed, t)
                                    /\ Opens(t) \/ Grows(t) \/ RollsOver(t)
<1>1. PICK t \in F!Ticks :
          FinePush(t) /\ fed' = IF fResult' = "ok" THEN Append(fed, t) ELSE fed
  BY DEF Feed
<1>2. /\ phase = "feeding" /\ queue = <<>>
      /\ rOpen' = rOpen /\ rResult' = rResult /\ phase' = phase
      /\ output' = output /\ filler' = filler /\ queue' = fOut'
  BY DEF Feed, rVars
<1>3. CASE "fine" \in filler
  <2>1. FFilling!Push(t)
    BY <1>1, <1>3 DEF FinePush
  <2>2. CASE FFilling!First(t)
    BY <1>1, <1>2, <2>2, FineWords DEF FFilling!First, FFilling!Accept, Opens
  <2>3. CASE FFilling!RefuseOlder(t)
    BY <1>1, <1>2, <2>3 DEF FFilling!RefuseOlder, FFilling!Refuse, Idles
  <2>4. CASE FFilling!SameBucket(t)
    BY <1>1, <1>2, <2>4, FineWords
    DEF FFilling!SameBucket, FFilling!Refuse, FFilling!Accept, Idles, Grows
  <2>5. CASE FFilling!NextBucket(t)
    BY <1>1, <1>2, <1>3, <2>5, FineWords
    DEF FFilling!NextBucket, FFilling!Refuse, FFilling!Accept, Idles, RollsOver,
        FineEmission
  <2> QED BY <1>2, <2>1, <2>2, <2>3, <2>4, <2>5 DEF FFilling!Push
<1>4. CASE "fine" \notin filler
  <2>1. F!Push(t)
    BY <1>1, <1>4 DEF FinePush
  <2>2. CASE F!First(t)
    BY <1>1, <1>2, <2>2, FineWords DEF F!First, F!Accept, Opens
  <2>3. CASE F!RefuseOlder(t)
    BY <1>1, <1>2, <2>3 DEF F!RefuseOlder, F!Refuse, Idles
  <2>4. CASE F!SameBucket(t)
    BY <1>1, <1>2, <2>4, FineWords DEF F!SameBucket, F!Refuse, F!Accept, Idles, Grows
  <2>5. CASE F!NextBucket(t)
    BY <1>1, <1>2, <1>4, <2>5, FineWords
    DEF F!NextBucket, F!Refuse, F!Accept, Idles, RollsOver, FineEmission
  <2> QED BY <1>2, <2>1, <2>2, <2>3, <2>4, <2>5 DEF F!Push
<1> QED BY <1>3, <1>4

\* The flush that ends the ticks hands over the open bar, or fails.
LEMMA EndOfTicksCases ==
    ASSUME EndOfTicks
    PROVE  /\ phase = "feeding" /\ queue = <<>> /\ phase' \in {"ending", "failed"}
           /\ rOpen' = rOpen /\ rResult' = rResult
           /\ output' = output /\ filler' = filler /\ fed' = fed
           /\ fOpen' = NoBar
           /\ IF fOpen # NoBar /\ phase' = "ending"
              THEN queue' = <<Fin!Closed(fOpen)>> ELSE queue' = <<>>
  BY FineWords DEF EndOfTicks, F!Flush, rVars

-----------------------------------------------------------------------------
(* A candle handed to the coarse stage, if the stages of f fill gaps. *)

PushOk(f, bar, c) ==
    bar # NoBar =>
        \/ Crs!Floor(c.ts) = bar.start
        \/ /\ Crs!Floor(c.ts) > bar.start
           /\ Crs!Finite(bar)
           /\ "coarse" \in f => Crs!Rolls(bar, Crs!Floor(c.ts))
Joins(bar, c) == bar # NoBar /\ Crs!Floor(c.ts) = bar.start
PushedBar(bar, c) ==
    IF Joins(bar, c) THEN Crs!Absorb(bar, c) ELSE Crs!OpenBar(c, Crs!Floor(c.ts))
Emitted(f, bar, c) ==
    IF bar = NoBar \/ Joins(bar, c) THEN <<>>
    ELSE IF "coarse" \in f THEN Crs!RollOut(bar, Crs!Floor(c.ts))
    ELSE <<Crs!Closed(bar)>>

\* So does the resampler, of a candle.
LEMMA CoarseWords ==
    /\ \A ts : R!Floor(ts) = Crs!Floor(ts) /\ RFilling!Floor(ts) = Crs!Floor(ts)
    /\ \A c, s : /\ R!OpenBar(c, s) = Crs!OpenBar(c, s)
                 /\ RFilling!OpenBar(c, s) = Crs!OpenBar(c, s)
    /\ \A b, c : /\ R!Absorb(b, c) = Crs!Absorb(b, c)
                 /\ RFilling!Absorb(b, c) = Crs!Absorb(b, c)
    /\ \A b : R!Closed(b) = Crs!Closed(b)
    /\ \A b, n : R!RollOut(b, n) = <<Crs!Closed(b)>> \o <<>>
    /\ \A b, n : RFilling!RollOut(b, n) = Crs!RollOut(b, n)
    /\ \A b, n : RFilling!Rolls(b, n) => Crs!Rolls(b, n) /\ Crs!Finite(b)
    /\ \A b, n : R!Rolls(b, n) => Crs!Finite(b)
  BY DEF R!Floor, R!Greater, R!OpenBar, R!Absorb, R!Lesser, R!AddVolume, R!Closed,
         R!RollOut, R!Rolls, R!Finite, RFilling!Floor, RFilling!Greater, RFilling!OpenBar,
         RFilling!Absorb, RFilling!Lesser, RFilling!AddVolume, RFilling!Closed,
         RFilling!RollOut, RFilling!Fillers, RFilling!GapCount, RFilling!Flat,
         RFilling!Rolls, RFilling!Finite, RFilling!Fillable, RFilling!FirstFillerFits,
         Crs!Floor, Crs!Greater, Crs!OpenBar, Crs!Absorb, Crs!Lesser, Crs!AddVolume,
         Crs!Closed, Crs!RollOut, Crs!Fillers, Crs!GapCount, Crs!Flat, Crs!Rolls,
         Crs!Finite, Crs!Fillable, Crs!FirstFillerFits

Takes(c) ==
    /\ PushOk(filler, rOpen, c)
    /\ rOpen' = PushedBar(rOpen, c)
    /\ output' = output \o Emitted(filler, rOpen, c)
    /\ rResult' = "ok"
    /\ phase' = phase
Fails(c) ==
    /\ phase' = "failed"
    /\ rOpen' = rOpen
    /\ output' = output \o <<>>
    /\ rResult' = "older" => rOpen # NoBar /\ Crs!Floor(c.ts) < rOpen.start

PipeTypes ==
    /\ fOpen \in Crs!Bar \cup {NoBar}
    /\ rOpen \in Crs!Bar \cup {NoBar}
    /\ queue \in Seq(Crs!Candle)
    /\ output \in Seq(Crs!Candle)
    /\ fed \in Seq(F!Ticks)

\* Handing on the first candle of the queue: the resampler takes it or fails.
LEMMA ForwardCases ==
    ASSUME PipeTypes, Forward
    PROVE  /\ phase \in {"feeding", "ending"} /\ queue # <<>> /\ queue' = Tail(queue)
           /\ fOpen' = fOpen /\ fed' = fed /\ filler' = filler
           /\ Takes(Head(queue)) \/ Fails(Head(queue))
<1> DEFINE c == Head(queue)
<1>1. /\ phase \in {"feeding", "ending"} /\ queue # <<>> /\ queue' = Tail(queue)
      /\ fOpen' = fOpen /\ fed' = fed /\ filler' = filler
      /\ output' = output \o rOut' /\ CoarsePush(c)
      /\ phase' = IF rResult' = "ok" THEN phase ELSE "failed"
  BY DEF Forward, fVars
<1> SUFFICES Takes(c) \/ Fails(c)
  BY <1>1
<1>4. Crs!Floor(c.ts) \in Int /\ (rOpen # NoBar => rOpen.start \in Int)
  <2>1. c \in Crs!Candle
    BY <1>1 DEF PipeTypes
  <2>2. Crs!Floor(c.ts) \in Crs!Timestamps
    BY <2>1, Constants, Crs!FloorFacts DEF Crs!Candle
  <2> QED BY <2>2, Constants DEF PipeTypes, Crs!Bar, Crs!Timestamps
<1>5. <<Crs!Closed(rOpen)>> \o <<>> = <<Crs!Closed(rOpen)>>
  OBVIOUS
<1> HIDE DEF c
<1>2. CASE "coarse" \in filler
  <2>1. RFilling!Push(c)
    BY <1>1, <1>2 DEF CoarsePush
  <2>2. CASE RFilling!First(c)
    BY <1>1, <2>2, CoarseWords
    DEF RFilling!First, RFilling!Accept, Takes, PushOk, PushedBar, Emitted, Joins
  <2>3. CASE RFilling!SameBucket(c)
    BY <1>1, <2>3, CoarseWords
    DEF RFilling!SameBucket, RFilling!Accept, Takes, PushOk, PushedBar, Emitted, Joins
  <2>4. CASE RFilling!NextBucket(c)
    <3>1. /\ rOpen # NoBar /\ Crs!Floor(c.ts) > rOpen.start
          /\ Crs!Floor(c.ts) # rOpen.start
      BY <1>4, <2>4, CoarseWords DEF RFilling!NextBucket
    <3>2. CASE RFilling!Rolls(rOpen, RFilling!Floor(c.ts))
      <4>1. RFilling!Accept(c, Crs!OpenBar(c, Crs!Floor(c.ts)),
                            Crs!RollOut(rOpen, Crs!Floor(c.ts)))
        BY <2>4, <3>2, CoarseWords DEF RFilling!NextBucket
      <4>2. Crs!Rolls(rOpen, Crs!Floor(c.ts)) /\ Crs!Finite(rOpen)
        BY <3>2, CoarseWords
      <4> QED BY <1>1, <1>2, <3>1, <4>1, <4>2
              DEF RFilling!Accept, Takes, PushOk, PushedBar, Emitted, Joins
    <3>3. CASE ~RFilling!Rolls(rOpen, RFilling!Floor(c.ts))
      <4>1. \E why \in {"gap", "infinite"} : RFilling!Refuse(why)
        BY <2>4, <3>3 DEF RFilling!NextBucket
      <4> QED BY <1>1, <4>1 DEF RFilling!Refuse, Fails
    <3> QED BY <3>2, <3>3
  <2>5. CASE RFilling!RefuseOlder(c)
    BY <1>1, <2>5, CoarseWords DEF RFilling!RefuseOlder, RFilling!Refuse, Fails
  <2> QED BY <2>1, <2>2, <2>3, <2>4, <2>5 DEF RFilling!Push
<1>3. CASE "coarse" \notin filler
  <2>1. R!Push(c)
    BY <1>1, <1>3 DEF CoarsePush
  <2>2. CASE R!First(c)
    BY <1>1, <2>2, CoarseWords
    DEF R!First, R!Accept, Takes, PushOk, PushedBar, Emitted, Joins
  <2>3. CASE R!SameBucket(c)
    BY <1>1, <2>3, CoarseWords
    DEF R!SameBucket, R!Accept, Takes, PushOk, PushedBar, Emitted, Joins
  <2>4. CASE R!NextBucket(c)
    <3>1. /\ rOpen # NoBar /\ Crs!Floor(c.ts) > rOpen.start
          /\ Crs!Floor(c.ts) # rOpen.start
      BY <1>4, <2>4, CoarseWords DEF R!NextBucket
    <3>2. CASE R!Rolls(rOpen, R!Floor(c.ts))
      <4>1. R!Accept(c, Crs!OpenBar(c, Crs!Floor(c.ts)),
                            <<Crs!Closed(rOpen)>>)
        BY <1>5, <2>4, <3>2, CoarseWords DEF R!NextBucket
      <4>2. Crs!Finite(rOpen)
        BY <3>2, CoarseWords
      <4> QED BY <1>1, <1>3, <3>1, <4>1, <4>2
              DEF R!Accept, Takes, PushOk, PushedBar, Emitted, Joins
    <3>3. CASE ~R!Rolls(rOpen, R!Floor(c.ts))
      <4>1. \E why \in {"gap", "infinite"} : R!Refuse(why)
        BY <2>4, <3>3 DEF R!NextBucket
      <4> QED BY <1>1, <4>1 DEF R!Refuse, Fails
    <3> QED BY <3>2, <3>3
  <2>5. CASE R!RefuseOlder(c)
    BY <1>1, <2>5, CoarseWords DEF R!RefuseOlder, R!Refuse, Fails
  <2> QED BY <2>1, <2>2, <2>3, <2>4, <2>5 DEF R!Push
<1> QED BY <1>2, <1>3

\* The flush that ends the candles.
LEMMA EndOfCandlesCases ==
    ASSUME EndOfCandles
    PROVE  /\ phase = "ending" /\ queue = <<>> /\ phase' \in {"done", "failed"}
           /\ queue' = queue /\ fOpen' = fOpen /\ fed' = fed /\ filler' = filler
           /\ rOpen' = NoBar /\ rResult' # "older"
           /\ IF rOpen # NoBar /\ phase' = "done"
              THEN output' = output \o <<Crs!Closed(rOpen)>>
              ELSE output' = output \o <<>>
  BY CoarseWords DEF EndOfCandles, R!Flush, fVars

-----------------------------------------------------------------------------
(* Types, and the buckets of the open bars. *)

FineStart == fOpen # NoBar => fOpen.start = Fin!Floor(fOpen.last)
CoarseStart == rOpen # NoBar => rOpen.start = Crs!Floor(rOpen.last)
PipeInv == PipeTypes /\ FineStart /\ CoarseStart

\* What the fine stage emits are candles of the coarse one.
LEMMA FineEmissionType ==
    ASSUME NEW bar \in Crs!Bar, NEW next \in Crs!Timestamps
    PROVE  /\ Fin!Closed(bar) \in Crs!Candle
           /\ Fin!Fillers(bar.close, bar.start, next) \in Seq(Crs!Candle)
           /\ FineEmission(bar, next) \in Seq(Crs!Candle)
<1>1. bar \in Fin!Bar /\ next \in Fin!Timestamps /\ bar.start \in Fin!Timestamps
      /\ bar.close \in Int
  BY SameBars DEF Crs!Bar
<1>2. Fin!Closed(bar) \in Crs!Candle
  BY <1>1, Constants, Fin!ClosedType, SameBars
<1>3. Fin!Fillers(bar.close, bar.start, next) \in Seq(Crs!Candle)
  BY <1>1, Constants, Fin!FillersType, SameBars
<1> QED BY <1>2, <1>3 DEF FineEmission

\* What a tick makes of the fine stage's bar.
LEMMA TickBars ==
    ASSUME NEW t \in F!Ticks
    PROVE  /\ Fin!Floor(t.ts) \in Crs!Timestamps
           /\ LET bar == Fin!OpenBar(t, Fin!Floor(t.ts))
              IN  /\ bar \in Crs!Bar /\ bar # NoBar
                  /\ bar.start = Fin!Floor(t.ts) /\ bar.last = t.ts
           /\ \A b \in Crs!Bar :
                 LET bar == Fin!Absorb(b, t)
                 IN  /\ bar \in Crs!Bar /\ bar # NoBar
                     /\ bar.start = b.start /\ bar.last = t.ts
<1>1. t \in Fin!Candle /\ t.ts \in Fin!Timestamps
  BY TickIsCandle, SameBars
<1>2. Fin!Floor(t.ts) \in Crs!Timestamps
  BY <1>1, Constants, Fin!FloorFacts, SameBars
<1>3. Fin!OpenBar(t, Fin!Floor(t.ts)) \in Crs!Bar
  BY <1>1, Constants, Fin!OpenBarType, SameBars
<1>4. ASSUME NEW b \in Crs!Bar PROVE Fin!Absorb(b, t) \in Crs!Bar
  BY <1>1, Constants, Fin!AbsorbType, SameBars
<1>5. ASSUME NEW b \in Crs!Bar
      PROVE  Fin!Absorb(b, t).start = b.start /\ Fin!Absorb(b, t).last = t.ts
  BY DEF Fin!Absorb, Crs!Bar
<1> QED BY <1>2, <1>3, <1>4, <1>5, Constants DEF Fin!OpenBar

\* What a candle makes of the coarse one's.
LEMMA PushTypes ==
    ASSUME NEW c \in Crs!Candle, NEW bar \in Crs!Bar \cup {NoBar}, NEW f
    PROVE  /\ Crs!Floor(c.ts) \in Crs!Timestamps
           /\ PushedBar(bar, c) \in Crs!Bar /\ PushedBar(bar, c) # NoBar
           /\ PushedBar(bar, c).start = Crs!Floor(c.ts)
           /\ PushedBar(bar, c).last = c.ts
           /\ PushedBar(bar, c).close = c.close
           /\ Emitted(f, bar, c) \in Seq(Crs!Candle)
<1>1. Crs!Floor(c.ts) \in Crs!Timestamps
  BY Constants, Crs!FloorFacts DEF Crs!Candle
<1>2. CASE Joins(bar, c)
  <2>1. bar \in Crs!Bar /\ PushedBar(bar, c) = Crs!Absorb(bar, c)
    BY <1>2 DEF Joins, PushedBar
  <2>2. PushedBar(bar, c) \in Crs!Bar
    BY <2>1, Constants, Crs!AbsorbType
  <2>3. /\ PushedBar(bar, c).start = bar.start
        /\ PushedBar(bar, c).last = c.ts /\ PushedBar(bar, c).close = c.close
    BY <2>1 DEF Crs!Absorb, Crs!Bar
  <2> QED BY <1>1, <1>2, <2>2, <2>3, Constants DEF Joins, Emitted
<1>3. CASE ~Joins(bar, c)
  <2>1. PushedBar(bar, c) = Crs!OpenBar(c, Crs!Floor(c.ts))
    BY <1>3 DEF PushedBar
  <2>2. PushedBar(bar, c) \in Crs!Bar
    BY <2>1, Constants, Crs!OpenBarType
  <2>3. Emitted(f, bar, c) \in Seq(Crs!Candle)
    <3>1. CASE bar = NoBar
      BY <3>1 DEF Emitted
    <3>2. CASE bar # NoBar
      <4>1. bar \in Crs!Bar
        BY <3>2
      <4>2. Crs!Closed(bar) \in Crs!Candle
        BY <4>1, Constants, Crs!ClosedType
      <4>3. Crs!RollOut(bar, Crs!Floor(c.ts)) \in Seq(Crs!Candle)
        BY <1>1, <4>1, Constants, Crs!RollOutType
      <4> QED BY <1>3, <3>2, <4>2, <4>3 DEF Emitted
    <3> QED BY <3>1, <3>2
  <2> QED BY <1>1, <2>1, <2>2, <2>3, Constants DEF Crs!OpenBar
<1> QED BY <1>2, <1>3

LEMMA PipeInit == Init => PipeInv
  BY DEF Init, F!Init, R!Init, PipeInv, PipeTypes, FineStart, CoarseStart

LEMMA PipeNext == PipeInv /\ [Next]_pipeVars => PipeInv'
<1> SUFFICES ASSUME PipeInv, [Next]_pipeVars PROVE PipeInv'
  OBVIOUS
<1> USE DEF PipeInv, PipeTypes, FineStart, CoarseStart
<1>1. CASE Feed
  <2>1. CASE Idles
    <3>1. /\ rOpen' = rOpen /\ output' = output /\ fOpen' = fOpen /\ fed' = fed
          /\ queue' = <<>>
      BY <1>1, <2>1, FeedCases DEF Idles
    <3> QED BY <3>1
  <2>0. rOpen' = rOpen /\ output' = output
    BY <1>1, FeedCases
  <2>2. ASSUME NEW t \in F!Ticks, fed' = Append(fed, t), Opens(t) PROVE PipeInv'
    BY <2>0, <2>2, TickBars DEF Opens
  <2>3. ASSUME NEW t \in F!Ticks, fed' = Append(fed, t), Grows(t) PROVE PipeInv'
    BY <2>0, <2>3, TickBars DEF Grows
  <2>4. ASSUME NEW t \in F!Ticks, fed' = Append(fed, t), RollsOver(t) PROVE PipeInv'
    <3>1. queue' \in Seq(Crs!Candle)
      BY <2>4, TickBars, FineEmissionType DEF RollsOver
    <3> QED BY <2>0, <2>4, <3>1, TickBars DEF RollsOver
  <2> QED BY <1>1, <2>1, <2>2, <2>3, <2>4, FeedCases
<1>2. CASE EndOfTicks
  <2>1. queue' \in Seq(Crs!Candle)
    <3>1. fOpen # NoBar => Fin!Closed(fOpen) \in Crs!Candle
      BY Constants, Fin!ClosedType, SameBars
    <3>2. (fOpen # NoBar /\ queue' = <<Fin!Closed(fOpen)>>) \/ queue' = <<>>
      BY <1>2, EndOfTicksCases
    <3>3. CASE fOpen # NoBar /\ queue' = <<Fin!Closed(fOpen)>>
      BY <3>1, <3>3
    <3>4. CASE queue' = <<>>
      BY <3>4
    <3> QED BY <3>2, <3>3, <3>4
  <2>2. fOpen' = NoBar /\ rOpen' = rOpen /\ output' = output /\ fed' = fed
    BY <1>2, EndOfTicksCases
  <2> QED BY <2>1, <2>2
<1>3. CASE Forward
  <2> DEFINE c == Head(queue)
  <2>1. /\ c \in Crs!Candle /\ queue' \in Seq(Crs!Candle)
        /\ fOpen' = fOpen /\ fed' = fed
        /\ Takes(c) \/ Fails(c)
    <3>1. queue # <<>> /\ queue \in Seq(Crs!Candle)
      BY <1>3, ForwardCases
    <3>2. Head(queue) \in Crs!Candle /\ Tail(queue) \in Seq(Crs!Candle)
      BY <3>1, HeadTailProperties
    <3> QED BY <1>3, <3>2, ForwardCases
  <2> HIDE DEF c
  <2>2. CASE Takes(c)
    BY <2>1, <2>2, PushTypes DEF Takes
  <2>3. CASE Fails(c)
    BY <2>1, <2>3 DEF Fails
  <2> QED BY <2>1, <2>2, <2>3
<1>4. CASE EndOfCandles
  <2>1. rOpen # NoBar => Crs!Closed(rOpen) \in Crs!Candle
    BY Constants, Crs!ClosedType
  <2>2. /\ rOpen' = NoBar /\ fOpen' = fOpen /\ queue' = queue /\ fed' = fed
        /\ (rOpen # NoBar /\ output' = output \o <<Crs!Closed(rOpen)>>)
               \/ output' = output \o <<>>
    BY <1>4, EndOfCandlesCases
  <2>3. output' \in Seq(Crs!Candle)
    <3>1. CASE rOpen # NoBar /\ output' = output \o <<Crs!Closed(rOpen)>>
      BY <2>1, <3>1
    <3>2. CASE output' = output \o <<>>
      BY <3>2
    <3> QED BY <2>2, <3>1, <3>2
  <2> QED BY <2>2, <2>3
<1>5. CASE UNCHANGED pipeVars
  BY <1>5 DEF pipeVars, fVars, rVars
<1> QED BY <1>1, <1>2, <1>3, <1>4, <1>5 DEF Next

\* The open bars and the lists of candles are well typed, and each open bar is the
\* bucket of what it absorbed last.
THEOREM PipelineTypes == Spec => []PipeInv
<1> QED BY PipeInit, PipeNext, PTL DEF Spec

-----------------------------------------------------------------------------
(* The order of the candles on their way. *)

\* The placeholders of the fine stage.
LEMMA FineFillers ==
    ASSUME NEW bar \in Crs!Bar, NEW next \in Crs!Timestamps
    PROVE  LET fs == Fin!Fillers(bar.close, bar.start, next)
           IN  /\ fs \in Seq(Crs!Candle)
               /\ Len(fs) = Fin!GapCount(bar.start, next)
               /\ \A i \in 1 .. Len(fs) :
                     /\ fs[i] = Crs!Flat(bar.close, bar.start + i * Fine)
                     /\ fs[i].ts = bar.start + i * Fine
                     /\ fs[i].ts \in Int
                     /\ bar.start < fs[i].ts /\ fs[i].ts < next
<1> DEFINE prev == bar.start
           n == Fin!GapCount(prev, next)
           fs == Fin!Fillers(bar.close, prev, next)
<1>1. /\ prev \in Fin!Timestamps /\ next \in Fin!Timestamps /\ bar.close \in Int
      /\ prev \in Int /\ next \in Int /\ next <= TsMax /\ TsMax \in Int
      /\ Fine \in Nat /\ Fine > 0
  BY Constants, SameBars DEF Crs!Bar, Crs!Timestamps
<1>2. fs \in Seq(Crs!Candle) /\ Len(fs) = n
  BY <1>1, Constants, Fin!FillersType, SameBars
<1>3. ASSUME NEW i \in 1 .. n
      PROVE  /\ fs[i] = Crs!Flat(bar.close, prev + i * Fine)
             /\ prev + i * Fine \in Int
             /\ prev < prev + i * Fine /\ prev + i * Fine < next
  <2>1. i * Fine \in Nat /\ i * Fine >= Fine /\ prev + i * Fine < next
    BY <1>1, Constants, Fin!FillerBeforeNext
  <2>2. fs[i] = Fin!Flat(bar.close, Fin!Lesser(prev + i * Fine, TsMax))
    BY DEF Fin!Fillers
  <2>3. Fin!Lesser(prev + i * Fine, TsMax) = prev + i * Fine
    BY <1>1, <2>1 DEF Fin!Lesser
  <2> QED BY <1>1, <2>1, <2>2, <2>3 DEF Fin!Flat, Crs!Flat
<1> HIDE DEF fs, n, prev
<1>4. ASSUME NEW i \in 1 .. n PROVE fs[i].ts = prev + i * Fine
  <2>1. \A x : Crs!Flat(bar.close, x).ts = x
    BY DEF Crs!Flat
  <2> QED BY <1>3, <2>1
<1>5. \A i \in 1 .. Len(fs) :
         /\ fs[i] = Crs!Flat(bar.close, prev + i * Fine)
         /\ fs[i].ts = prev + i * Fine
         /\ fs[i].ts \in Int
         /\ prev < fs[i].ts /\ fs[i].ts < next
  BY <1>2, <1>3, <1>4
<1> QED BY <1>2, <1>5 DEF fs, n, prev

\* They rise in time, from the bar that closes up to the next bucket.
LEMMA FineEmissionInOrder ==
    ASSUME NEW bar \in Crs!Bar, NEW next \in Crs!Timestamps, bar.start < next
    PROVE  LET q == FineEmission(bar, next)
           IN  /\ \A i \in 1 .. Len(q) : bar.start <= q[i].ts /\ q[i].ts < next
               /\ \A i, j \in 1 .. Len(q) : i < j => q[i].ts < q[j].ts
<1> DEFINE c == Fin!Closed(bar)
           fs == IF "fine" \in filler THEN Fin!Fillers(bar.close, bar.start, next) ELSE <<>>
           q == <<c>> \o fs
           n == Len(fs)
<1>1. bar.start \in Int /\ c \in Crs!Candle /\ c.ts = bar.start
  BY FineEmissionType, Constants DEF Crs!Bar, Crs!Timestamps, Fin!Closed
<1>2. fs \in Seq(Crs!Candle)
  BY FineFillers
<1>3. \A i \in 1 .. n : fs[i].ts = bar.start + i * Fine /\ fs[i].ts \in Int
                        /\ bar.start < fs[i].ts /\ fs[i].ts < next
  BY FineFillers
<1>4. FineEmission(bar, next) = q
  BY DEF FineEmission
<1> HIDE DEF c, fs
<1>5. /\ n \in Nat /\ Len(q) = n + 1 /\ q[1] = c
      /\ \A i \in 2 .. n + 1 : i - 1 \in 1 .. n /\ q[i] = fs[i - 1]
  BY <1>1, <1>2
<1> HIDE DEF q, n
<1>6. ASSUME NEW i \in 1 .. n + 1 PROVE bar.start <= q[i].ts /\ q[i].ts < next
  <2>1. CASE i = 1
    BY <1>1, <1>5, <2>1
  <2>2. CASE i # 1
    <3>1. i - 1 \in 1 .. n /\ q[i] = fs[i - 1]
      BY <1>5, <2>2
    <3>2. /\ fs[i - 1].ts \in Int /\ bar.start < fs[i - 1].ts
          /\ fs[i - 1].ts < next
      BY <1>3, <3>1
    <3> QED BY <1>1, <3>1, <3>2
  <2> QED BY <2>1, <2>2
<1>7. ASSUME NEW i \in 1 .. n + 1, NEW j \in 1 .. n + 1, i < j PROVE q[i].ts < q[j].ts
  <2>1. j \in 2 .. n + 1 /\ j - 1 \in 1 .. n /\ q[j] = fs[j - 1]
    BY <1>5, <1>7
  <2>2. CASE i = 1
    BY <1>1, <1>3, <1>5, <2>1, <2>2
  <2>3. CASE i # 1
    <3>1. i - 1 \in 1 .. n /\ q[i] = fs[i - 1]
      BY <1>5, <2>3
    <3>2. (i - 1) * Fine < (j - 1) * Fine
          /\ (i - 1) * Fine \in Int /\ (j - 1) * Fine \in Int
      <4>1. i - 1 \in Int /\ j - 1 \in Int /\ i - 1 < j - 1 /\ Fine \in Int /\ Fine > 0
        BY <1>5, <1>7, Constants
      <4>2. Fine * (i - 1) + Fine <= Fine * (j - 1)
        BY <4>1, Constants, Fin!Multiples
      <4> QED BY <4>1, <4>2
    <3>3. q[i].ts = bar.start + (i - 1) * Fine /\ q[j].ts = bar.start + (j - 1) * Fine
      BY <1>3, <2>1, <3>1
    <3> QED BY <1>1, <3>2, <3>3
  <2> QED BY <2>2, <2>3
<1> QED BY <1>4, <1>5, <1>6, <1>7

\* The candle handed over last, those in the queue and the open bar follow each other.
Line ==
    /\ \A i \in 1 .. Len(queue) : rOpen # NoBar => rOpen.last < queue[i].ts
    /\ \A i, j \in 1 .. Len(queue) : i < j => queue[i].ts < queue[j].ts
    /\ fOpen # NoBar =>
           /\ rOpen # NoBar => rOpen.last < fOpen.start
           /\ \A i \in 1 .. Len(queue) : queue[i].ts < fOpen.start
    /\ phase = "feeding" /\ fOpen = NoBar => rOpen = NoBar /\ queue = <<>>

OrderInv == PipeInv /\ Line /\ NeverRefusedAsOlder

LEMMA OrderNext == OrderInv /\ [Next]_pipeVars => OrderInv'
<1> SUFFICES ASSUME OrderInv, [Next]_pipeVars PROVE Line' /\ NeverRefusedAsOlder'
  BY PipeNext DEF OrderInv
<1>0. /\ PipeInv /\ PipeInv' /\ Line /\ rResult # "older"
      /\ rOpen # NoBar => rOpen.last \in Int /\ rOpen.last \in Crs!Timestamps
                          /\ rOpen.start = Crs!Floor(rOpen.last)
      /\ fOpen # NoBar => fOpen \in Crs!Bar /\ fOpen.start \in Int
      /\ queue \in Seq(Crs!Candle)
      /\ \A i \in 1 .. Len(queue) : queue[i] \in Crs!Candle /\ queue[i].ts \in Int
  <2>1. PipeInv /\ PipeInv' /\ Line /\ rResult # "older"
    BY PipeNext DEF OrderInv, NeverRefusedAsOlder
  <2>2. /\ rOpen # NoBar => rOpen \in Crs!Bar /\ rOpen.start = Crs!Floor(rOpen.last)
        /\ fOpen # NoBar => fOpen \in Crs!Bar
        /\ queue \in Seq(Crs!Candle)
    BY <2>1 DEF PipeInv, PipeTypes, CoarseStart
  <2>3. \A ts \in Crs!Timestamps : ts \in Int
    BY Constants DEF Crs!Timestamps
  <2>4. \A i \in 1 .. Len(queue) : queue[i] \in Crs!Candle
    BY <2>2
  <2> QED BY <2>1, <2>2, <2>3, <2>4 DEF Crs!Bar, Crs!Candle
<1>1. CASE Feed
  <2>0. rOpen' = rOpen /\ rResult' = rResult /\ queue = <<>> /\ phase = "feeding"
    BY <1>1, FeedCases
  <2>1. CASE Idles
    <3>1. fOpen' = fOpen /\ queue' = <<>> /\ Len(queue') = 0 /\ phase' = phase
      BY <1>1, <2>1, FeedCases DEF Idles
    <3> QED BY <1>0, <2>0, <3>1 DEF Line, NeverRefusedAsOlder
  <2>2. ASSUME NEW t \in F!Ticks, Opens(t) PROVE Line' /\ NeverRefusedAsOlder'
    <3>1. /\ rOpen' = NoBar /\ queue' = <<>> /\ Len(queue') = 0
          /\ fOpen' # NoBar
      BY <1>0, <2>0, <2>2, TickBars DEF Opens, Line
    <3> QED BY <1>0, <2>0, <3>1 DEF Line, NeverRefusedAsOlder
  <2>3. ASSUME NEW t \in F!Ticks, Grows(t) PROVE Line' /\ NeverRefusedAsOlder'
    <3>1. /\ queue' = <<>> /\ Len(queue') = 0
          /\ fOpen # NoBar /\ fOpen' # NoBar /\ fOpen'.start = fOpen.start
      BY <1>0, <2>0, <2>3, TickBars DEF Grows
    <3> QED BY <1>0, <2>0, <3>1 DEF Line, NeverRefusedAsOlder
  <2>4. ASSUME NEW t \in F!Ticks, RollsOver(t) PROVE Line' /\ NeverRefusedAsOlder'
    <3> DEFINE next == Fin!Floor(t.ts)
               q == FineEmission(fOpen, next)
    <3>1. /\ fOpen # NoBar /\ fOpen \in Crs!Bar /\ fOpen.start < next
          /\ next \in Crs!Timestamps /\ next \in Int
          /\ fOpen' # NoBar /\ fOpen'.start = next /\ queue' = q
      <4>1. next \in Crs!Timestamps /\ next \in Int
        BY TickBars, Constants DEF Crs!Timestamps
      <4> QED BY <1>0, <2>4, <4>1, TickBars DEF RollsOver
    <3>2. /\ \A i \in 1 .. Len(q) : fOpen.start <= q[i].ts /\ q[i].ts < next
          /\ \A i, j \in 1 .. Len(q) : i < j => q[i].ts < q[j].ts
      BY <3>1, FineEmissionInOrder
    <3>3. rOpen # NoBar => rOpen.last \in Int /\ rOpen.last < fOpen.start
      BY <1>0, <3>1 DEF Line
    <3>4. q \in Seq(Crs!Candle)
      BY <3>1, FineEmissionType
    <3>5. \A i \in 1 .. Len(q) : q[i].ts \in Int
      <4>1. \A c \in Crs!Candle : c.ts \in Int
        BY Constants DEF Crs!Candle, Crs!Timestamps
      <4> HIDE DEF q
      <4> QED BY <3>4, <4>1
    <3> HIDE DEF q, next
    <3>6. rOpen # NoBar => \A i \in 1 .. Len(q) : rOpen.last < q[i].ts
      BY <1>0, <3>1, <3>2, <3>3, <3>5
    <3>7. rOpen # NoBar => rOpen.last < next
      BY <1>0, <3>1, <3>3
    <3> QED BY <1>0, <2>0, <3>1, <3>2, <3>6, <3>7 DEF Line, NeverRefusedAsOlder
  <2> QED BY <1>1, <2>1, <2>2, <2>3, <2>4, FeedCases
<1>2. CASE EndOfTicks
  <2>1. /\ rOpen' = rOpen /\ rResult' = rResult /\ fOpen' = NoBar
        /\ phase' # "feeding"
    BY <1>2, EndOfTicksCases
  <2>2. CASE fOpen # NoBar /\ queue' = <<Fin!Closed(fOpen)>>
    <3>1. Len(queue') = 1 /\ queue'[1].ts = fOpen.start
      BY <2>2 DEF Fin!Closed
    <3> QED BY <1>0, <2>1, <2>2, <3>1 DEF Line, NeverRefusedAsOlder
  <2>3. CASE queue' = <<>>
    <3>1. Len(queue') = 0
      BY <2>3
    <3> QED BY <1>0, <2>1, <3>1 DEF Line, NeverRefusedAsOlder
  <2> QED BY <1>2, <2>2, <2>3, EndOfTicksCases
<1>3. CASE Forward
  <2> DEFINE c == Head(queue)
             m == Len(queue)
  <2>1. /\ m \in Nat /\ m >= 1 /\ c = queue[1] /\ queue' = Tail(queue)
        /\ Len(queue') = m - 1
        /\ \A i \in 1 .. m - 1 : queue'[i] = queue[i + 1] /\ i + 1 \in 1 .. m
    <3>1. queue # <<>> /\ queue \in Seq(Crs!Candle) /\ queue' = Tail(queue)
      BY <1>0, <1>3, ForwardCases DEF PipeInv
    <3> QED BY <3>1
  <2>2. /\ fOpen' = fOpen /\ queue # <<>>
        /\ phase \in {"feeding", "ending"}
        /\ Takes(c) \/ Fails(c)
    BY <1>0, <1>3, ForwardCases DEF PipeInv
  <2>3. c \in Crs!Candle /\ c.ts \in Int
    BY <1>0, <2>1
  <2> HIDE DEF c, m
  <2>4. CASE Takes(c)
    <3>1. /\ rOpen' # NoBar /\ rOpen'.last = c.ts /\ rResult' = "ok" /\ phase' = phase
      BY <1>0, <2>3, <2>4, PushTypes DEF Takes, PipeInv, PipeTypes
    <3>2. \A i \in 1 .. m - 1 : c.ts < queue'[i].ts
      BY <1>0, <2>1 DEF Line, m
    <3>3. fOpen # NoBar => /\ c.ts < fOpen.start
                           /\ \A i \in 1 .. m - 1 : queue'[i].ts < fOpen.start
      BY <1>0, <2>1 DEF Line, m
    <3>4. \A i, j \in 1 .. m - 1 : i < j => queue'[i].ts < queue'[j].ts
      BY <1>0, <2>1 DEF Line, m
    <3>5. ~(phase = "feeding" /\ fOpen = NoBar)
      BY <1>0, <2>2 DEF Line
    <3> QED BY <2>1, <2>2, <3>1, <3>2, <3>3, <3>4, <3>5 DEF Line, NeverRefusedAsOlder
  <2>5. CASE Fails(c)
    <3>1. rOpen' = rOpen /\ phase' = "failed"
      BY <2>5 DEF Fails
    <3>2. rResult' # "older"
      <4> SUFFICES ASSUME rOpen # NoBar, Crs!Floor(c.ts) < rOpen.start PROVE FALSE
        BY <2>5 DEF Fails
      <4>1. rOpen.last < c.ts /\ c.ts \in Crs!Timestamps
        BY <1>0, <2>1, <2>3 DEF Line, m, Crs!Candle
      <4>2. Crs!Floor(rOpen.last) <= Crs!Floor(c.ts)
        BY <1>0, <2>3, <4>1, Constants, Crs!FloorMonotone
      <4>3. Crs!Floor(rOpen.last) \in Int /\ Crs!Floor(c.ts) \in Int
        <5>1. Crs!Floor(rOpen.last) \in Crs!Timestamps
              /\ Crs!Floor(c.ts) \in Crs!Timestamps
          BY <1>0, <4>1, Constants, Crs!FloorFacts
        <5> QED BY <5>1, Constants DEF Crs!Timestamps
      <4> QED BY <1>0, <4>2, <4>3
    <3>3. rOpen # NoBar => \A i \in 1 .. m - 1 : rOpen.last < queue'[i].ts
      BY <1>0, <2>1 DEF Line, m
    <3>4. fOpen # NoBar => \A i \in 1 .. m - 1 : queue'[i].ts < fOpen.start
      BY <1>0, <2>1 DEF Line, m
    <3>5. \A i, j \in 1 .. m - 1 : i < j => queue'[i].ts < queue'[j].ts
      BY <1>0, <2>1 DEF Line, m
    <3> QED BY <1>0, <2>1, <2>2, <3>1, <3>2, <3>3, <3>4, <3>5 DEF Line, NeverRefusedAsOlder
  <2> QED BY <2>2, <2>4, <2>5
<1>4. CASE EndOfCandles
  <2>1. /\ rOpen' = NoBar /\ rResult' # "older" /\ fOpen' = fOpen /\ queue' = queue
        /\ phase' # "feeding"
    BY <1>4, EndOfCandlesCases
  <2> QED BY <1>0, <2>1 DEF Line, NeverRefusedAsOlder
<1>5. CASE UNCHANGED pipeVars
  <2>1. /\ rOpen' = rOpen /\ rResult' = rResult /\ fOpen' = fOpen /\ queue' = queue
        /\ phase' = phase
    BY <1>5 DEF pipeVars, fVars, rVars
  <2> QED BY <1>0, <2>1 DEF Line, NeverRefusedAsOlder
<1> QED BY <1>1, <1>2, <1>3, <1>4, <1>5 DEF Next

\* Whatever the ticks and whichever stages fill gaps, the resampler is never handed a
\* candle of a bucket before its open one.
THEOREM PipelineNeverRefusedAsOlder == Spec => []NeverRefusedAsOlder
<1>1. Init => OrderInv
  <2> SUFFICES ASSUME Init PROVE Line /\ NeverRefusedAsOlder
    BY PipeInit DEF OrderInv
  <2>1. /\ fOpen = NoBar /\ rOpen = NoBar /\ queue = <<>> /\ Len(queue) = 0
        /\ rResult = "ok"
    BY DEF Init, F!Init, R!Init
  <2> QED BY <2>1 DEF Line, NeverRefusedAsOlder
<1>2. OrderInv => NeverRefusedAsOlder
  BY DEF OrderInv
<1> QED BY <1>1, <1>2, OrderNext, PTL DEF Spec

-----------------------------------------------------------------------------
(* The buckets of one timeframe within those of the other. *)

\* The multiple of d below a number.
LEMMA MultipleBelow ==
    ASSUME NEW y \in Int, NEW d \in Int, d > 0, NEW q \in Int,
           d * q <= y, y < d * q + d
    PROVE  y - (y % d) = d * q
<1> DEFINE p == y \div d
<1>1. p \in Int /\ y % d \in 0 .. d - 1 /\ y = d * p + (y % d)
  BY Constants, Fin!Euclid
<1> HIDE DEF p
<1>2. d * p \in Int /\ d * q \in Int
  BY <1>1
<1>3. ~(p < q)
  <2> SUFFICES ASSUME p < q PROVE FALSE
    OBVIOUS
  <2>1. d * p + d <= d * q
    BY <1>1, Constants, Fin!Multiples
  <2> QED BY <1>1, <1>2, <2>1
<1>4. ~(q < p)
  <2> SUFFICES ASSUME q < p PROVE FALSE
    OBVIOUS
  <2>1. d * q + d <= d * p
    BY <1>1, Constants, Fin!Multiples
  <2> QED BY <1>1, <1>2, <2>1
<1>5. p = q
  BY <1>1, <1>3, <1>4
<1> QED BY <1>1, <1>5

\* The coarse bucket of a fine one is that of its ticks.
LEMMA NestedBuckets ==
    ASSUME NEW x \in Crs!Timestamps
    PROVE  /\ Fin!Floor(x) \in Crs!Timestamps
           /\ Crs!Floor(Fin!Floor(x)) = Crs!Floor(x)
           /\ Crs!Uncut(x) => Crs!Uncut(Fin!Floor(x)) /\ Fin!Uncut(x)
<1> DEFINE y == Fin!Floor(x)
           k == Coarse \div Fine
           q == x \div Coarse
           p == x \div Fine
<1>0. /\ Fine \in Int /\ Fine > 0 /\ Coarse \in Int /\ Coarse > 0
      /\ TsMin \in Int /\ x \in Int /\ TsMin <= x
  BY Constants DEF Crs!Timestamps
<1>1. k \in Int /\ Coarse = Fine * k
  <2>1. /\ k \in Int /\ Coarse = Fine * k + (Coarse % Fine)
    BY <1>0, Constants, Fin!Euclid
  <2>2. Fine * k \in Int /\ Coarse % Fine = 0
    BY <1>0, <2>1, TimeframeAssumption
  <2> QED BY <1>0, <2>1, <2>2
<1>2. q \in Int /\ x % Coarse \in 0 .. Coarse - 1 /\ x = Coarse * q + (x % Coarse)
  BY <1>0, Constants, Fin!Euclid
<1>3. p \in Int /\ x % Fine \in 0 .. Fine - 1 /\ x = Fine * p + (x % Fine)
  BY <1>0, Constants, Fin!Euclid
<1>4. y = IF x - (x % Fine) < TsMin THEN TsMin ELSE x - (x % Fine)
  BY DEF Fin!Floor, Fin!Greater
<1>5. y \in Crs!Timestamps
  BY Constants, Fin!FloorFacts, SameBars
<1> HIDE DEF y, k, q, p
<1>6. Coarse * q \in Int /\ Coarse * q = Fine * (k * q) /\ k * q \in Int
  <2>1. (Fine * k) * q = Fine * (k * q)
    BY <1>0, <1>1, <1>2
  <2> QED BY <1>0, <1>1, <1>2, <2>1
<1>7. Coarse * q <= Fine * p
  <2> DEFINE j == k * q
             m == Fine * j
             n == Fine * p
  <2>1. /\ j \in Int /\ m \in Int /\ n \in Int
        /\ Coarse * q = m /\ m <= x /\ x < n + Fine
    BY <1>0, <1>2, <1>3, <1>6
  <2>2. CASE p < j
    <3>1. n + Fine <= m
      BY <1>0, <1>3, <2>1, <2>2, Constants, Fin!Multiples
    <3> QED BY <1>0, <2>1, <3>1
  <2>3. CASE j <= p
    <3>1. m <= n
      <4>1. CASE j = p
        BY <2>1, <4>1
      <4>2. CASE j < p
        <5>1. m + Fine <= n
          BY <1>0, <1>3, <2>1, <4>2, Constants, Fin!Multiples
        <5> QED BY <1>0, <2>1, <5>1
      <4> QED BY <1>3, <2>1, <2>3, <4>1, <4>2
    <3> QED BY <2>1, <3>1
  <2> QED BY <1>3, <2>1, <2>2, <2>3
<1>8. /\ y \in Int /\ Coarse * q <= y /\ y < Coarse * q + Coarse
  <2>1. Fine * p \in Int /\ x - (x % Fine) = Fine * p
    BY <1>0, <1>3
  <2> QED BY <1>0, <1>2, <1>3, <1>4, <1>6, <1>7, <2>1
<1>9. y - (y % Coarse) = Coarse * q /\ x - (x % Coarse) = Coarse * q
  BY <1>0, <1>2, <1>6, <1>8, MultipleBelow
<1>10. Crs!Uncut(x) => Fin!Uncut(x)
  <2>1. x - (x % Fine) \in Int /\ x - (x % Coarse) <= x - (x % Fine)
    BY <1>0, <1>3, <1>6, <1>7, <1>9
  <2> QED BY <1>0, <1>6, <1>9, <2>1 DEF Crs!Uncut, Fin!Uncut
<1> QED BY <1>5, <1>9, <1>10 DEF Crs!Floor, Crs!Uncut, y

\* A fine bucket later is at most one coarse bucket later.
LEMMA NextFineBucket ==
    ASSUME NEW x \in Crs!Timestamps, Crs!Uncut(x), NEW y \in Crs!Timestamps, y = x + Fine
    PROVE  /\ Crs!Uncut(y)
           /\ Crs!Floor(y) \in {Crs!Floor(x), Crs!Floor(x) + Coarse}
<1> DEFINE q == x \div Coarse
<1>1. /\ Fine \in Int /\ Fine > 0 /\ Coarse \in Int /\ Coarse > 0 /\ Fine < Coarse
      /\ TsMin \in Int /\ x \in Int /\ y \in Int
  <2>1. Coarse \in Fine + 1 .. TsMax
    BY TimeframeAssumption
  <2> QED BY <2>1, Constants DEF Crs!Timestamps
<1>2. q \in Int /\ x % Coarse \in 0 .. Coarse - 1 /\ x = Coarse * q + (x % Coarse)
  BY <1>1, Constants, Fin!Euclid
<1> HIDE DEF q
<1>3. Coarse * q \in Int /\ Coarse * (q + 1) = Coarse * q + Coarse /\ q + 1 \in Int
  BY <1>1, <1>2
<1>4. Coarse * q >= TsMin /\ Crs!Floor(x) = Coarse * q
  <2>1. x - (x % Coarse) = Coarse * q
    BY <1>1, <1>2, <1>3
  <2> QED BY <1>1, <1>3, <2>1 DEF Crs!Uncut, Crs!Floor, Crs!Greater
<1>5. CASE y < Coarse * q + Coarse
  <2>1. y - (y % Coarse) = Coarse * q
    <3>1. Coarse * q <= y
      BY <1>1, <1>2, <1>3
    <3> QED BY <1>1, <1>2, <1>5, <3>1, MultipleBelow
  <2> QED BY <1>1, <1>3, <1>4, <2>1 DEF Crs!Uncut, Crs!Floor, Crs!Greater
<1>6. CASE ~(y < Coarse * q + Coarse)
  <2>1. y - (y % Coarse) = Coarse * (q + 1)
    <3>1. Coarse * (q + 1) <= y /\ y < Coarse * (q + 1) + Coarse
      BY <1>1, <1>2, <1>3, <1>6
    <3> QED BY <1>1, <1>3, <3>1, MultipleBelow
  <2> QED BY <1>1, <1>3, <1>4, <2>1 DEF Crs!Uncut, Crs!Floor, Crs!Greater
<1> QED BY <1>5, <1>6

-----------------------------------------------------------------------------
(* What the coarse stage shows for the ticks so far. *)

\* Unless the fine stage fills gaps, the batch of some ticks; otherwise the outline
\* of it.
BatchSoFar(f, bar, series, cs) ==
    IF "coarse" \in f THEN Crs!SoFar(bar, series, cs) ELSE Non!SoFar(bar, series, cs)
Shows(f, bar, series, cs) ==
    IF "fine" \notin f THEN BatchSoFar(f, bar, series, cs)
    ELSE Crs!Outline(bar, series, cs) /\ Crs!Uncut(bar.last)

\* What it would show, if it took one more candle.
WillShow(f, bar, series, c, cs) ==
    PushOk(f, bar, c) => Shows(f, PushedBar(bar, c), series \o Emitted(f, bar, c), cs)

\* What it takes to show something, as types.
LEMMA ShowsTypes ==
    ASSUME NEW f, NEW bar, NEW series, NEW cs, Shows(f, bar, series, cs)
    PROVE  /\ bar \in Crs!Bar /\ bar # NoBar
           /\ series \in Seq(Crs!Candle)
           /\ cs \in Seq(Crs!Candle) /\ cs # <<>>
  BY Constants, SameBars
  DEF Shows, BatchSoFar, Crs!SoFar, Crs!BarOf, Non!SoFar, Non!BarOf, Crs!Outline

\* The lemmas on the coarse stage that leaves its gaps, in the words of the one that
\* fills them.
LEMMA NonWords ==
    /\ \A ts : Non!Floor(ts) = Crs!Floor(ts)
    /\ \A c, s : Non!OpenBar(c, s) = Crs!OpenBar(c, s)
    /\ \A b, c : Non!Absorb(b, c) = Crs!Absorb(b, c)
    /\ \A b : Non!Closed(b) = Crs!Closed(b)
    /\ \A b, n : Non!RollOut(b, n) = <<Crs!Closed(b)>> \o <<>>
    /\ \A b, n : Crs!Finite(b) => Non!Rolls(b, n)
  BY DEF Non!Floor, Non!Greater, Non!OpenBar, Non!Absorb, Non!Lesser, Non!AddVolume,
         Non!Closed, Non!RollOut, Non!Rolls, Non!Finite,
         Crs!Floor, Crs!Greater, Crs!OpenBar, Crs!Absorb, Crs!Lesser, Crs!AddVolume,
         Crs!Closed, Crs!Finite

\* The steps by which a bar and the candles before it stay the batch, of either kind
\* of coarse stage.
LEMMA BatchFirst ==
    ASSUME NEW f, NEW c \in Crs!Candle
    PROVE  BatchSoFar(f, Crs!OpenBar(c, Crs!Floor(c.ts)), <<>>, Append(<<>>, c))
<1>1. Crs!SoFar(Crs!OpenBar(c, Crs!Floor(c.ts)), <<>>, Append(<<>>, c))
  BY Constants, Crs!SoFarFirst
<1>2. Non!SoFar(Non!OpenBar(c, Non!Floor(c.ts)), <<>>, Append(<<>>, c))
  BY Constants, SameBars, Non!SoFarFirst
<1> QED BY <1>1, <1>2, NonWords DEF BatchSoFar

LEMMA BatchSame ==
    ASSUME NEW f, NEW bar, NEW series, NEW cs, BatchSoFar(f, bar, series, cs),
           NEW c \in Crs!Candle, Crs!Floor(c.ts) = bar.start, cs[Len(cs)].ts <= c.ts
    PROVE  BatchSoFar(f, Crs!Absorb(bar, c), series, Append(cs, c))
<1>1. CASE "coarse" \in f
  BY <1>1, Constants, Crs!SoFarSame DEF BatchSoFar
<1>2. CASE "coarse" \notin f
  <2>1. Non!SoFar(bar, series, cs) /\ c \in Non!Candle /\ Non!Floor(c.ts) = bar.start
    BY <1>2, SameBars, NonWords DEF BatchSoFar
  <2>2. Non!SoFar(Non!Absorb(bar, c), series, Append(cs, c))
    BY <2>1, Constants, Non!SoFarSame
  <2> QED BY <1>2, <2>2, NonWords DEF BatchSoFar
<1> QED BY <1>1, <1>2

LEMMA BatchNext ==
    ASSUME Crs!CapBelowRange,
           NEW f, NEW bar, NEW series, NEW cs, BatchSoFar(f, bar, series, cs),
           NEW c \in Crs!Candle, bar.start < Crs!Floor(c.ts), Crs!Finite(bar),
           "coarse" \in f => Crs!Rolls(bar, Crs!Floor(c.ts))
    PROVE  BatchSoFar(f, Crs!OpenBar(c, Crs!Floor(c.ts)),
                      series \o (IF "coarse" \in f THEN Crs!RollOut(bar, Crs!Floor(c.ts))
                                 ELSE <<Crs!Closed(bar)>>),
                      Append(cs, c))
<1>1. CASE "coarse" \in f
  <2>1. Crs!SoFar(Crs!OpenBar(c, Crs!Floor(c.ts)),
                  series \o Crs!RollOut(bar, Crs!Floor(c.ts)), Append(cs, c))
    BY <1>1, Constants, Crs!SoFarNext DEF BatchSoFar
  <2> QED BY <1>1, <2>1 DEF BatchSoFar
<1>2. CASE "coarse" \notin f
  <2>1. /\ Non!SoFar(bar, series, cs) /\ c \in Non!Candle
        /\ bar.start < Non!Floor(c.ts) /\ Non!Rolls(bar, Non!Floor(c.ts))
    BY <1>2, SameBars, NonWords DEF BatchSoFar
  <2>2. Non!SoFar(Non!OpenBar(c, Non!Floor(c.ts)),
                  series \o Non!RollOut(bar, Non!Floor(c.ts)), Append(cs, c))
    BY <2>1, Constants, Non!SoFarNext
  <2>3. <<Crs!Closed(bar)>> \o <<>> = <<Crs!Closed(bar)>>
    OBVIOUS
  <2> QED BY <1>2, <2>2, <2>3, NonWords DEF BatchSoFar
<1> QED BY <1>1, <1>2

LEMMA BatchForgets ==
    ASSUME NEW f, NEW bar, NEW series, NEW cs, BatchSoFar(f, bar, series, cs),
           NEW next \in Crs!Bar, next = [bar EXCEPT !.last = next.last]
    PROVE  BatchSoFar(f, next, series, cs)
<1>1. CASE "coarse" \in f
  BY <1>1, Constants, Crs!SoFarForgets DEF BatchSoFar
<1>2. CASE "coarse" \notin f
  <2>1. Non!SoFar(bar, series, cs) /\ next \in Non!Bar
    BY <1>2, SameBars DEF BatchSoFar
  <2>2. Non!SoFar(next, series, cs)
    BY <2>1, Constants, Non!SoFarForgets
  <2> QED BY <1>2, <2>2 DEF BatchSoFar
<1> QED BY <1>1, <1>2

\* Only the coarse stage's own last field tells a candle from the ticks it holds.
LEMMA ShowsForgets ==
    ASSUME NEW f, NEW bar, NEW series, NEW cs, NEW next \in Crs!Bar,
           IF "fine" \notin f THEN BatchSoFar(f, bar, series, cs)
           ELSE Crs!Outline(bar, series, cs),
           next = [bar EXCEPT !.last = next.last], "fine" \in f => Crs!Uncut(next.last)
    PROVE  Shows(f, next, series, cs)
<1>1. CASE "fine" \notin f
  <2>1. BatchSoFar(f, next, series, cs)
    BY <1>1, BatchForgets
  <2> QED BY <1>1, <2>1 DEF Shows
<1>2. CASE "fine" \in f
  <2>1. Crs!Outline(bar, series, cs) /\ bar \in Crs!Bar
    BY <1>2 DEF Crs!Outline
  <2>2. next.start = bar.start /\ next.close = bar.close /\ next.volume = bar.volume
    BY <2>1 DEF Crs!Bar
  <2>3. Crs!Outline(next, series, cs)
    BY <2>1, <2>2, Constants, Crs!OutlineFlat
  <2> QED BY <1>2, <2>3 DEF Shows
<1> QED BY <1>1, <1>2

\* The candle of one tick, to be handed on some time.
OneTick(t) == Fin!Closed(Fin!OpenBar(t, Fin!Floor(t.ts)))

\* The candle of one tick is the tick, moved to the start of its bucket.
LEMMA OneTickFacts ==
    ASSUME NEW t \in F!Ticks
    PROVE  /\ t \in Crs!Candle /\ t.ts \in Crs!Timestamps
           /\ OneTick(t) \in Crs!Candle
           /\ OneTick(t) = [t EXCEPT !.ts = Fin!Floor(t.ts)]
           /\ OneTick(t).ts = Fin!Floor(t.ts)
           /\ Crs!Floor(OneTick(t).ts) = Crs!Floor(t.ts)
           /\ Crs!Uncut(t.ts) => Crs!Uncut(OneTick(t).ts)
<1>1. t \in Crs!Candle /\ t.ts \in Crs!Timestamps
  BY TickIsCandle
<1>2. OneTick(t) = [t EXCEPT !.ts = Fin!Floor(t.ts)] /\ OneTick(t).ts = Fin!Floor(t.ts)
  BY <1>1 DEF OneTick, Fin!Closed, Fin!OpenBar, Crs!Candle
<1>3. OneTick(t) \in Crs!Candle
  BY TickBars, FineEmissionType DEF OneTick
<1> QED BY <1>1, <1>2, <1>3, NestedBuckets

\* The first tick.
LEMMA FirstShown ==
    ASSUME NEW f, NEW t \in F!Ticks, "fine" \in f => Crs!Uncut(t.ts)
    PROVE  WillShow(f, NoBar, <<>>, OneTick(t), Append(<<>>, t))
<1> DEFINE c == OneTick(t)
           b == Crs!OpenBar(t, Crs!Floor(t.ts))
           next == PushedBar(NoBar, c)
<1>1. /\ t \in Crs!Candle /\ c \in Crs!Candle /\ c = [t EXCEPT !.ts = c.ts]
      /\ Crs!Floor(c.ts) = Crs!Floor(t.ts)
      /\ "fine" \in f => Crs!Uncut(c.ts)
  BY OneTickFacts
<1>2. next \in Crs!Bar /\ next.last = c.ts
  BY <1>1, PushTypes
<1>3. next = Crs!OpenBar(c, Crs!Floor(c.ts)) /\ Emitted(f, NoBar, c) = <<>>
  BY DEF PushedBar, Joins, Emitted
<1>4. next = [b EXCEPT !.last = next.last]
  BY <1>1, <1>3 DEF Crs!OpenBar, Crs!Candle
<1>5. b \in Crs!Bar /\ b.start = Crs!Floor(t.ts) /\ b.close = t.close /\ b.volume = t.volume
  <2>1. b \in Crs!Bar
    BY <1>1, Constants, Crs!OpenBarType
  <2> QED BY <2>1 DEF Crs!OpenBar
<1>6. IF "fine" \notin f THEN BatchSoFar(f, b, <<>>, Append(<<>>, t))
      ELSE Crs!Outline(b, <<>>, Append(<<>>, t))
  <2>1. CASE "fine" \notin f
    BY <1>1, <2>1, BatchFirst
  <2>2. CASE "fine" \in f
    <3>1. Crs!Outline(b, <<>>, Append(<<>>, t))
      BY <1>1, <1>5, <2>2, Constants, Crs!OutlineFirst
    <3> QED BY <2>2, <3>1
  <2> QED BY <2>1, <2>2
<1> HIDE DEF b, next, c
<1>7. Shows(f, next, <<>>, Append(<<>>, t))
  BY <1>1, <1>2, <1>4, <1>6, ShowsForgets
<1>8. <<>> \o Emitted(f, NoBar, c) = <<>>
  BY <1>3
<1> QED BY <1>7, <1>8 DEF WillShow, next, c

\* A tick for the open fine bar: it makes no difference whether it is added to the
\* fine bar or to the coarse one.
LEMMA AbsorbTwice ==
    ASSUME NEW bar \in Crs!Bar \cup {NoBar}, NEW fine \in Crs!Bar, NEW t \in F!Ticks
    PROVE  LET c == Fin!Closed(fine)
               d == Fin!Closed(Fin!Absorb(fine, t))
               b == Crs!Absorb(PushedBar(bar, c), t)
           IN  /\ c \in Crs!Candle /\ d \in Crs!Candle
               /\ c.ts = fine.start /\ d.ts = fine.start
               /\ b \in Crs!Bar
               /\ PushedBar(bar, d) = [b EXCEPT !.last = fine.start]
<1> DEFINE c == Fin!Closed(fine)
           d == Fin!Closed(Fin!Absorb(fine, t))
           was == PushedBar(bar, c)
           b == Crs!Absorb(was, t)
<1>1. /\ t \in Crs!Candle
      /\ c \in Crs!Candle /\ d \in Crs!Candle
  <2>1. Fin!Absorb(fine, t) \in Crs!Bar /\ t \in Crs!Candle
    BY TickBars, TickIsCandle
  <2> QED BY <2>1, Constants, Fin!ClosedType, SameBars
<1>2. /\ c = [ts |-> fine.start, open |-> fine.open, high |-> fine.high,
              low |-> fine.low, close |-> fine.close, volume |-> fine.volume]
      /\ d = [ts |-> fine.start, open |-> fine.open,
              high |-> Crs!Greater(fine.high, t.high),
              low |-> Crs!Lesser(fine.low, t.low), close |-> t.close,
              volume |-> Crs!AddVolume(fine.volume, t.volume)]
  BY DEF Fin!Closed, Fin!Absorb, Fin!Greater, Fin!Lesser, Fin!AddVolume,
         Crs!Greater, Crs!Lesser, Crs!AddVolume, Crs!Bar
<1>3. was \in Crs!Bar /\ b \in Crs!Bar
  BY <1>1, PushTypes, Constants, Crs!AbsorbType
<1>4. PushedBar(bar, d) \in Crs!Bar
  BY <1>1, PushTypes
<1>5. c.ts = fine.start /\ d.ts = fine.start
  BY <1>2
<1>6. PushedBar(bar, d) = [b EXCEPT !.last = fine.start]
  <2>1. CASE Joins(bar, c)
    <3>1. /\ bar \in Crs!Bar
          /\ was = Crs!Absorb(bar, c) /\ PushedBar(bar, d) = Crs!Absorb(bar, d)
      BY <1>5, <2>1 DEF Joins, PushedBar
    <3>2. /\ bar.high \in Int /\ fine.high \in Int /\ t.high \in Int
          /\ bar.low \in Int /\ fine.low \in Int /\ t.low \in Int
          /\ bar.volume \in 0 .. Infinity /\ fine.volume \in 0 .. Infinity
          /\ t.volume \in 0 .. Infinity /\ Infinity \in Nat
      BY <1>1, <3>1, Constants DEF Crs!Bar, Crs!Candle, Crs!Volumes
    <3>3. /\ Crs!Greater(bar.high, Crs!Greater(fine.high, t.high))
                 = Crs!Greater(Crs!Greater(bar.high, fine.high), t.high)
          /\ Crs!Lesser(bar.low, Crs!Lesser(fine.low, t.low))
                 = Crs!Lesser(Crs!Lesser(bar.low, fine.low), t.low)
      BY <3>2 DEF Crs!Greater, Crs!Lesser
    <3>4. Crs!AddVolume(bar.volume, Crs!AddVolume(fine.volume, t.volume))
              = Crs!AddVolume(Crs!AddVolume(bar.volume, fine.volume), t.volume)
      BY <3>2 DEF Crs!AddVolume, Crs!Lesser
    <3>5. was = [bar EXCEPT !.high = Crs!Greater(bar.high, fine.high),
                            !.low = Crs!Lesser(bar.low, fine.low),
                            !.close = fine.close,
                            !.volume = Crs!AddVolume(bar.volume, fine.volume),
                            !.last = fine.start]
      BY <1>2, <3>1 DEF Crs!Absorb
    <3>6. b = [bar EXCEPT
                  !.high = Crs!Greater(Crs!Greater(bar.high, fine.high), t.high),
                  !.low = Crs!Lesser(Crs!Lesser(bar.low, fine.low), t.low),
                  !.close = t.close,
                  !.volume = Crs!AddVolume(Crs!AddVolume(bar.volume, fine.volume),
                                           t.volume),
                  !.last = t.ts]
      BY <3>1, <3>5 DEF Crs!Absorb, Crs!Bar
    <3>7. PushedBar(bar, d) =
              [bar EXCEPT
                  !.high = Crs!Greater(bar.high, Crs!Greater(fine.high, t.high)),
                  !.low = Crs!Lesser(bar.low, Crs!Lesser(fine.low, t.low)),
                  !.close = t.close,
                  !.volume = Crs!AddVolume(bar.volume,
                                           Crs!AddVolume(fine.volume, t.volume)),
                  !.last = fine.start]
      BY <1>2, <3>1 DEF Crs!Absorb
    <3> QED BY <3>1, <3>3, <3>4, <3>6, <3>7 DEF Crs!Bar
  <2>2. CASE ~Joins(bar, c)
    <3>1. /\ was = Crs!OpenBar(c, Crs!Floor(fine.start))
          /\ PushedBar(bar, d) = Crs!OpenBar(d, Crs!Floor(fine.start))
      BY <1>5, <2>2 DEF Joins, PushedBar
    <3> DEFINE start == Crs!Floor(fine.start)
    <3>2. was = [start |-> start, last |-> fine.start, open |-> fine.open,
                 high |-> fine.high, low |-> fine.low, close |-> fine.close,
                 volume |-> fine.volume]
      BY <1>2, <3>1 DEF Crs!OpenBar
    <3>3. PushedBar(bar, d) =
              [start |-> start, last |-> fine.start, open |-> fine.open,
               high |-> Crs!Greater(fine.high, t.high),
               low |-> Crs!Lesser(fine.low, t.low), close |-> t.close,
               volume |-> Crs!AddVolume(fine.volume, t.volume)]
      BY <1>2, <3>1 DEF Crs!OpenBar
    <3> HIDE DEF start, was
    <3>4. /\ was.start = start /\ was.open = fine.open /\ was.high = fine.high
          /\ was.low = fine.low /\ was.volume = fine.volume
      BY <3>2
    <3>5. /\ b.start = start /\ b.open = fine.open /\ b.close = t.close
          /\ b.high = Crs!Greater(fine.high, t.high)
          /\ b.low = Crs!Lesser(fine.low, t.low)
          /\ b.volume = Crs!AddVolume(fine.volume, t.volume)
      BY <1>3, <3>4 DEF Crs!Absorb, Crs!Bar
    <3> HIDE DEF b
    <3> QED BY <1>3, <3>3, <3>5 DEF Crs!Bar
  <2> QED BY <2>1, <2>2
<1> QED BY <1>1, <1>3, <1>5, <1>6

\* A tick of the bucket under way: its candle, handed on, shows one tick more.
LEMMA GrownShown ==
    ASSUME NEW f, NEW bar \in Crs!Bar \cup {NoBar}, NEW series, NEW fine \in Crs!Bar,
           NEW cs, WillShow(f, bar, series, Fin!Closed(fine), cs),
           NEW t \in F!Ticks, "fine" \in f => Crs!Uncut(t.ts),
           Fin!Floor(t.ts) = fine.start, cs[Len(cs)].ts <= t.ts
    PROVE  WillShow(f, bar, series, Fin!Closed(Fin!Absorb(fine, t)), Append(cs, t))
<1> DEFINE c == Fin!Closed(fine)
           d == Fin!Closed(Fin!Absorb(fine, t))
           was == PushedBar(bar, c)
           b == Crs!Absorb(was, t)
           next == PushedBar(bar, d)
           emitted == Emitted(f, bar, c)
<1>1. /\ t \in Crs!Candle /\ c \in Crs!Candle /\ d \in Crs!Candle
      /\ c.ts = fine.start /\ d.ts = fine.start /\ b \in Crs!Bar
      /\ next = [b EXCEPT !.last = fine.start]
      /\ Crs!Floor(fine.start) = Crs!Floor(t.ts)
      /\ "fine" \in f => Crs!Uncut(fine.start)
  BY AbsorbTwice, OneTickFacts
<1>2. /\ next \in Crs!Bar /\ next.last = fine.start
      /\ was \in Crs!Bar /\ was.start = Crs!Floor(t.ts)
  BY <1>1, PushTypes
<1>3. PushOk(f, bar, d) => PushOk(f, bar, c)
  BY <1>1 DEF PushOk
<1>4. Emitted(f, bar, d) = emitted
  BY <1>1 DEF Emitted, Joins
<1>5. /\ b.start = was.start /\ b.close = t.close
      /\ b.volume = Crs!AddVolume(was.volume, t.volume)
  BY <1>2 DEF Crs!Absorb, Crs!Bar
<1> SUFFICES ASSUME PushOk(f, bar, d)
             PROVE  Shows(f, next, series \o emitted, Append(cs, t))
  BY <1>4 DEF WillShow
<1>6. Shows(f, was, series \o emitted, cs)
  BY <1>3 DEF WillShow
<1> HIDE DEF c, d, was, b, next, emitted
<1>7. IF "fine" \notin f THEN BatchSoFar(f, b, series \o emitted, Append(cs, t))
      ELSE Crs!Outline(b, series \o emitted, Append(cs, t))
  <2>1. CASE "fine" \notin f
    <3>1. BatchSoFar(f, was, series \o emitted, cs)
      BY <1>6, <2>1 DEF Shows
    <3>2. BatchSoFar(f, Crs!Absorb(was, t), series \o emitted, Append(cs, t))
      BY <1>1, <1>2, <3>1, BatchSame
    <3> QED BY <2>1, <3>2 DEF b
  <2>2. CASE "fine" \in f
    <3>1. Crs!Outline(was, series \o emitted, cs)
      BY <1>6, <2>2 DEF Shows
    <3>2. Crs!Outline(b, series \o emitted, Append(cs, t))
      BY <1>1, <1>2, <1>5, <2>2, <3>1, Constants, Crs!OutlineSame
    <3> QED BY <2>2, <3>2
  <2> QED BY <2>1, <2>2
<1>8. next = [b EXCEPT !.last = next.last] /\ ("fine" \in f => Crs!Uncut(next.last))
  BY <1>1, <1>2
<1> QED BY <1>2, <1>7, <1>8, ShowsForgets

\* Between a bucket and the next there is no gap to fill.
LEMMA NoFillerBetween ==
    ASSUME NEW f, NEW bar \in Crs!Bar, NEW c, Crs!Floor(c.ts) = bar.start + Coarse
    PROVE  Emitted(f, bar, c) = <<Crs!Closed(bar)>>
<1>1. bar.start \in Int /\ Coarse \in Int /\ Coarse > 0 /\ TsMax \in Nat
  BY Constants DEF Crs!Bar, Crs!Timestamps
<1>2. bar # NoBar /\ ~Joins(bar, c)
  BY <1>1, Constants DEF Joins
<1>3. Crs!GapCount(bar.start, bar.start + Coarse) = 0
  BY <1>1 DEF Crs!GapCount, Crs!Lesser
<1>4. Crs!Fillers(bar.close, bar.start, bar.start + Coarse) = <<>>
  BY <1>3 DEF Crs!Fillers
<1>5. Crs!RollOut(bar, bar.start + Coarse) = <<Crs!Closed(bar)>>
  <2>1. <<Crs!Closed(bar)>> \o <<>> = <<Crs!Closed(bar)>>
    OBVIOUS
  <2> QED BY <1>4, <2>1 DEF Crs!RollOut
<1> QED BY <1>2, <1>5 DEF Emitted

\* A placeholder of the fine stage changes neither close nor volume ...
LEMMA FillerShown ==
    ASSUME NEW f, "fine" \in f, NEW bar, NEW series, NEW cs, Shows(f, bar, series, cs),
           bar.start = Crs!Floor(bar.last), NEW c \in Crs!Candle,
           c = Crs!Flat(bar.close, bar.last + Fine)
    PROVE  Shows(f, PushedBar(bar, c), series \o Emitted(f, bar, c), cs)
<1> DEFINE next == PushedBar(bar, c)
<1>1. /\ bar \in Crs!Bar /\ bar # NoBar /\ series \in Seq(Crs!Candle)
      /\ Crs!Outline(bar, series, cs) /\ Crs!Uncut(bar.last)
  <2>1. bar \in Crs!Bar /\ bar # NoBar /\ series \in Seq(Crs!Candle)
    BY ShowsTypes
  <2> QED BY <2>1 DEF Shows
<1>2. /\ c.ts = bar.last + Fine /\ c.close = bar.close /\ c.volume = 0
      /\ c.ts \in Crs!Timestamps /\ bar.last \in Crs!Timestamps
      /\ bar.start \in Int
  BY <1>1, Constants DEF Crs!Flat, Crs!Candle, Crs!Bar, Crs!Timestamps
<1>3. /\ Crs!Uncut(c.ts)
      /\ Crs!Floor(c.ts) \in {bar.start, bar.start + Coarse}
  BY <1>1, <1>2, NextFineBucket
<1>4. /\ next \in Crs!Bar /\ next.start = Crs!Floor(c.ts) /\ next.last = c.ts
      /\ next.close = bar.close
  BY <1>1, <1>2, PushTypes
<1>5. CASE Crs!Floor(c.ts) = bar.start
  <2>1. next = Crs!Absorb(bar, c) /\ Emitted(f, bar, c) = <<>>
    BY <1>1, <1>5 DEF PushedBar, Joins, Emitted
  <2>2. next.volume = bar.volume
    <3>1. next.volume = Crs!AddVolume(bar.volume, 0)
      BY <1>1, <1>2, <2>1 DEF Crs!Absorb, Crs!Bar
    <3> QED BY <1>1, <3>1, Constants DEF Crs!AddVolume, Crs!Lesser, Crs!Bar, Crs!Volumes
  <2> HIDE DEF next
  <2>3. Crs!Outline(next, series, cs)
    BY <1>1, <1>4, <1>5, <2>2, Constants, Crs!OutlineFlat
  <2>4. series \o <<>> = series
    BY <1>1
  <2> QED BY <1>3, <1>4, <2>1, <2>3, <2>4 DEF Shows, next
<1>6. CASE Crs!Floor(c.ts) = bar.start + Coarse
  <2>1. Crs!Floor(c.ts) # bar.start
    BY <1>2, <1>6, Constants
  <2>2. /\ next = Crs!OpenBar(c, Crs!Floor(c.ts))
        /\ Emitted(f, bar, c) = <<Crs!Closed(bar)>>
    BY <1>1, <1>6, <2>1, NoFillerBetween DEF PushedBar, Joins
  <2>3. next.volume = 0
    BY <1>2, <2>2 DEF Crs!OpenBar
  <2> HIDE DEF next
  <2>4. Crs!Outline(next, Append(series, Crs!Closed(bar)), cs)
    BY <1>1, <1>4, <1>6, <2>3, Constants, Crs!OutlineFlatNext
  <2>5. series \o <<Crs!Closed(bar)>> = Append(series, Crs!Closed(bar))
    <3>1. Crs!Closed(bar) \in Crs!Candle
      BY <1>1, Constants, Crs!ClosedType
    <3> QED BY <1>1, <3>1, AppendIsConcat
  <2> QED BY <1>3, <1>4, <2>2, <2>4, <2>5 DEF Shows, next
<1> QED BY <1>3, <1>5, <1>6

\* ... and the tick behind the last of them, or behind the candle that was closed,
\* will be the next to show.
LEMMA ArrivedShown ==
    ASSUME Crs!CapBelowRange,
           NEW f, NEW bar, NEW series, NEW cs, Shows(f, bar, series, cs),
           bar.start = Crs!Floor(bar.last), NEW t \in F!Ticks, cs[Len(cs)].ts <= t.ts,
           "fine" \in f => Crs!Uncut(t.ts) /\ Fin!Floor(t.ts) = bar.last + Fine
    PROVE  WillShow(f, bar, series, OneTick(t), Append(cs, t))
<1> DEFINE c == OneTick(t)
           next == PushedBar(bar, c)
           nx == Crs!Floor(t.ts)
<1>1. /\ t \in Crs!Candle /\ c \in Crs!Candle /\ c = [t EXCEPT !.ts = c.ts]
      /\ c.ts = Fin!Floor(t.ts) /\ c.ts \in Crs!Timestamps
      /\ Crs!Floor(c.ts) = nx /\ nx \in Crs!Timestamps /\ nx \in Int
      /\ "fine" \in f => Crs!Uncut(c.ts)
  BY OneTickFacts, Constants, Crs!FloorFacts DEF Crs!Candle, Crs!Timestamps
<1>2. /\ bar \in Crs!Bar /\ bar # NoBar /\ series \in Seq(Crs!Candle)
      /\ bar.start \in Int
  BY ShowsTypes, Constants DEF Crs!Bar, Crs!Timestamps
<1>3. /\ next \in Crs!Bar /\ next.start = nx /\ next.last = c.ts
  BY <1>1, <1>2, PushTypes
<1> SUFFICES ASSUME PushOk(f, bar, c)
             PROVE  Shows(f, next, series \o Emitted(f, bar, c), Append(cs, t))
  BY DEF WillShow
<1>4. CASE nx = bar.start
  <2> DEFINE b == Crs!Absorb(bar, t)
  <2>1. next = Crs!Absorb(bar, c) /\ Emitted(f, bar, c) = <<>>
    BY <1>1, <1>2, <1>4 DEF PushedBar, Joins, Emitted
  <2>2. b \in Crs!Bar
    BY <1>1, <1>2, Constants, Crs!AbsorbType
  <2>3. /\ b.start = bar.start /\ b.close = t.close
        /\ b.volume = Crs!AddVolume(bar.volume, t.volume)
    BY <1>2 DEF Crs!Absorb, Crs!Bar
  <2>4. next = [b EXCEPT !.last = next.last]
    BY <1>1, <1>2, <2>1 DEF Crs!Absorb, Crs!Bar, Crs!Candle
  <2>5. series \o <<>> = series
    BY <1>2
  <2> HIDE DEF b, c, next, nx
  <2>6. IF "fine" \notin f THEN BatchSoFar(f, b, series, Append(cs, t))
        ELSE Crs!Outline(b, series, Append(cs, t))
    <3>1. CASE "fine" \notin f
      <4>1. BatchSoFar(f, bar, series, cs)
        BY <3>1 DEF Shows
      <4>2. BatchSoFar(f, Crs!Absorb(bar, t), series, Append(cs, t))
        BY <1>1, <1>4, <4>1, BatchSame DEF nx
      <4> QED BY <3>1, <4>2 DEF b
    <3>2. CASE "fine" \in f
      <4>1. Crs!Outline(bar, series, cs)
        BY <3>2 DEF Shows
      <4>2. Crs!Outline(b, series, Append(cs, t))
        BY <1>1, <1>4, <2>2, <2>3, <3>2, <4>1, Constants, Crs!OutlineSame DEF nx
      <4> QED BY <3>2, <4>2
    <3> QED BY <3>1, <3>2
  <2> QED BY <1>1, <1>3, <2>1, <2>4, <2>5, <2>6, ShowsForgets
<1>5. CASE nx # bar.start
  <2> DEFINE b == Crs!OpenBar(t, nx)
             emitted == Emitted(f, bar, c)
  <2>1. /\ next = Crs!OpenBar(c, nx) /\ nx > bar.start
        /\ Crs!Finite(bar) /\ ("coarse" \in f => Crs!Rolls(bar, nx))
        /\ emitted = IF "coarse" \in f THEN Crs!RollOut(bar, nx)
                     ELSE <<Crs!Closed(bar)>>
    BY <1>1, <1>2, <1>5 DEF PushedBar, Joins, Emitted, PushOk
  <2>2. b \in Crs!Bar
    BY <1>1, Constants, Crs!OpenBarType
  <2>3. b.start = nx /\ b.close = t.close /\ b.volume = t.volume
    BY DEF Crs!OpenBar
  <2>4. next = [b EXCEPT !.last = next.last]
    BY <1>1, <2>1 DEF Crs!OpenBar, Crs!Candle
  <2>6. nx = bar.start + Coarse => emitted = <<Crs!Closed(bar)>>
    BY <1>1, <1>2, NoFillerBetween
  <2> HIDE DEF b, c, next, nx, emitted
  <2>5. IF "fine" \notin f THEN BatchSoFar(f, b, series \o emitted, Append(cs, t))
        ELSE Crs!Outline(b, series \o emitted, Append(cs, t))
    <3>1. CASE "fine" \notin f
      <4>1. BatchSoFar(f, bar, series, cs)
        BY <3>1 DEF Shows
      <4>2. bar.start < nx
        BY <1>1, <1>2, <2>1
      <4>3. BatchSoFar(f, Crs!OpenBar(t, Crs!Floor(t.ts)),
                       series \o (IF "coarse" \in f THEN Crs!RollOut(bar, Crs!Floor(t.ts))
                                  ELSE <<Crs!Closed(bar)>>),
                       Append(cs, t))
        BY <1>1, <2>1, <4>1, <4>2, BatchNext DEF nx
      <4> QED BY <2>1, <3>1, <4>3 DEF b, nx
    <3>2. CASE "fine" \in f
      <4>1. Crs!Outline(bar, series, cs) /\ Crs!Uncut(bar.last)
        BY <3>2 DEF Shows
      <4>2. nx = bar.start + Coarse
        <5>1. bar.last \in Crs!Timestamps
          BY <1>2 DEF Crs!Bar
        <5>2. Crs!Floor(c.ts) \in {bar.start, bar.start + Coarse}
          BY <1>1, <3>2, <4>1, <5>1, NextFineBucket
        <5> QED BY <1>1, <1>5, <5>2
      <4>3. Crs!Outline(b, Append(series, Crs!Closed(bar)), Append(cs, t))
        BY <1>1, <2>2, <2>3, <3>2, <4>1, <4>2, Constants, Crs!OutlineNext DEF nx
      <4>4. series \o <<Crs!Closed(bar)>> = Append(series, Crs!Closed(bar))
        <5>1. Crs!Closed(bar) \in Crs!Candle
          BY <1>2, Constants, Crs!ClosedType
        <5> QED BY <1>2, <5>1, AppendIsConcat
      <4> QED BY <2>6, <3>2, <4>2, <4>3, <4>4
    <3> QED BY <3>1, <3>2
  <2> QED BY <1>1, <1>3, <2>4, <2>5, ShowsForgets DEF emitted
<1> QED BY <1>4, <1>5

-----------------------------------------------------------------------------
(* The batch that rolling up directly is compared with. *)

\* The direct batches are those the lemmas speak of.
LEMMA SameBatch == \A cs : Direct!Batch(cs) = Non!Batch(cs)
<1>1. \A S : Direct!Max(S) = Non!Max(S) /\ Direct!Min(S) = Non!Min(S)
  BY DEF Direct!Max, Non!Max, Direct!Min, Non!Min
<1>2. \A ts : Direct!StartOf(ts) = Non!StartOf(ts)
  BY <1>1 DEF Direct!StartOf, Non!StartOf, Direct!BucketStarts, Non!BucketStarts,
              Direct!Timestamps, Non!Timestamps
<1>3. \A cs : Direct!Grid(cs) = Non!Grid(cs)
  BY <1>1, <1>2 DEF Direct!Grid, Non!Grid, Direct!Used, Non!Used
<1>4. \A b, cs : /\ Direct!Inside(b, cs) = Non!Inside(b, cs)
                 /\ Direct!Before(b, cs) = Non!Before(b, cs)
  BY <1>2 DEF Direct!Inside, Non!Inside, Direct!Before, Non!Before
<1>5. \A I, cs : /\ Direct!Newest(I, cs) = Non!Newest(I, cs)
                 /\ Direct!Oldest(I, cs) = Non!Oldest(I, cs)
  BY <1>1 DEF Direct!Newest, Non!Newest, Direct!Oldest, Non!Oldest
<1>6. \A b, cs : Direct!VolumeSeen(b, cs) = Non!VolumeSeen(b, cs)
  BY <1>4 DEF Direct!VolumeSeen, Non!VolumeSeen
<1>7. \A b, cs : Direct!CandleOf(b, cs) = Non!CandleOf(b, cs)
  BY <1>1, <1>4, <1>5, <1>6
  DEF Direct!CandleOf, Non!CandleOf, Direct!Reduce, Non!Reduce, Direct!Lesser,
      Non!Lesser, Direct!Flat, Non!Flat
<1>8. \A S : Direct!Ascending(S) = Non!Ascending(S)
  BY DEF Direct!Ascending, Non!Ascending, Direct!Cardinality, Non!Cardinality
<1> QED BY <1>3, <1>7, <1>8 DEF Direct!Batch, Non!Batch

LEMMA SameFillingBatch == \A cs : DirectFilling!Batch(cs) = Crs!Batch(cs)
<1>1. \A S : DirectFilling!Max(S) = Crs!Max(S) /\ DirectFilling!Min(S) = Crs!Min(S)
  BY DEF DirectFilling!Max, Crs!Max, DirectFilling!Min, Crs!Min
<1>2. \A ts : DirectFilling!StartOf(ts) = Crs!StartOf(ts)
  BY <1>1 DEF DirectFilling!StartOf, Crs!StartOf, DirectFilling!BucketStarts, Crs!BucketStarts,
              DirectFilling!Timestamps, Crs!Timestamps
<1>3. \A cs : DirectFilling!Grid(cs) = Crs!Grid(cs)
  BY <1>1, <1>2 DEF DirectFilling!Grid, Crs!Grid, DirectFilling!Used, Crs!Used
<1>4. \A b, cs : /\ DirectFilling!Inside(b, cs) = Crs!Inside(b, cs)
                 /\ DirectFilling!Before(b, cs) = Crs!Before(b, cs)
  BY <1>2 DEF DirectFilling!Inside, Crs!Inside, DirectFilling!Before, Crs!Before
<1>5. \A I, cs : /\ DirectFilling!Newest(I, cs) = Crs!Newest(I, cs)
                 /\ DirectFilling!Oldest(I, cs) = Crs!Oldest(I, cs)
  BY <1>1 DEF DirectFilling!Newest, Crs!Newest, DirectFilling!Oldest, Crs!Oldest
<1>6. \A b, cs : DirectFilling!VolumeSeen(b, cs) = Crs!VolumeSeen(b, cs)
  BY <1>4 DEF DirectFilling!VolumeSeen, Crs!VolumeSeen
<1>7. \A b, cs : DirectFilling!CandleOf(b, cs) = Crs!CandleOf(b, cs)
  BY <1>1, <1>4, <1>5, <1>6
  DEF DirectFilling!CandleOf, Crs!CandleOf, DirectFilling!Reduce, Crs!Reduce, DirectFilling!Lesser,
      Crs!Lesser, DirectFilling!Flat, Crs!Flat
<1>8. \A S : DirectFilling!Ascending(S) = Crs!Ascending(S)
  BY DEF DirectFilling!Ascending, Crs!Ascending, DirectFilling!Cardinality, Crs!Cardinality
<1> QED BY <1>3, <1>7, <1>8 DEF DirectFilling!Batch, Crs!Batch

DirectBatch(f, cs) == IF f = {} THEN Direct!Batch(cs) ELSE DirectFilling!Batch(cs)
SameOutline(s, d) ==
    /\ Len(s) = Len(d)
    /\ \A i \in DOMAIN s : /\ s[i].ts = d[i].ts
                           /\ s[i].close = d[i].close
                           /\ s[i].volume = d[i].volume

\* At the end, the candles and the last bar are what the ticks amount to.
LEMMA ShownInTheEnd ==
    ASSUME NEW f \in SUBSET {"fine", "coarse"}, NEW bar, NEW series, NEW cs,
           Shows(f, bar, series, cs), bar.start = Crs!Floor(cs[Len(cs)].ts)
    PROVE  LET all == series \o <<Crs!Closed(bar)>>
           IN  /\ "fine" \notin f => all = DirectBatch(f, cs)
               /\ SameOutline(all, DirectBatch(f, cs))
<1> DEFINE all == Append(series, Crs!Closed(bar))
           direct == DirectBatch(f, cs)
<1>1. /\ bar \in Crs!Bar /\ series \in Seq(Crs!Candle)
      /\ direct = IF f = {} THEN Non!Batch(cs) ELSE Crs!Batch(cs)
  BY ShowsTypes, SameBatch, SameFillingBatch DEF DirectBatch
<1>2. series \o <<Crs!Closed(bar)>> = all
  <2>1. Crs!Closed(bar) \in Crs!Candle
    BY <1>1, Constants, Crs!ClosedType
  <2> QED BY <1>1, <2>1, AppendIsConcat
<1>3. CASE "fine" \notin f
  <2>1. all = direct
    <3>1. CASE "coarse" \in f
      <4>1. Crs!IsBatch(all, cs)
        BY <1>3, <3>1 DEF Shows, BatchSoFar, Crs!SoFar
      <4>2. all = Crs!Batch(cs)
        BY <4>1, Constants, Crs!BatchIs
      <4>3. f # {}
        BY <3>1
      <4> HIDE DEF all, direct
      <4> QED BY <1>1, <4>2, <4>3
    <3>2. CASE "coarse" \notin f
      <4>1. Non!IsBatch(Append(series, Non!Closed(bar)), cs)
        BY <1>3, <3>2 DEF Shows, BatchSoFar, Non!SoFar
      <4>2. Append(series, Non!Closed(bar)) = Non!Batch(cs)
        BY <4>1, Constants, Non!BatchIs
      <4>3. all = Non!Batch(cs)
        BY <4>2, NonWords
      <4>4. f = {}
        BY <1>3, <3>2
      <4> HIDE DEF all, direct
      <4> QED BY <1>1, <4>3, <4>4
    <3> QED BY <3>1, <3>2
  <2> HIDE DEF all, direct
  <2>2. SameOutline(all, direct)
    BY <2>1 DEF SameOutline
  <2> QED BY <1>2, <2>1, <2>2 DEF direct
<1>4. CASE "fine" \in f
  <2>1. Crs!Outline(bar, series, cs)
    BY <1>4 DEF Shows
  <2>2. /\ Len(all) = Len(Crs!Batch(cs))
        /\ \A i \in DOMAIN all : /\ all[i].ts = Crs!Batch(cs)[i].ts
                                 /\ all[i].close = Crs!Batch(cs)[i].close
                                 /\ all[i].volume = Crs!Batch(cs)[i].volume
    BY <2>1, Constants, Crs!OutlineIsThatOfBatch
  <2>4. f # {}
    BY <1>4
  <2> HIDE DEF all, direct
  <2>3. SameOutline(all, direct)
    BY <1>1, <2>2, <2>4 DEF SameOutline
  <2> QED BY <1>2, <1>4, <2>3 DEF direct
<1> QED BY <1>3, <1>4

-----------------------------------------------------------------------------
(* The pipeline keeps it so. *)

LastTick == fed[Len(fed)]
Earlier == SubSeq(fed, 1, Len(fed) - 1)

\* The ticks but the last, and the last.
LEMMA TickAppended ==
    ASSUME NEW ts \in Seq(F!Ticks), NEW t \in F!Ticks
    PROVE  LET all == Append(ts, t)
           IN  /\ all # <<>> /\ all[Len(all)] = t
               /\ SubSeq(all, 1, Len(all) - 1) = ts
  OBVIOUS

LEMMA TicksSplit ==
    ASSUME NEW ts \in Seq(F!Ticks), ts # <<>>
    PROVE  /\ ts[Len(ts)] \in F!Ticks
           /\ ts = Append(SubSeq(ts, 1, Len(ts) - 1), ts[Len(ts)])
  OBVIOUS

\* Candles that follow one of some time and close without a gap, up to the next.
Follow(f, ts, close, cs, next) ==
    IF "fine" \notin f THEN cs = <<>>
    ELSE /\ \A i \in 1 .. Len(cs) : cs[i] = Crs!Flat(close, ts + i * Fine)
         /\ next = ts + (Len(cs) + 1) * Fine

\* Without their first, the candles follow that one.
LEMMA FollowTail ==
    ASSUME NEW f, NEW ts \in Int, NEW close, NEW cs \in Seq(Crs!Candle), cs # <<>>,
           NEW next, "fine" \in f, Follow(f, ts, close, cs, next)
    PROVE  /\ cs[1] = Crs!Flat(close, ts + Fine)
           /\ Follow(f, cs[1].ts, cs[1].close, Tail(cs), next)
<1> DEFINE n == Len(cs)
<1>1. /\ n \in Nat /\ n >= 1 /\ Len(Tail(cs)) = n - 1 /\ Fine \in Int
      /\ \A i \in 1 .. n - 1 : Tail(cs)[i] = cs[i + 1] /\ i + 1 \in 1 .. n
  BY Constants
<1>2. /\ \A i \in 1 .. n : cs[i] = Crs!Flat(close, ts + i * Fine)
      /\ next = ts + (n + 1) * Fine
  BY DEF Follow
<1> HIDE DEF n
<1>3. cs[1] = Crs!Flat(close, ts + Fine)
  BY <1>1, <1>2
<1>4. cs[1].ts = ts + Fine /\ cs[1].close = close
  BY <1>3 DEF Crs!Flat
<1>5. ASSUME NEW i \in 1 .. n - 1
      PROVE  Tail(cs)[i] = Crs!Flat(close, (ts + Fine) + i * Fine)
  <2>1. ts + (i + 1) * Fine = (ts + Fine) + i * Fine
    BY <1>1
  <2> QED BY <1>1, <1>2, <2>1
<1>6. next = (ts + Fine) + ((n - 1) + 1) * Fine
  BY <1>1, <1>2
<1> QED BY <1>1, <1>3, <1>4, <1>5, <1>6 DEF Follow

\* The placeholders of the fine stage do.
LEMMA FillersFollow ==
    ASSUME Crs!CapBelowRange, NEW f, "fine" \in f, NEW bar \in Crs!Bar,
           NEW s \in Crs!Timestamps, Crs!Uncut(s), bar.start = Fin!Floor(s),
           NEW t \in Crs!Timestamps, Crs!Uncut(t),
           Fin!Floor(s) < Fin!Floor(t), Fin!Fillable(Fin!Floor(s), Fin!Floor(t))
    PROVE  Follow(f, bar.start, bar.close,
                  Fin!Fillers(bar.close, bar.start, Fin!Floor(t)), Fin!Floor(t))
<1> DEFINE n == Fin!GapCount(Fin!Floor(s), Fin!Floor(t))
<1>1. Fin!CapBelowRange
  <2>1. /\ MaxGap \in Nat /\ Fine \in Nat /\ Coarse \in Nat /\ Fine <= Coarse
        /\ TsMax \in Nat
    BY Constants, TimeframeAssumption
  <2>2. MaxGap * Fine <= MaxGap * Coarse
    BY <2>1
  <2>3. MaxGap * Fine \in Int /\ MaxGap * Coarse \in Int /\ MaxGap * Coarse < TsMax
    BY <2>1 DEF Crs!CapBelowRange
  <2> QED BY <2>1, <2>2, <2>3 DEF Fin!CapBelowRange
<1>2. Fin!Uncut(s) /\ Fin!Uncut(t) /\ s \in Fin!Timestamps /\ t \in Fin!Timestamps
      /\ Fin!Floor(t) \in Crs!Timestamps
  BY NestedBuckets, SameBars
<1>3. n \in Nat /\ Fin!Floor(t) = bar.start + Fine + n * Fine
  BY <1>1, <1>2, Constants, Fin!GapIsFilled
<1>4. /\ Len(Fin!Fillers(bar.close, bar.start, Fin!Floor(t))) = n
      /\ \A i \in 1 .. n : Fin!Fillers(bar.close, bar.start, Fin!Floor(t))[i]
                               = Crs!Flat(bar.close, bar.start + i * Fine)
  BY <1>2, FineFillers
<1>5. bar.start + (n + 1) * Fine = bar.start + Fine + n * Fine
  BY <1>3, Constants DEF Crs!Bar, Crs!Timestamps
<1> HIDE DEF n
<1> QED BY <1>3, <1>4, <1>5 DEF Follow

Nothing == fed = <<>> /\ rOpen = NoBar /\ queue = <<>> /\ output = <<>>

\* While the candles the last tick closed are handed on: the first of them, or the
\* coarse bar they follow, will show the ticks before it.
UnderWay ==
    /\ fOpen = Fin!OpenBar(LastTick, Fin!Floor(LastTick.ts))
    /\ Earlier[Len(Earlier)].ts <= LastTick.ts
    /\ \/ /\ WillShow(filler, rOpen, output, queue[1], Earlier)
          /\ Follow(filler, queue[1].ts, queue[1].close, Tail(queue), fOpen.start)
       \/ /\ rOpen # NoBar
          /\ Shows(filler, rOpen, output, Earlier)
          /\ Follow(filler, rOpen.last, rOpen.close, queue, fOpen.start)

Feeding ==
    phase = "feeding" =>
        /\ fOpen = NoBar => Nothing
        /\ fOpen # NoBar =>
               /\ fed # <<>> /\ fOpen.last = LastTick.ts
               /\ queue = <<>> =>
                      WillShow(filler, rOpen, output, Fin!Closed(fOpen), fed)
               /\ queue # <<>> => UnderWay

Ending ==
    phase = "ending" =>
        \/ Nothing
        \/ /\ fed # <<>> /\ queue = <<>> /\ rOpen # NoBar
           /\ Shows(filler, rOpen, output, fed)
           /\ rOpen.start = Crs!Floor(LastTick.ts)
        \/ /\ fed # <<>> /\ Len(queue) = 1
           /\ WillShow(filler, rOpen, output, queue[1], fed)
           /\ Crs!Floor(queue[1].ts) = Crs!Floor(LastTick.ts)

\* No tick falls into the bucket that the lowest timestamp cuts short, if the fine
\* stage fills gaps.
NoTickIsCut == "fine" \in filler => \A ts \in TickTimes : Crs!Uncut(ts)

ShowInv == PipeInv /\ filler \in SUBSET {"fine", "coarse"} /\ NoTickIsCut
           /\ Feeding /\ Ending /\ Commutes

\* A tick is fed.
LEMMA ShowFeed ==
    ASSUME Crs!CapBelowRange, ShowInv, Feed
    PROVE  Feeding'
<1>1. /\ phase = "feeding" /\ queue = <<>> /\ rOpen' = rOpen /\ output' = output
      /\ filler' = filler /\ phase' = phase
  BY FeedCases
<1>2. /\ fOpen \in Crs!Bar \cup {NoBar} /\ rOpen \in Crs!Bar \cup {NoBar}
      /\ fed \in Seq(F!Ticks)
      /\ fOpen # NoBar => fOpen.start = Fin!Floor(fOpen.last)
  BY DEF ShowInv, PipeInv, PipeTypes, FineStart
<1>3. /\ fOpen = NoBar => Nothing
      /\ fOpen # NoBar =>
             /\ fed # <<>> /\ fOpen.last = LastTick.ts
             /\ WillShow(filler, rOpen, output, Fin!Closed(fOpen), fed)
  BY <1>1 DEF ShowInv, Feeding
<1>4. ASSUME NEW t \in F!Ticks, "fine" \in filler PROVE Crs!Uncut(t.ts)
  BY <1>4, TickIsCandle DEF ShowInv, NoTickIsCut
<1>5. CASE Idles
  <2>1. fed' = fed /\ fOpen' = fOpen /\ queue' = <<>>
    BY <1>5 DEF Idles
  <2> QED BY <1>1, <1>3, <2>1 DEF Feeding, Nothing, LastTick
<1>6. ASSUME NEW t \in F!Ticks, fed' = Append(fed, t), Opens(t) PROVE Feeding'
  <2>1. /\ fed = <<>> /\ rOpen = NoBar /\ output = <<>>
    BY <1>3, <1>6 DEF Opens, Nothing
  <2>2. /\ fOpen' = Fin!OpenBar(t, Fin!Floor(t.ts)) /\ queue' = <<>>
        /\ fOpen' # NoBar /\ fOpen'.last = t.ts
    BY <1>6, TickBars DEF Opens
  <2>3. fed' # <<>> /\ LastTick' = t
    BY <1>2, <1>6, TickAppended DEF LastTick
  <2>4. WillShow(filler, NoBar, <<>>, OneTick(t), Append(<<>>, t))
    BY <1>4, FirstShown
  <2>5. WillShow(filler', rOpen', output', Fin!Closed(fOpen'), fed')
    BY <1>1, <1>6, <2>1, <2>2, <2>4 DEF OneTick
  <2> QED BY <2>2, <2>3, <2>5 DEF Feeding
<1>7. ASSUME NEW t \in F!Ticks, fed' = Append(fed, t), Grows(t) PROVE Feeding'
  <2>1. /\ fOpen # NoBar /\ fOpen \in Crs!Bar /\ Fin!Floor(t.ts) = fOpen.start
        /\ fOpen' = Fin!Absorb(fOpen, t) /\ queue' = <<>>
        /\ fOpen' # NoBar /\ fOpen'.last = t.ts
    BY <1>2, <1>7, TickBars DEF Grows
  <2>2. fed' # <<>> /\ LastTick' = t
    BY <1>2, <1>7, TickAppended DEF LastTick
  <2>3. fed[Len(fed)].ts <= t.ts
    <3>1. fOpen.last \in Int /\ t.ts \in Int
      BY <2>1, TickIsCandle, Constants DEF Crs!Bar, Crs!Timestamps
    <3> QED BY <1>3, <1>7, <2>1, <3>1 DEF Grows, LastTick
  <2>4. WillShow(filler, rOpen, output, Fin!Closed(Fin!Absorb(fOpen, t)), Append(fed, t))
    BY <1>2, <1>3, <1>4, <2>1, <2>3, GrownShown
  <2>5. WillShow(filler', rOpen', output', Fin!Closed(fOpen'), fed')
    BY <1>1, <1>7, <2>1, <2>4
  <2> QED BY <2>1, <2>2, <2>5 DEF Feeding
<1>8. ASSUME NEW t \in F!Ticks, fed' = Append(fed, t), RollsOver(t) PROVE Feeding'
  <2> DEFINE next == Fin!Floor(t.ts)
             c == Fin!Closed(fOpen)
             fs == Fin!Fillers(fOpen.close, fOpen.start, next)
  <2>1. /\ fOpen # NoBar /\ fOpen \in Crs!Bar /\ next > fOpen.start
        /\ next \in Crs!Timestamps /\ next \in Int
        /\ "fine" \in filler => Fin!Fillable(fOpen.start, next)
        /\ fOpen' = Fin!OpenBar(t, next)
        /\ fOpen' # NoBar /\ fOpen'.last = t.ts /\ fOpen'.start = next
        /\ queue' = FineEmission(fOpen, next)
    <3>1. next \in Crs!Timestamps /\ next \in Int
      BY TickBars, Constants DEF Crs!Timestamps
    <3> QED BY <1>2, <1>8, <3>1, TickBars DEF RollsOver
  <2>2. /\ fed # <<>> /\ fed' # <<>> /\ LastTick' = t /\ Earlier' = fed
        /\ LastTick \in F!Ticks /\ LastTick.ts = fOpen.last
    BY <1>2, <1>3, <1>8, <2>1, TickAppended, TicksSplit DEF LastTick, Earlier
  <2>3. /\ fOpen.last \in Crs!Timestamps /\ fOpen.last \in Int
        /\ t.ts \in Crs!Timestamps /\ t.ts \in Int /\ fOpen.start \in Int
        /\ c \in Crs!Candle /\ c.ts = fOpen.start /\ c.close = fOpen.close
        /\ fs \in Seq(Crs!Candle)
    BY <2>1, TickIsCandle, FineEmissionType, Constants
    DEF Crs!Bar, Crs!Timestamps, Fin!Closed
  <2>4. Earlier'[Len(Earlier')].ts <= LastTick'.ts
    <3>1. fed[Len(fed)].ts = fOpen.last
      BY <2>2 DEF LastTick
    <3>2. fOpen.last <= t.ts
      <4> SUFFICES ASSUME t.ts < fOpen.last PROVE FALSE
        BY <2>3
      <4>1. Fin!Floor(t.ts) <= Fin!Floor(fOpen.last)
        BY <2>3, Constants, Fin!FloorMonotone, SameBars
      <4> QED BY <1>2, <2>1, <2>3, <4>1
    <3> QED BY <2>2, <3>1, <3>2
  <2>5. queue' # <<>> /\ queue'[1] = c
        /\ Tail(queue') = IF "fine" \in filler THEN fs ELSE <<>>
    BY <2>1, <2>3 DEF FineEmission
  <2>6. WillShow(filler', rOpen', output', queue'[1], Earlier')
    BY <1>1, <1>3, <2>1, <2>2, <2>5
  <2>7. Follow(filler', queue'[1].ts, queue'[1].close, Tail(queue'), fOpen'.start)
    <3>1. CASE "fine" \notin filler
      BY <1>1, <2>5, <3>1 DEF Follow
    <3>2. CASE "fine" \in filler
      <4>2. Crs!Uncut(fOpen.last) /\ Crs!Uncut(t.ts)
        BY <1>4, <2>2, <3>2
      <4>3. fOpen.start = Fin!Floor(fOpen.last)
        BY <1>2, <2>1
      <4>4. Fin!Floor(fOpen.last) < next
        BY <2>1, <2>3, <4>3
      <4>5. Follow(filler, fOpen.start, fOpen.close, fs, next)
        BY <2>1, <2>3, <3>2, <4>2, <4>3, <4>4, FillersFollow
      <4> QED BY <1>1, <2>1, <2>3, <2>5, <3>2, <4>5
    <3> QED BY <3>1, <3>2
  <2>8. fOpen' = Fin!OpenBar(LastTick', Fin!Floor(LastTick'.ts))
    BY <2>1, <2>2
  <2>9. UnderWay'
    BY <2>4, <2>6, <2>7, <2>8 DEF UnderWay
  <2> QED BY <2>1, <2>2, <2>5, <2>9 DEF Feeding
<1> QED BY <1>5, <1>6, <1>7, <1>8, FeedCases

\* A candle is handed on while ticks arrive.
LEMMA ShowForward ==
    ASSUME Crs!CapBelowRange, ShowInv, Forward, phase = "feeding"
    PROVE  Feeding'
<1> DEFINE c == queue[1]
<1>1. /\ fOpen \in Crs!Bar \cup {NoBar} /\ rOpen \in Crs!Bar \cup {NoBar}
      /\ fed \in Seq(F!Ticks) /\ queue \in Seq(Crs!Candle)
      /\ rOpen # NoBar => rOpen.start = Crs!Floor(rOpen.last)
      /\ PipeTypes
  BY DEF ShowInv, PipeInv, PipeTypes, CoarseStart
<1>2. /\ queue # <<>> /\ queue' = Tail(queue) /\ Head(queue) = c
      /\ fOpen' = fOpen /\ fed' = fed /\ filler' = filler
      /\ Takes(c) \/ Fails(c)
  <2>1. queue # <<>> => Head(queue) = c
    BY <1>1
  <2> QED BY <1>1, <2>1, ForwardCases
<1>3. c \in Crs!Candle
  BY <1>1, <1>2
<1> HIDE DEF c
<1>4. CASE Fails(c)
  BY <1>4 DEF Fails, Feeding
<1>5. CASE Takes(c)
  <2>1. /\ rOpen' = PushedBar(rOpen, c) /\ PushOk(filler, rOpen, c)
        /\ output' = output \o Emitted(filler, rOpen, c)
    BY <1>5 DEF Takes
  <2>2. /\ rOpen' # NoBar /\ rOpen'.start = Crs!Floor(c.ts)
        /\ rOpen'.last = c.ts /\ rOpen'.close = c.close
    BY <1>1, <1>3, <2>1, PushTypes
  <2>3. /\ fOpen # NoBar /\ fed # <<>> /\ fOpen.last = LastTick.ts /\ UnderWay
    BY <1>2 DEF ShowInv, Feeding, Nothing
  <2>4. /\ LastTick \in F!Ticks /\ fed = Append(Earlier, LastTick)
        /\ fOpen = Fin!OpenBar(LastTick, Fin!Floor(LastTick.ts))
        /\ fOpen.start = Fin!Floor(LastTick.ts)
        /\ Earlier[Len(Earlier)].ts <= LastTick.ts
    <3>1. LastTick \in F!Ticks /\ fed = Append(Earlier, LastTick)
      BY <1>1, <2>3, TicksSplit DEF LastTick, Earlier
    <3> QED BY <2>3, <3>1, TickBars DEF UnderWay
  <2>5. /\ Shows(filler, rOpen', output', Earlier)
        /\ Follow(filler, rOpen'.last, rOpen'.close, queue', fOpen.start)
    <3>1. CASE /\ WillShow(filler, rOpen, output, c, Earlier)
               /\ Follow(filler, c.ts, c.close, Tail(queue), fOpen.start)
      BY <1>2, <2>1, <2>2, <3>1 DEF WillShow
    <3>2. CASE /\ rOpen # NoBar
               /\ Shows(filler, rOpen, output, Earlier)
               /\ Follow(filler, rOpen.last, rOpen.close, queue, fOpen.start)
      <4>1. "fine" \in filler
        BY <1>2, <3>2 DEF Follow
      <4>2. rOpen.last \in Int
        BY <1>1, <3>2, Constants DEF Crs!Bar, Crs!Timestamps
      <4>3. /\ c = Crs!Flat(rOpen.close, rOpen.last + Fine)
            /\ Follow(filler, c.ts, c.close, Tail(queue), fOpen.start)
        BY <1>1, <1>2, <3>2, <4>1, <4>2, FollowTail DEF c
      <4>4. Shows(filler, PushedBar(rOpen, c), output \o Emitted(filler, rOpen, c), Earlier)
        BY <1>1, <1>3, <3>2, <4>1, <4>3, FillerShown
      <4> QED BY <1>2, <2>1, <2>2, <4>3, <4>4
    <3> QED BY <2>3, <3>1, <3>2 DEF UnderWay, c
  <2>6. CASE queue' # <<>>
    <3>1. UnderWay'
      BY <1>2, <2>2, <2>4, <2>5 DEF UnderWay, LastTick, Earlier
    <3> QED BY <1>2, <2>3, <2>6, <3>1 DEF Feeding, LastTick
  <2>7. CASE queue' = <<>>
    <3>1. "fine" \in filler => /\ Crs!Uncut(LastTick.ts)
                               /\ Fin!Floor(LastTick.ts) = rOpen'.last + Fine
      <4> SUFFICES ASSUME "fine" \in filler
                   PROVE  /\ Crs!Uncut(LastTick.ts)
                          /\ Fin!Floor(LastTick.ts) = rOpen'.last + Fine
        OBVIOUS
      <4>1. Crs!Uncut(LastTick.ts)
        BY <2>4, TickIsCandle DEF ShowInv, NoTickIsCut
      <4>2. fOpen.start = rOpen'.last + (0 + 1) * Fine
        BY <2>5, <2>7 DEF Follow
      <4> QED BY <2>4, <4>1, <4>2, Constants
    <3>2. rOpen'.start = Crs!Floor(rOpen'.last)
      BY <2>2
    <3>3. WillShow(filler, rOpen', output', OneTick(LastTick), fed)
      BY <2>4, <2>5, <3>1, <3>2, ArrivedShown
    <3>4. WillShow(filler', rOpen', output', Fin!Closed(fOpen'), fed')
      BY <1>2, <2>4, <3>3 DEF OneTick
    <3> QED BY <1>2, <2>3, <2>7, <3>4 DEF Feeding, LastTick
  <2> QED BY <2>6, <2>7
<1> QED BY <1>2, <1>4, <1>5

LEMMA ShowNext == Crs!CapBelowRange /\ ShowInv /\ [Next]_pipeVars => ShowInv'
<1> SUFFICES ASSUME Crs!CapBelowRange, ShowInv, [Next]_pipeVars
             PROVE  /\ filler' = filler
                    /\ Feeding' /\ Ending' /\ Commutes'
  BY PipeNext DEF ShowInv, NoTickIsCut
<1>0. /\ PipeTypes /\ fed \in Seq(F!Ticks) /\ queue \in Seq(Crs!Candle)
      /\ fOpen \in Crs!Bar \cup {NoBar} /\ rOpen \in Crs!Bar \cup {NoBar}
      /\ fOpen # NoBar => fOpen.start = Fin!Floor(fOpen.last)
  BY DEF ShowInv, PipeInv, PipeTypes, FineStart
<1>1. CASE Feed
  <2>1. filler' = filler /\ phase' = "feeding"
    BY <1>1, FeedCases
  <2> QED BY <1>1, <2>1, ShowFeed DEF Ending, Commutes
<1>2. CASE EndOfTicks
  <2>1. /\ phase = "feeding" /\ queue = <<>> /\ phase' \in {"ending", "failed"}
        /\ rOpen' = rOpen /\ output' = output /\ filler' = filler /\ fed' = fed
        /\ fOpen' = NoBar
        /\ IF fOpen # NoBar /\ phase' = "ending"
           THEN queue' = <<Fin!Closed(fOpen)>> ELSE queue' = <<>>
    BY <1>2, EndOfTicksCases
  <2>2. ASSUME phase' = "ending" PROVE Ending'
    <3>1. CASE fOpen = NoBar
      <4>1. Nothing
        BY <2>1, <3>1 DEF ShowInv, Feeding
      <4>2. Nothing'
        BY <2>1, <3>1, <4>1 DEF Nothing
      <4> QED BY <4>2 DEF Ending
    <3>2. CASE fOpen # NoBar
      <4>1. /\ fed # <<>> /\ fOpen.last = LastTick.ts
            /\ WillShow(filler, rOpen, output, Fin!Closed(fOpen), fed)
        BY <2>1, <3>2 DEF ShowInv, Feeding
      <4>2. queue' = <<Fin!Closed(fOpen)>>
        BY <2>1, <2>2, <3>2
      <4>3. Len(queue') = 1 /\ queue'[1] = Fin!Closed(fOpen)
        BY <4>2
      <4>4. Crs!Floor(queue'[1].ts) = Crs!Floor(LastTick.ts)
        <5>1. queue'[1].ts = Fin!Floor(fOpen.last) /\ fOpen.last \in Crs!Timestamps
          BY <1>0, <3>2, <4>3 DEF Fin!Closed, Crs!Bar
        <5> QED BY <4>1, <5>1, NestedBuckets
      <4>5. WillShow(filler', rOpen', output', queue'[1], fed')
        BY <2>1, <4>1, <4>3
      <4> QED BY <2>1, <4>1, <4>3, <4>4, <4>5 DEF Ending, LastTick
    <3> QED BY <3>1, <3>2
  <2>3. phase' # "feeding" /\ phase' # "done"
    BY <2>1
  <2>4. phase' # "ending" => Ending'
    BY DEF Ending
  <2> QED BY <2>1, <2>2, <2>3, <2>4 DEF Feeding, Commutes
<1>3. CASE Forward
  <2> DEFINE c == queue[1]
  <2>1. /\ phase \in {"feeding", "ending"}
        /\ queue # <<>> /\ queue' = Tail(queue) /\ Head(queue) = c /\ c \in Crs!Candle
        /\ fOpen' = fOpen /\ fed' = fed /\ filler' = filler
        /\ Takes(c) \/ Fails(c)
    <3>1. queue # <<>> => Head(queue) = c /\ c \in Crs!Candle
      BY <1>0
    <3> QED BY <1>0, <1>3, <3>1, ForwardCases
  <2> HIDE DEF c
  <2>2. CASE Fails(c)
    BY <2>1, <2>2 DEF Fails, Feeding, Ending, Commutes
  <2>3. CASE Takes(c) /\ phase = "feeding"
    <3>1. phase' = "feeding"
      BY <2>3 DEF Takes
    <3> QED BY <1>3, <2>1, <2>3, <3>1, ShowForward DEF Ending, Commutes
  <2>4. CASE Takes(c) /\ phase = "ending"
    <3>1. /\ fed # <<>> /\ Len(queue) = 1
          /\ WillShow(filler, rOpen, output, c, fed)
          /\ Crs!Floor(c.ts) = Crs!Floor(LastTick.ts)
      BY <2>1, <2>4 DEF ShowInv, Ending, Nothing, c
    <3>2. /\ phase' = "ending" /\ rOpen' = PushedBar(rOpen, c)
          /\ PushOk(filler, rOpen, c)
          /\ output' = output \o Emitted(filler, rOpen, c)
      BY <2>4 DEF Takes
    <3>3. rOpen' # NoBar /\ rOpen'.start = Crs!Floor(c.ts)
      BY <1>0, <2>1, <3>2, PushTypes
    <3>4. queue' = <<>>
      BY <1>0, <2>1, <3>1
    <3>5. Shows(filler', rOpen', output', fed')
      BY <2>1, <3>1, <3>2 DEF WillShow
    <3> QED BY <2>1, <3>1, <3>2, <3>3, <3>4, <3>5 DEF Feeding, Ending, Commutes, LastTick
  <2> QED BY <2>1, <2>2, <2>3, <2>4
<1>4. CASE EndOfCandles
  <2>1. /\ phase = "ending" /\ queue = <<>> /\ phase' \in {"done", "failed"}
        /\ queue' = queue /\ fOpen' = fOpen /\ fed' = fed /\ filler' = filler
        /\ IF rOpen # NoBar /\ phase' = "done"
           THEN output' = output \o <<Crs!Closed(rOpen)>>
           ELSE output' = output \o <<>>
    BY <1>4, EndOfCandlesCases
  <2>2. ASSUME phase' = "done" PROVE Commutes'
    <3>1. CASE Nothing
      <4>1. output' = <<>> /\ fed' = <<>>
        BY <2>1, <3>1 DEF Nothing
      <4>2. DirectCandles' = <<>>
        BY <4>1 DEF DirectCandles
      <4> QED BY <4>1, <4>2 DEF Commutes
    <3>2. CASE ~Nothing
      <4>1. /\ fed # <<>> /\ rOpen # NoBar
            /\ Shows(filler, rOpen, output, fed)
            /\ rOpen.start = Crs!Floor(fed[Len(fed)].ts)
        BY <2>1, <3>2 DEF ShowInv, Ending, LastTick
      <4>2. output' = output \o <<Crs!Closed(rOpen)>>
        BY <2>1, <2>2, <4>1
      <4>3. DirectCandles' = DirectBatch(filler, fed)
        BY <2>1, <4>1 DEF DirectCandles, DirectBatch
      <4>4. /\ "fine" \notin filler => output' = DirectBatch(filler, fed)
            /\ SameOutline(output', DirectBatch(filler, fed))
        BY <4>1, <4>2, ShownInTheEnd DEF ShowInv
      <4>5. /\ "fine" \notin filler' => output' = DirectCandles'
            /\ SameOutline(output', DirectCandles')
        BY <2>1, <4>3, <4>4
      <4> QED BY <4>5 DEF SameOutline, Commutes
    <3> QED BY <3>1, <3>2
  <2>3. phase' # "feeding" /\ phase' # "ending" /\ (phase' # "done" => Commutes')
    BY <2>1 DEF Commutes
  <2> QED BY <2>1, <2>2, <2>3 DEF Feeding, Ending
<1>5. CASE UNCHANGED pipeVars
  <2>1. /\ rOpen' = rOpen /\ fOpen' = fOpen /\ queue' = queue /\ phase' = phase
        /\ output' = output /\ filler' = filler /\ fed' = fed
    BY <1>5 DEF pipeVars, fVars, rVars
  <2>2. Feeding'
    BY <2>1 DEF ShowInv, Feeding, UnderWay, Nothing, LastTick, Earlier
  <2>3. Ending'
    BY <2>1 DEF ShowInv, Ending, Nothing, LastTick
  <2>4. Commutes'
    BY <2>1 DEF ShowInv, Commutes, DirectCandles
  <2> QED BY <2>1, <2>2, <2>3, <2>4
<1> QED BY <1>1, <1>2, <1>3, <1>4, <1>5 DEF Next

\* Rolling up through a finer timeframe ends in the candles of the ticks themselves,
\* with their gaps or, if the coarse stage fills them, without, as long as the fine
\* stage does not fill gaps; and in candles of the same times, closes and volumes as
\* those without gaps if it does.
THEOREM PipelineCommutes ==
    ASSUME Crs!CapBelowRange
    PROVE  Spec /\ NoTickIsCut => []Commutes
<1>1. Init /\ NoTickIsCut => ShowInv
  <2> SUFFICES ASSUME Init, NoTickIsCut PROVE Feeding /\ Ending /\ Commutes
    BY PipeInit DEF Init, ShowInv
  <2>1. /\ fOpen = NoBar /\ rOpen = NoBar /\ queue = <<>> /\ output = <<>>
        /\ fed = <<>> /\ phase = "feeding"
    BY DEF Init, F!Init, R!Init
  <2> QED BY <2>1 DEF Feeding, Ending, Commutes, Nothing
<1>2. ShowInv /\ [Next]_pipeVars => ShowInv'
  BY ShowNext
<1>3. ShowInv => Commutes
  BY DEF ShowInv
<1> QED BY <1>1, <1>2, <1>3, PTL DEF Spec

=============================================================================
