------------------------ MODULE TickAggregator_proofs ------------------------
(***************************************************************************)
(* Safety of the tick aggregator for every timeframe, cap, integer width   *)
(* and set of ticks.                                                       *)
(***************************************************************************)
EXTENDS TickAggregator, Candles_proofs, SequenceTheorems, TLAPS

-----------------------------------------------------------------------------
(* Ticks. *)

LEMMA TickFacts ==
    ASSUME NEW t \in Ticks
    PROVE  /\ t \in Candle /\ t.ts \in TickTimes /\ t.ts \in Timestamps
           /\ t.volume < Infinity
           /\ t.high = t.open /\ t.low = t.open /\ t.close = t.open
           /\ ValidCandle(t)
<1> PICK p \in Prices, v \in Sizes, ts \in TickTimes : t = Tick(p, v, ts)
  BY DEF Ticks
<1>1. p \in Int /\ v \in Volumes /\ v < Infinity /\ ts \in Timestamps
  BY TickAssumption, CandleAssumption DEF Volumes
<1> QED BY <1>1 DEF Tick, Candle, ValidCandle

-----------------------------------------------------------------------------
(* Types. *)

LEMMA TypeInit == Init => TypeOK
  BY DEF Init, TypeOK, Results

LEMMA RefuseType ==
    ASSUME TypeOK, NEW why \in Results, Refuse(why)
    PROVE  TypeOK'
  BY DEF TypeOK, Refuse

LEMMA AcceptType ==
    ASSUME TypeOK, NEW t \in Ticks, NEW bar \in Bar, NEW closed \in Seq(Candle),
           Accept(t, bar, closed)
    PROVE  TypeOK'
  BY DEF TypeOK, Accept, Results

LEMMA TypeNext == TypeOK /\ [Next]_aggVars => TypeOK'
<1> SUFFICES ASSUME TypeOK, [Next]_aggVars PROVE TypeOK'
  OBVIOUS
<1>1. ASSUME NEW t \in Ticks, Push(t) PROVE TypeOK'
  <2>0. t \in Candle /\ Floor(t.ts) \in Timestamps
        /\ OpenBar(t, Floor(t.ts)) \in Bar /\ <<>> \in Seq(Candle)
    BY TickFacts, OpenBarType, FloorFacts
  <2>1. CASE First(t)
    <3>1. Accept(t, OpenBar(t, Floor(t.ts)), <<>>)
      BY <2>1 DEF First
    <3> QED BY <2>0, <3>1, AcceptType
  <2>2. CASE RefuseOlder(t)
    BY <2>2, RefuseType DEF RefuseOlder, Results
  <2>3. CASE SameBucket(t)
    <3>1. Absorb(open, t) \in Bar
      BY <2>0, <2>3, AbsorbType DEF SameBucket, TypeOK
    <3>2. CASE Refuse("stale")
      BY <3>2, RefuseType DEF Results
    <3>3. CASE Accept(t, Absorb(open, t), <<>>)
      BY <2>0, <3>1, <3>3, AcceptType
    <3> QED BY <2>3, <3>2, <3>3 DEF SameBucket
  <2>4. CASE NextBucket(t)
    <3>1. RollOut(open, Floor(t.ts)) \in Seq(Candle)
      BY <2>0, <2>4, RollOutType DEF NextBucket, TypeOK
    <3> QED BY <2>0, <2>4, <3>1, AcceptType, RefuseType DEF NextBucket, Results
  <2> QED BY <1>1, <2>1, <2>2, <2>3, <2>4 DEF Push
<1>2. CASE Flush
  <2>1. open # NoBar => <<Closed(open)>> \in Seq(Candle)
    BY ClosedType DEF TypeOK
  <2>2. out' \in Seq(Candle) /\ result' \in Results
    <3>1. CASE open # NoBar /\ Finite(open)
      BY <1>2, <2>1, <3>1 DEF Flush, Results
    <3>2. CASE ~(open # NoBar /\ Finite(open))
      <4>1. out' = <<>> /\ result' \in {"ok", "infinite"}
        BY <1>2, <3>2 DEF Flush
      <4> QED BY <4>1 DEF Results
    <3> QED BY <3>1, <3>2
  <2>3. open' \in Bar \cup {NoBar} /\ ticks' = <<>> /\ series' = <<>>
    BY <1>2 DEF Flush
  <2> QED BY <2>2, <2>3 DEF TypeOK
<1>3. CASE UNCHANGED aggVars
  BY <1>3 DEF aggVars, TypeOK
<1> QED BY <1>1, <1>2, <1>3 DEF Next

\* The aggregator's variables keep their types; in particular every timestamp it
\* emits is representable.
THEOREM AggregatorTypes == Spec => []TypeOK
  BY TypeInit, TypeNext, PTL DEF Spec

-----------------------------------------------------------------------------
(* The open bar's bucket, and gap filling's overflow. *)

StartsAtTick ==
    open # NoBar => \E ts \in TickTimes : open.start = Floor(ts)

LEMMA StartsNext ==
    TypeOK /\ StartsAtTick /\ [Next]_aggVars => StartsAtTick'
<1> SUFFICES ASSUME TypeOK, StartsAtTick, [Next]_aggVars PROVE StartsAtTick'
  OBVIOUS
<1>1. ASSUME NEW t \in Ticks, open' = OpenBar(t, Floor(t.ts))
      PROVE  StartsAtTick'
  <2>1. t.ts \in TickTimes /\ open'.start = Floor(t.ts)
    BY <1>1, TickFacts DEF OpenBar
  <2> QED BY <2>1 DEF StartsAtTick
<1>2. ASSUME UNCHANGED open PROVE StartsAtTick'
  BY <1>2 DEF StartsAtTick
<1>3. ASSUME NEW t \in Ticks, SameBucket(t), open' = Absorb(open, t)
      PROVE  StartsAtTick'
  <2>1. open # NoBar /\ open \in Bar
    BY <1>3 DEF SameBucket, TypeOK
  <2>2. open'.start = open.start
    BY <1>3, <2>1 DEF Absorb, Bar
  <2> QED BY <2>1, <2>2 DEF StartsAtTick
<1>4. ASSUME NEW t \in Ticks, Push(t) PROVE StartsAtTick'
  <2>1. CASE First(t)
    BY <1>1, <2>1 DEF First, Accept
  <2>2. CASE RefuseOlder(t)
    BY <1>2, <2>2 DEF RefuseOlder, Refuse
  <2>3. CASE SameBucket(t)
    BY <1>2, <1>3, <2>3 DEF SameBucket, Accept, Refuse
  <2>4. CASE NextBucket(t)
    BY <1>1, <1>2, <2>4 DEF NextBucket, Accept, Refuse
  <2> QED BY <1>4, <2>1, <2>2, <2>3, <2>4 DEF Push
<1>5. CASE Flush
  BY <1>5 DEF Flush, StartsAtTick
<1>6. CASE UNCHANGED aggVars
  BY <1>2, <1>6 DEF aggVars
<1> QED BY <1>4, <1>5, <1>6 DEF Next

\* The error path "timestamp overflow while gap-filling" is never taken: when a
\* bar is closed the first placeholder's timestamp is representable.
THEOREM AggregatorNoFillOverflow == Spec => []NoFillOverflow
<1>1. Init => TypeOK /\ StartsAtTick
  BY TypeInit DEF Init, StartsAtTick
<1>2. TypeOK /\ StartsAtTick /\ [Next]_aggVars => (TypeOK /\ StartsAtTick)'
  BY TypeNext, StartsNext
<1>3. TypeOK /\ StartsAtTick => NoFillOverflow
  <2> SUFFICES ASSUME StartsAtTick, open # NoBar, NEW t \in Ticks,
                      Floor(t.ts) > open.start
               PROVE  FirstFillerFits(open.start)
    BY DEF NoFillOverflow
  <2>1. PICK ts \in TickTimes : open.start = Floor(ts)
    BY DEF StartsAtTick
  <2>2. ts \in Timestamps /\ t.ts \in Timestamps
    BY TickFacts, TickAssumption
  <2>3. Floor(ts) \in Int /\ Floor(t.ts) \in Int
    BY <2>2, FloorFacts, TimeAssumption DEF Timestamps
  <2>4. Floor(ts) < Floor(t.ts)
    BY <2>1, <2>3
  <2> QED BY <2>1, <2>2, <2>4, RolledBarNeverOverflows
<1> QED BY <1>1, <1>2, <1>3, PTL DEF Spec

-----------------------------------------------------------------------------
(* The candles that leave the aggregator. *)

OpenWellFormed == open # NoBar => WellFormed(open)

ValidityInv == TypeOK /\ OpenWellFormed /\ EmitsValidCandles

\* Every candle the aggregator returns is ordered and of finite volume, the
\* placeholders built without validation included.
THEOREM AggregatorEmitsValidCandles == Spec => []EmitsValidCandles
<1>1. Init => ValidityInv
  BY TypeInit DEF Init, ValidityInv, OpenWellFormed, EmitsValidCandles
<1>2. ValidityInv /\ [Next]_aggVars => ValidityInv'
  <2> SUFFICES ASSUME ValidityInv, [Next]_aggVars
               PROVE  (OpenWellFormed /\ EmitsValidCandles)'
    BY TypeNext DEF ValidityInv
  <2>0. TypeOK
    BY DEF ValidityInv
  <2>1. ASSUME NEW why \in Results, Refuse(why)
        PROVE  (OpenWellFormed /\ EmitsValidCandles)'
    BY <2>1 DEF Refuse, ValidityInv, OpenWellFormed, EmitsValidCandles
  <2>2. ASSUME NEW t \in Ticks
        PROVE  WellFormed(OpenBar(t, Floor(t.ts))) /\ Floor(t.ts) \in Timestamps
    <3>1. t \in Candle /\ ValidCandle(t)
      BY TickFacts
    <3> QED BY <3>1, TickFacts, FloorFacts, OpenBarWellFormed
  <2>3. ASSUME NEW t \in Ticks, Push(t)
        PROVE  (OpenWellFormed /\ EmitsValidCandles)'
    <3>1. CASE First(t)
      BY <2>2, <3>1 DEF First, Accept, OpenWellFormed, EmitsValidCandles
    <3>2. CASE RefuseOlder(t)
      BY <2>1, <3>2 DEF RefuseOlder, Results
    <3>3. CASE SameBucket(t)
      <4>1. WellFormed(Absorb(open, t))
        BY <2>0, <3>3, AbsorbWellFormed, TickFacts
           DEF SameBucket, ValidityInv, OpenWellFormed, TypeOK
      <4> QED BY <2>1, <3>3, <4>1
              DEF SameBucket, Accept, OpenWellFormed, EmitsValidCandles, Results
    <3>4. CASE NextBucket(t)
      <4>1. CASE \E why \in Results : Refuse(why)
        BY <2>1, <4>1
      <4>2. CASE /\ Rolls(open, Floor(t.ts))
                 /\ Accept(t, OpenBar(t, Floor(t.ts)), RollOut(open, Floor(t.ts)))
        <5>1. open \in Bar /\ WellFormed(open) /\ Finite(open)
          BY <2>0, <3>4, <4>2
             DEF NextBucket, ValidityInv, OpenWellFormed, TypeOK, Rolls
        <5>2. open' = OpenBar(t, Floor(t.ts)) /\ out' = RollOut(open, Floor(t.ts))
          BY <4>2 DEF Accept
        <5> QED BY <2>2, <5>1, <5>2, RollOutValid
                DEF OpenWellFormed, EmitsValidCandles
      <4> QED BY <3>4, <4>1, <4>2 DEF NextBucket, Results
    <3> QED BY <2>3, <3>1, <3>2, <3>3, <3>4 DEF Push
  <2>4. CASE Flush
    <3>1. CASE open # NoBar /\ Finite(open)
      <4>1. ValidCandle(Closed(open))
        BY <2>0, <3>1, ClosedValid DEF ValidityInv, OpenWellFormed, TypeOK
      <4> QED BY <2>4, <3>1, <4>1 DEF Flush, OpenWellFormed, EmitsValidCandles
    <3>2. CASE ~(open # NoBar /\ Finite(open))
      <4>1. out' = <<>> /\ open' = NoBar
        BY <2>4, <3>2 DEF Flush
      <4> QED BY <4>1 DEF OpenWellFormed, EmitsValidCandles
    <3> QED BY <3>1, <3>2
  <2>5. CASE UNCHANGED aggVars
    BY <2>5 DEF aggVars, ValidityInv, OpenWellFormed, EmitsValidCandles
  <2> QED BY <2>3, <2>4, <2>5 DEF Next
<1>3. ValidityInv => EmitsValidCandles
  BY DEF ValidityInv
<1> QED BY <1>1, <1>2, <1>3, PTL DEF Spec

-----------------------------------------------------------------------------
(* Refusals. *)

\* A refused tick leaves the open bar as it was: push looks at everything that
\* may go wrong before it touches the bar.
THEOREM AggregatorRefusalKeepsBar == Spec => RefusalKeepsBar
<1>1. ASSUME NEW t \in Ticks, Push(t)
      PROVE  result' \in {"older", "stale", "gap"} => open' = open
  <2>1. CASE \E why : Refuse(why)
    BY <2>1 DEF Refuse
  <2>2. CASE \E bar, closed : Accept(t, bar, closed)
    BY <2>2 DEF Accept
  <2> QED BY <1>1, <2>1, <2>2 DEF Push, First, RefuseOlder, SameBucket, NextBucket
<1>2. Flush => result' \notin {"older", "stale", "gap"}
  BY DEF Flush
<1>3. [Next]_aggVars
          => [result' \in {"older", "stale", "gap"} => open' = open]_aggVars
  BY <1>1, <1>2 DEF Next
<1> QED BY <1>3, PTL DEF Spec, RefusalKeepsBar

-----------------------------------------------------------------------------
(* Spacing. *)

SpacingAssumption ==
    FillGaps => CapBelowRange /\ \A ts \in TickTimes : Uncut(ts)

\* An empty aggregator owes nothing.
EmptyOwesNothing == open = NoBar => series = <<>>

SpacingInv == TypeOK /\ StartsAtTick /\ EmptyOwesNothing /\ EvenlySpaced

\* The emission of a roll continues the series up to the new bar.
LEMMA RollIsSpaced ==
    ASSUME SpacingAssumption, SpacingInv, open # NoBar,
           NEW t \in Ticks, Floor(t.ts) > open.start, Rolls(open, Floor(t.ts)),
           NEW all, all = Append(series \o RollOut(open, Floor(t.ts)),
                                 Closed(OpenBar(t, Floor(t.ts))))
    PROVE  \A i \in 1 .. Len(series \o RollOut(open, Floor(t.ts))) :
               Spaced(all[i], all[i + 1])
<1> DEFINE next == Floor(t.ts)
           n == Len(series)
           c == Closed(open)
           f == IF FillGaps THEN Fillers(open.close, open.start, next) ELSE <<>>
           last == Closed(OpenBar(t, next))
           m == Len(f)
<1>1. /\ open \in Bar /\ series \in Seq(Candle) /\ t \in Candle
      /\ open.start \in Timestamps /\ next \in Timestamps
      /\ t.ts \in TickTimes /\ t.ts \in Timestamps
      /\ c \in Candle /\ last \in Candle /\ n \in Nat
  <2>1. open \in Bar /\ series \in Seq(Candle)
    BY DEF SpacingInv, TypeOK
  <2>2. t \in Candle /\ t.ts \in TickTimes /\ t.ts \in Timestamps
    BY TickFacts
  <2>3. next \in Timestamps /\ OpenBar(t, next) \in Bar
    BY <2>2, FloorFacts, OpenBarType
  <2>4. c \in Candle /\ last \in Candle
    BY <2>1, <2>3, ClosedType
  <2>5. open.start \in Timestamps /\ n \in Nat
    BY <2>1, LenProperties DEF Bar
  <2> QED BY <2>1, <2>2, <2>3, <2>4, <2>5
<1>2. f \in Seq(Candle) /\ m \in Nat
  BY <1>1, FillersType DEF Bar
<1>3. c.ts = open.start /\ last.ts = next
  BY DEF Closed, OpenBar
<1>4. /\ Len(series \o RollOut(open, next)) = n + 1 + m
      /\ \A i \in 1 .. n : all[i] = series[i]
      /\ all[n + 1] = c
      /\ \A j \in 1 .. m : all[n + 1 + j] = f[j]
      /\ all[n + 2 + m] = last
  <2>1. RollOut(open, next) = <<c>> \o f
    BY DEF RollOut
  <2> HIDE DEF c, f, last
  <2> QED BY <1>1, <1>2, <2>1, RolledSeries DEF last
<1>5. ASSUME NEW i \in 1 .. n PROVE Spaced(all[i], all[i + 1])
  <2>1. Spaced(WithOpen[i], WithOpen[i + 1])
    BY DEF SpacingInv, EvenlySpaced
  <2>2. WithOpen[i] = all[i] /\ WithOpen[i + 1] = all[i + 1]
    <3>1. /\ \A j \in 1 .. n : WithOpen[j] = series[j]
          /\ WithOpen[n + 1] = c
      BY <1>1 DEF WithOpen
    <3> HIDE DEF c
    <3>2. CASE i = n
      BY <1>1, <1>4, <3>1, <3>2
    <3>3. CASE i # n
      <4>1. i + 1 \in 1 .. n
        BY <1>1, <3>3
      <4> QED BY <1>4, <3>1, <4>1
    <3> QED BY <3>2, <3>3
  <2> QED BY <2>1, <2>2
<1>6. CASE ~FillGaps
  <2>1. m = 0
    BY <1>6
  <2>2. Spaced(all[n + 1], all[n + 2])
    BY <1>1, <1>3, <1>4, <1>6, <2>1 DEF Spaced
  <2>3. n \in Nat
    BY <1>1
  <2> HIDE DEF m, n, next
  <2>4. ASSUME NEW i \in 1 .. n + 1 PROVE Spaced(all[i], all[i + 1])
    <3>1. CASE i \in 1 .. n
      BY <1>5, <3>1
    <3>2. CASE i = n + 1
      <4>1. i + 1 = n + 2
        BY <2>3, <3>2
      <4> QED BY <2>2, <3>2, <4>1
    <3>3. i \in 1 .. n \/ i = n + 1
      BY <2>3
    <3> QED BY <3>1, <3>2, <3>3
  <2>5. n + 1 + m = n + 1
    BY <2>1, <2>3
  <2> QED BY <1>4, <2>4, <2>5 DEF next
<1>7. CASE FillGaps
  <2>1. PICK ts \in TickTimes : open.start = Floor(ts)
    BY DEF SpacingInv, StartsAtTick
  <2>2. /\ m = GapCount(open.start, next)
        /\ next = open.start + Bucket + m * Bucket
    <3>1. Fillable(open.start, next)
      BY <1>7 DEF Rolls
    <3>2. ts \in Timestamps /\ Uncut(ts) /\ Uncut(t.ts) /\ CapBelowRange
      BY <1>1, <1>7, <2>1, TickAssumption DEF SpacingAssumption
    <3>3. m = GapCount(open.start, next)
      BY <1>1, <1>7, FillersType DEF Bar
    <3> HIDE DEF m
    <3> QED BY <1>1, <2>1, <3>1, <3>2, <3>3, GapIsFilled
  <2>3. open.start \in Int /\ next \in Int /\ next <= TsMax /\ Bucket \in Nat
        /\ m \in Nat /\ n \in Nat /\ TsMax \in Int
    BY <1>1, <1>2, TimeAssumption DEF Timestamps
  <2>4. ASSUME NEW j \in 1 .. m
        PROVE  f[j].ts = open.start + j * Bucket
    <3>1. f[j].ts = Lesser(open.start + j * Bucket, TsMax)
      BY <1>7, <2>2 DEF Fillers, Flat
    <3>2. j * Bucket \in Nat /\ m * Bucket \in Nat /\ j * Bucket <= m * Bucket
      <4> HIDE DEF m
      <4>1. CASE j = m
        BY <4>1, <2>3
      <4>2. CASE j < m
        <5>1. Bucket * j + Bucket <= Bucket * m
          BY <4>2, <2>3, Multiples, TimeAssumption
        <5>2. Bucket * j = j * Bucket /\ Bucket * m = m * Bucket
              /\ j * Bucket \in Nat /\ m * Bucket \in Nat
          BY <2>3
        <5> QED BY <5>1, <5>2, <2>3
      <4> QED BY <4>1, <4>2, <2>3
    <3> HIDE DEF m, f, next
    <3>3. open.start + j * Bucket <= TsMax
      BY <2>2, <2>3, <3>2
    <3> DEFINE x == open.start + j * Bucket
    <3>4. x \in Int /\ x <= TsMax /\ f[j].ts = Lesser(x, TsMax)
      BY <3>1, <3>2, <3>3, <2>3
    <3> HIDE DEF x
    <3>5. f[j].ts = x
      BY <3>4, <2>3 DEF Lesser
    <3> QED BY <3>5 DEF x
  <2> HIDE DEF m, n, f, c, last, next
  \* The k-th candle after the series is k buckets after the closed bar.
  <2>5. ASSUME NEW k \in 0 .. m + 1
        PROVE  all[n + 1 + k].ts = open.start + k * Bucket
    <3>1. CASE k = 0
      <4>1. n + 1 + k = n + 1 /\ k * Bucket = 0
        BY <3>1, <2>3
      <4>2. all[n + 1].ts = open.start
        BY <1>3, <1>4
      <4>3. all[n + 1 + k].ts = open.start
        BY <4>1, <4>2
      <4> QED BY <4>1, <4>3, <2>3
    <3>2. CASE k \in 1 .. m
      BY <3>2, <1>4, <2>4
    <3>3. CASE k = m + 1
      <4>1. all[n + 1 + k] = last
        <5>1. n + 1 + k = n + 2 + m
          BY <3>3, <2>3
        <5> QED BY <5>1, <1>4
      <4>2. k * Bucket = m * Bucket + Bucket
        BY <3>3, <2>3
      <4>3. m * Bucket \in Int
        BY <2>3
      <4> QED BY <4>1, <4>2, <4>3, <1>3, <2>2, <2>3
    <3>4. k = 0 \/ k \in 1 .. m \/ k = m + 1
      BY <2>3
    <3> QED BY <3>1, <3>2, <3>3, <3>4
  <2>6. ASSUME NEW i \in 1 .. n + 1 + m PROVE Spaced(all[i], all[i + 1])
    <3>1. CASE i \in 1 .. n
      BY <1>5, <3>1
    <3>2. CASE i \notin 1 .. n
      <4> DEFINE k == i - n - 1
      <4>1. k \in 0 .. m + 1 /\ k + 1 \in 0 .. m + 1
            /\ i = n + 1 + k /\ i + 1 = n + 1 + (k + 1)
        BY <2>3, <3>2
      <4> HIDE DEF k
      <4>2. all[i].ts = open.start + k * Bucket
        BY <4>1, <2>5
      <4>3. all[i + 1].ts = open.start + (k + 1) * Bucket
        BY <4>1, <2>5
      <4>4. (k + 1) * Bucket = k * Bucket + Bucket /\ k * Bucket \in Int
        BY <4>1, <2>3
      <4> QED BY <4>2, <4>3, <4>4, <2>3, <1>7 DEF Spaced
    <3> QED BY <3>1, <3>2
  <2> QED BY <1>4, <2>6 DEF next
<1> QED BY <1>6, <1>7

LEMMA SpacingNext ==
    ASSUME SpacingAssumption
    PROVE  SpacingInv /\ [Next]_aggVars => SpacingInv'
<1> SUFFICES ASSUME SpacingInv, [Next]_aggVars
             PROVE  (EmptyOwesNothing /\ EvenlySpaced)'
  BY TypeNext, StartsNext DEF SpacingInv
<1>0. TypeOK /\ TypeOK'
  BY TypeNext DEF SpacingInv
<1>1. ASSUME UNCHANGED <<open, ticks, series>>
      PROVE  (EmptyOwesNothing /\ EvenlySpaced)'
  BY <1>1 DEF SpacingInv, EmptyOwesNothing, EvenlySpaced, WithOpen
<1>2. ASSUME NEW t \in Ticks, First(t)
      PROVE  (EmptyOwesNothing /\ EvenlySpaced)'
  <2>1. t.ts \in TickTimes /\ t \in Candle /\ OpenBar(t, Floor(t.ts)) # NoBar
    BY TickFacts, OpenBarType, NoBarAssumption
  <2>2. open' = OpenBar(t, Floor(t.ts)) /\ open'.start = Floor(t.ts)
    BY <1>2 DEF First, Accept, OpenBar
  <2>3. series' = <<>>
    BY <1>2 DEF First, Accept, SpacingInv, EmptyOwesNothing
  <2> QED BY <2>1, <2>2, <2>3 DEF EmptyOwesNothing, EvenlySpaced
<1>3. ASSUME NEW t \in Ticks, SameBucket(t)
      PROVE  (EmptyOwesNothing /\ EvenlySpaced)'
  <2>1. CASE Refuse("stale")
    BY <1>1, <2>1 DEF Refuse
  <2>2. CASE Accept(t, Absorb(open, t), <<>>)
    <3>1. open \in Bar /\ open # NoBar /\ open' = Absorb(open, t) /\ series' = series
      BY <1>0, <1>3, <2>2 DEF TypeOK, SameBucket, Accept
    <3>2. open'.start = open.start /\ open' \in Bar /\ open' # NoBar
      <4>1. t \in Candle /\ Absorb(open, t) \in Bar
        BY <3>1, TickFacts, AbsorbType
      <4>2. Absorb(open, t).start = open.start
        BY <3>1 DEF Absorb, Bar
      <4> QED BY <3>1, <4>1, <4>2, NoBarAssumption
    <3>3. Closed(open').ts = Closed(open).ts
      BY <3>2 DEF Closed
    <3>4. ASSUME NEW i \in 1 .. Len(series) + 1
          PROVE  WithOpen'[i].ts = WithOpen[i].ts
      BY <3>1, <3>2, <3>3, <1>0, ClosedType, AppendProperties DEF WithOpen, TypeOK
    <3>5. EvenlySpaced'
      <4> SUFFICES ASSUME NEW i \in 1 .. Len(series)
                   PROVE  Spaced(WithOpen'[i], WithOpen'[i + 1])
        BY <3>1 DEF EvenlySpaced, Spaced
      <4>1. Spaced(WithOpen[i], WithOpen[i + 1])
        BY <3>1 DEF SpacingInv, EvenlySpaced
      <4>2. i \in 1 .. Len(series) + 1 /\ i + 1 \in 1 .. Len(series) + 1
        BY <1>0, LenProperties DEF TypeOK
      <4> QED BY <4>1, <4>2, <3>4 DEF Spaced
    <3> QED BY <3>1, <3>2, <3>5 DEF SpacingInv, EmptyOwesNothing
  <2> QED BY <1>3, <2>1, <2>2 DEF SameBucket
<1>4. ASSUME NEW t \in Ticks, NextBucket(t)
      PROVE  (EmptyOwesNothing /\ EvenlySpaced)'
  <2>1. CASE \E why \in Results : Refuse(why)
    BY <1>1, <2>1 DEF Refuse
  <2>2. CASE /\ Rolls(open, Floor(t.ts))
             /\ Accept(t, OpenBar(t, Floor(t.ts)), RollOut(open, Floor(t.ts)))
    <3>1. t.ts \in TickTimes /\ t \in Candle /\ OpenBar(t, Floor(t.ts)) # NoBar
      BY TickFacts, OpenBarType, NoBarAssumption
    <3>2. open' = OpenBar(t, Floor(t.ts)) /\ open'.start = Floor(t.ts)
      BY <2>2 DEF Accept, OpenBar
    <3>3. series' = series \o RollOut(open, Floor(t.ts))
      BY <2>2 DEF Accept
    <3>4. \A i \in 1 .. Len(series') : Spaced(WithOpen'[i], WithOpen'[i + 1])
      BY <1>4, <2>2, <3>2, <3>3, RollIsSpaced DEF NextBucket, WithOpen
    <3>5. EvenlySpaced'
      BY <3>4 DEF EvenlySpaced, Spaced
    <3> QED BY <3>1, <3>2, <3>5 DEF EmptyOwesNothing
  <2> QED BY <1>4, <2>1, <2>2 DEF NextBucket, Results
<1>5. CASE Flush
  BY <1>5 DEF Flush, EmptyOwesNothing, EvenlySpaced
<1> QED BY <1>1, <1>2, <1>3, <1>4, <1>5
        DEF Next, Push, RefuseOlder, Refuse, aggVars

\* With gap filling the candles are exactly one bucket apart, without it they
\* are in strictly increasing time - provided the cap is below what the integer
\* range can hold and no tick falls into the bucket the lowest timestamp cuts.
THEOREM AggregatorEvenlySpaced ==
    ASSUME SpacingAssumption
    PROVE  Spec => []EvenlySpaced
<1>1. Init => SpacingInv
  BY TypeInit DEF Init, SpacingInv, StartsAtTick, EmptyOwesNothing, EvenlySpaced
<1>2. SpacingInv /\ [Next]_aggVars => SpacingInv'
  BY SpacingNext
<1>3. SpacingInv => EvenlySpaced
  BY DEF SpacingInv
<1> QED BY <1>1, <1>2, <1>3, PTL DEF Spec

-----------------------------------------------------------------------------
(* The aggregator and the batch. *)

\* An empty aggregator has seen nothing; otherwise the bar and the candles before it
\* are the batch so far, and the bar remembers the newest tick.
Batched ==
    /\ open = NoBar => series = <<>> /\ ticks = <<>>
    /\ open # NoBar =>
           SoFar(open, series, ticks) /\ open.last = ticks[Len(ticks)].ts

BatchInv == TypeOK /\ Batched

LEMMA BatchNext ==
    ASSUME FillGaps => CapBelowRange
    PROVE  BatchInv /\ [Next]_aggVars => BatchInv'
<1> SUFFICES ASSUME BatchInv, [Next]_aggVars PROVE Batched'
  BY TypeNext DEF BatchInv
<1>0. TypeOK /\ Batched
  BY DEF BatchInv
<1>1. ASSUME UNCHANGED <<open, ticks, series>> PROVE Batched'
  BY <1>0, <1>1 DEF Batched
<1>2. ASSUME NEW t \in Ticks, First(t) PROVE Batched'
  <2>1. t \in Candle /\ OpenBar(t, Floor(t.ts)) # NoBar
    BY TickFacts, OpenBarType, NoBarAssumption
  <2>2. /\ open' = OpenBar(t, Floor(t.ts))
        /\ series' = <<>>
        /\ ticks' = Append(<<>>, t)
    BY <1>0, <1>2 DEF First, Accept, Batched
  <2>3. SoFar(open', series', ticks')
    BY <2>1, <2>2, SoFarFirst
  <2>4. open'.last = ticks'[Len(ticks')].ts
    <3>1. ticks'[Len(ticks')] = t
      BY <2>2
    <3> QED BY <2>2, <3>1 DEF OpenBar
  <2> QED BY <2>1, <2>2, <2>3, <2>4 DEF Batched
<1>3. ASSUME NEW t \in Ticks, SameBucket(t) PROVE Batched'
  <2>1. CASE Refuse("stale")
    BY <1>1, <2>1 DEF Refuse
  <2>2. CASE ~(t.ts < open.last) /\ Accept(t, Absorb(open, t), <<>>)
    <3>1. /\ open \in Bar /\ open # NoBar /\ t \in Candle
          /\ Floor(t.ts) = open.start
          /\ open' = Absorb(open, t) /\ ticks' = Append(ticks, t)
          /\ series' = series
      BY <1>0, <1>3, <2>2, TickFacts DEF TypeOK, SameBucket, Accept
    <3>2. SoFar(open, series, ticks) /\ open.last = ticks[Len(ticks)].ts
      BY <1>0, <3>1 DEF Batched
    <3>3. ticks[Len(ticks)].ts <= t.ts
      <4>1. open.last \in Int /\ t.ts \in Int
        BY <3>1, TimeAssumption DEF Bar, Candle, Timestamps
      <4> QED BY <2>2, <3>2, <4>1
    <3>4. SoFar(open', series', ticks')
      BY <3>1, <3>2, <3>3, SoFarSame
    <3>5. open' # NoBar
      BY <3>1, AbsorbType, NoBarAssumption
    <3>6. open'.last = ticks'[Len(ticks')].ts
      <4>1. open'.last = t.ts
        BY <3>1 DEF Absorb, Bar
      <4>2. ticks \in Seq(Ticks)
        BY <1>0 DEF TypeOK
      <4>3. ticks'[Len(ticks')] = t
        BY <3>1, <4>2
      <4> QED BY <4>1, <4>3
    <3> QED BY <3>4, <3>5, <3>6 DEF Batched
  <2> QED BY <1>3, <2>1, <2>2 DEF SameBucket
<1>4. ASSUME NEW t \in Ticks, NextBucket(t) PROVE Batched'
  <2>1. CASE \E why \in Results : Refuse(why)
    BY <1>1, <2>1 DEF Refuse
  <2>2. CASE /\ Rolls(open, Floor(t.ts))
             /\ Accept(t, OpenBar(t, Floor(t.ts)), RollOut(open, Floor(t.ts)))
    <3>1. /\ open # NoBar /\ t \in Candle /\ open \in Bar
          /\ open.start < Floor(t.ts)
          /\ open' = OpenBar(t, Floor(t.ts)) /\ ticks' = Append(ticks, t)
          /\ series' = series \o RollOut(open, Floor(t.ts))
      <4>1. open # NoBar /\ Floor(t.ts) > open.start
        BY <1>4 DEF NextBucket
      <4>2. t \in Candle /\ open \in Bar
        BY <1>0, <4>1, TickFacts DEF TypeOK
      <4>3. open.start \in Int /\ Floor(t.ts) \in Int
        BY <4>2, FloorFacts, TimeAssumption DEF Bar, Candle, Timestamps
      <4> QED BY <2>2, <4>1, <4>2, <4>3 DEF Accept
    <3>2. SoFar(open, series, ticks)
      BY <1>0, <3>1 DEF Batched
    <3>3. SoFar(open', series', ticks')
      BY <2>2, <3>1, <3>2, SoFarNext
    <3>4. open' # NoBar
      BY <3>1, OpenBarType, NoBarAssumption
    <3>5. open'.last = ticks'[Len(ticks')].ts
      <4>1. ticks \in Seq(Ticks)
        BY <1>0 DEF TypeOK
      <4>2. ticks'[Len(ticks')] = t
        BY <3>1, <4>1
      <4> QED BY <3>1, <4>2 DEF OpenBar
    <3> QED BY <3>3, <3>4, <3>5 DEF Batched
  <2> QED BY <1>4, <2>1, <2>2 DEF NextBucket, Results
<1>5. CASE Flush
  BY <1>5 DEF Flush, Batched
<1> QED BY <1>1, <1>2, <1>3, <1>4, <1>5
        DEF Next, Push, RefuseOlder, Refuse, aggVars

\* Streaming is batch: at any moment the candles returned since the last flush, and
\* the open bar, are those that the accepted ticks amount to, for every stream of
\* ticks, timeframe and cap - whatever was refused in between and however gaps were
\* filled.  With gap filling the cap has to be below what the integer range can
\* hold: a wider timeframe saturates the span, and a gap would be filled in part.
THEOREM AggregatorStreamingEqualsBatch ==
    ASSUME FillGaps => CapBelowRange
    PROVE  Spec => []StreamingEqualsBatch
<1>1. Init => BatchInv
  BY TypeInit DEF Init, BatchInv, Batched
<1>2. BatchInv /\ [Next]_aggVars => BatchInv'
  BY BatchNext
<1>3. BatchInv => StreamingEqualsBatch
  <2> SUFFICES ASSUME Batched, open # NoBar
               PROVE  Append(series, Closed(open)) = Batch(ticks)
    BY DEF BatchInv, StreamingEqualsBatch
  <2>1. IsBatch(Append(series, Closed(open)), ticks)
    BY DEF Batched, SoFar
  <2> QED BY <2>1, BatchIs
<1> QED BY <1>1, <1>2, <1>3, PTL DEF Spec

=============================================================================
