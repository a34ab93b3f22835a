--------------------------- MODULE Handles_proofs ---------------------------
(***************************************************************************)
(* Safety of the resampler, and of the buffer of its C handle, for every   *)
(* timeframe, cap, integer width, set of candles and size of array; and of *)
(* the wrappers that Go, Java and C# put around a handle, for any number   *)
(* of them.                                                                *)
(***************************************************************************)
EXTENDS ResamplerHandle, NativeHandle, Candles_proofs, SequenceTheorems, TLAPS

-----------------------------------------------------------------------------
(* What a step of the resampler may be. *)

LEMMA InputFacts ==
    ASSUME NEW c \in Input
    PROVE  /\ c \in Candle /\ ValidCandle(c)
           /\ c.ts \in Timestamps /\ Floor(c.ts) \in Timestamps
           /\ OpenBar(c, Floor(c.ts)) \in Bar
           /\ OpenBar(c, Floor(c.ts)) # NoBar
           /\ OpenBar(c, Floor(c.ts)).start = Floor(c.ts)
<1>1. c \in Candle /\ ValidCandle(c)
  BY InputAssumption
<1>2. c.ts \in Timestamps
  BY <1>1 DEF Candle
<1>3. OpenBar(c, Floor(c.ts)) \in Bar
  BY <1>1, OpenBarType
<1> QED BY <1>1, <1>2, <1>3, FloorFacts, NoBarAssumption DEF OpenBar

Opened(c) == OpenBar(c, Floor(c.ts))

\* A push that opens the first bar, grows the open one, or rolls it.
Starts(c) == First(c) /\ Accept(c, Opened(c), <<>>)
Grows(c) == SameBucket(c) /\ open # NoBar /\ Accept(c, Absorb(open, c), <<>>)
RollsOver(c) ==
    /\ open # NoBar
    /\ open.start < Floor(c.ts)
    /\ Rolls(open, Floor(c.ts))
    /\ Accept(c, Opened(c), RollOut(open, Floor(c.ts)))
Refuses == \E why \in Results : Refuse(why)

\* Flush gives the open bar away, has none, or drops one of infinite volume.
FlushesBar ==
    /\ open # NoBar /\ Finite(open)
    /\ out' = <<Closed(open)>> /\ result' = "ok"
FlushesNothing == out' = <<>> /\ result' \in {"ok", "infinite"}

LEMMA StepCases ==
    ASSUME [Next]_resVars
    PROVE  \/ \E c \in Input : Starts(c) \/ Grows(c) \/ RollsOver(c)
           \/ Refuses
           \/ /\ FlushesBar \/ FlushesNothing
              /\ open' = NoBar /\ inputs' = <<>> /\ series' = <<>>
           \/ UNCHANGED resVars
<1>1. ASSUME NEW c \in Input, Push(c)
      PROVE  Starts(c) \/ Grows(c) \/ RollsOver(c) \/ Refuses
  <2>1. CASE First(c)
    BY <2>1 DEF First, Starts, Opened
  <2>2. CASE SameBucket(c)
    BY <2>2 DEF SameBucket, Grows
  <2>3. CASE NextBucket(c)
    BY <2>3 DEF NextBucket, RollsOver, Opened, Refuses, Results
  <2>4. CASE RefuseOlder(c)
    BY <2>4 DEF RefuseOlder, Refuses, Results
  <2> QED BY <1>1, <2>1, <2>2, <2>3, <2>4 DEF Push
<1>2. CASE Flush
  BY <1>2 DEF Flush, FlushesBar, FlushesNothing
<1> QED BY <1>1, <1>2 DEF Next

-----------------------------------------------------------------------------
(* Types. *)

LEMMA TypeInit == Init => TypeOK
  BY DEF Init, TypeOK, Results

LEMMA AcceptType ==
    ASSUME TypeOK, NEW c \in Input, NEW bar \in Bar, NEW done \in Seq(Candle),
           Accept(c, bar, done)
    PROVE  TypeOK'
  BY DEF TypeOK, Accept, Results

LEMMA TypeNext == TypeOK /\ [Next]_resVars => TypeOK'
<1> SUFFICES ASSUME TypeOK, [Next]_resVars PROVE TypeOK'
  OBVIOUS
<1>0. <<>> \in Seq(Candle)
  OBVIOUS
<1>1. ASSUME NEW c \in Input, Starts(c) PROVE TypeOK'
  BY <1>0, <1>1, InputFacts, AcceptType DEF Starts, Opened
<1>2. ASSUME NEW c \in Input, Grows(c) PROVE TypeOK'
  <2>1. Absorb(open, c) \in Bar
    BY <1>2, InputFacts, AbsorbType DEF Grows, TypeOK
  <2> QED BY <1>0, <1>2, <2>1, AcceptType DEF Grows
<1>3. ASSUME NEW c \in Input, RollsOver(c) PROVE TypeOK'
  <2>1. RollOut(open, Floor(c.ts)) \in Seq(Candle)
    BY <1>3, InputFacts, RollOutType DEF RollsOver, TypeOK
  <2> QED BY <1>3, <2>1, InputFacts, AcceptType DEF RollsOver, Opened
<1>4. CASE Refuses
  BY <1>4 DEF Refuses, Refuse, TypeOK
<1>5. ASSUME FlushesBar \/ FlushesNothing,
             open' = NoBar, inputs' = <<>>, series' = <<>>
      PROVE  TypeOK'
  <2>1. open # NoBar => <<Closed(open)>> \in Seq(Candle)
    BY ClosedType DEF TypeOK
  <2>2. out' \in Seq(Candle) /\ result' \in Results
    <3>1. CASE FlushesBar
      BY <2>1, <3>1 DEF FlushesBar, Results
    <3>2. CASE FlushesNothing
      BY <3>2 DEF FlushesNothing, Results
    <3> QED BY <1>5, <3>1, <3>2
  <2> QED BY <1>5, <2>2 DEF TypeOK
<1>6. CASE UNCHANGED resVars
  BY <1>6 DEF resVars, TypeOK
<1> QED BY <1>1, <1>2, <1>3, <1>4, <1>5, <1>6, StepCases

\* The resampler's variables keep their types; in particular every timestamp it
\* emits is representable.
THEOREM ResamplerTypes == Spec => []TypeOK
  BY TypeInit, TypeNext, PTL DEF Spec

-----------------------------------------------------------------------------
(* The candles that leave the resampler. *)

OpenWellFormed == open # NoBar => WellFormed(open)

ValidityInv == TypeOK /\ OpenWellFormed /\ EmitsValidCandles

LEMMA ValidityNext == ValidityInv /\ [Next]_resVars => ValidityInv'
<1> SUFFICES ASSUME ValidityInv, [Next]_resVars
             PROVE  (OpenWellFormed /\ EmitsValidCandles)'
  BY TypeNext DEF ValidityInv
<1>0. TypeOK
  BY DEF ValidityInv
<1>1. ASSUME NEW c \in Input, Starts(c)
      PROVE  (OpenWellFormed /\ EmitsValidCandles)'
  BY <1>1, InputFacts, OpenBarWellFormed
     DEF Starts, Accept, Opened, OpenWellFormed, EmitsValidCandles
<1>2. ASSUME NEW c \in Input, Grows(c)
      PROVE  (OpenWellFormed /\ EmitsValidCandles)'
  <2>1. WellFormed(Absorb(open, c))
    BY <1>0, <1>2, InputFacts, AbsorbWellFormed
       DEF Grows, ValidityInv, OpenWellFormed, TypeOK
  <2> QED BY <1>2, <2>1 DEF Grows, Accept, OpenWellFormed, EmitsValidCandles
<1>3. ASSUME NEW c \in Input, RollsOver(c)
      PROVE  (OpenWellFormed /\ EmitsValidCandles)'
  <2>1. open \in Bar /\ WellFormed(open) /\ Finite(open)
    BY <1>0, <1>3 DEF RollsOver, Rolls, ValidityInv, OpenWellFormed, TypeOK
  <2>2. open' = Opened(c) /\ out' = RollOut(open, Floor(c.ts))
    BY <1>3 DEF RollsOver, Accept
  <2>3. WellFormed(Opened(c))
    BY InputFacts, OpenBarWellFormed DEF Opened
  <2>4. \A i \in DOMAIN RollOut(open, Floor(c.ts)) :
            ValidCandle(RollOut(open, Floor(c.ts))[i])
    BY <2>1, InputFacts, RollOutValid
  <2> QED BY <2>2, <2>3, <2>4 DEF OpenWellFormed, EmitsValidCandles
<1>4. CASE Refuses
  BY <1>4 DEF Refuses, Refuse, ValidityInv, OpenWellFormed, EmitsValidCandles
<1>5. ASSUME FlushesBar \/ FlushesNothing, open' = NoBar
      PROVE  (OpenWellFormed /\ EmitsValidCandles)'
  <2>1. CASE FlushesBar
    <3>1. ValidCandle(Closed(open))
      BY <1>0, <2>1, ClosedValid DEF FlushesBar, ValidityInv, OpenWellFormed, TypeOK
    <3> QED BY <1>5, <2>1, <3>1 DEF FlushesBar, OpenWellFormed, EmitsValidCandles
  <2>2. CASE FlushesNothing
    BY <1>5, <2>2 DEF FlushesNothing, OpenWellFormed, EmitsValidCandles
  <2> QED BY <1>5, <2>1, <2>2
<1>6. CASE UNCHANGED resVars
  BY <1>6 DEF resVars, ValidityInv, OpenWellFormed, EmitsValidCandles
<1> QED BY <1>1, <1>2, <1>3, <1>4, <1>5, <1>6, StepCases

\* Every candle the resampler returns is ordered and of finite volume, the
\* placeholders built without validation included, whatever the order of the inputs.
THEOREM ResamplerEmitsValidCandles == Spec => []EmitsValidCandles
<1>1. Init => ValidityInv
  BY TypeInit DEF Init, ValidityInv, OpenWellFormed, EmitsValidCandles
<1>2. ValidityInv => EmitsValidCandles
  BY DEF ValidityInv
<1> QED BY <1>1, <1>2, ValidityNext, PTL DEF Spec

-----------------------------------------------------------------------------
(* The order of the candles. *)

\* An empty resampler owes nothing.
EmptyOwesNothing == open = NoBar => series = <<>>

OrderInv == TypeOK /\ EmptyOwesNothing /\ NeverBackwards

\* Rolling the open bar continues the series in strictly increasing time, up to the
\* bar that is opened.
LEMMA RollInOrder ==
    ASSUME OrderInv, open # NoBar, NEW next \in Timestamps, open.start < next,
           NEW last \in Candle, last.ts = next,
           NEW all, all = Append(series \o RollOut(open, next), last)
    PROVE  \A i \in 1 .. Len(all) - 1 : all[i].ts < all[i + 1].ts
<1> DEFINE n == Len(series)
           r == RollOut(open, next)
           k == Len(r)
           old == Append(series, Closed(open))
<1>1. open \in Bar /\ series \in Seq(Candle) /\ n \in Nat /\ Closed(open) \in Candle
  BY LenProperties, ClosedType DEF OrderInv, TypeOK
<1>2. /\ r \in Seq(Candle) /\ k \in Nat /\ k >= 1 /\ r[1].ts = open.start
      /\ \A i \in 1 .. k : r[i].ts < next
      /\ \A i \in 1 .. k - 1 : r[i].ts < r[i + 1].ts
  BY <1>1, RollOutInOrder
<1>3. /\ old[n + 1].ts = open.start
      /\ \A i \in 1 .. n : old[i] = series[i]
      /\ \A i \in 1 .. n : old[i].ts < old[i + 1].ts
  <2>1. Len(old) = n + 1 /\ old[n + 1] = Closed(open)
        /\ \A i \in 1 .. n : old[i] = series[i]
    BY <1>1, AppendProperties
  <2>2. \A i \in 1 .. Len(old) - 1 : old[i].ts < old[i + 1].ts
    BY DEF OrderInv, NeverBackwards
  <2>3. Len(old) - 1 = n
    BY <1>1, <2>1
  <2> QED BY <2>1, <2>2, <2>3 DEF Closed
<1> HIDE DEF n, r, k, old
<1>4. /\ series \o r \in Seq(Candle) /\ Len(series \o r) = n + k
      /\ \A i \in 1 .. n + k : (series \o r)[i] = IF i <= n THEN series[i] ELSE r[i - n]
  BY <1>1, <1>2, ConcatProperties DEF n, k
<1>5. /\ Len(all) = n + k + 1
      /\ \A i \in 1 .. n + k : all[i] = (series \o r)[i]
      /\ all[n + k + 1] = last
  BY <1>4, AppendProperties DEF r
<1>6. ASSUME NEW i \in 1 .. n PROVE all[i] = old[i]
  <2>1. i \in 1 .. n + k /\ i <= n
    BY <1>1, <1>2
  <2> QED BY <1>3, <1>4, <1>5, <2>1
<1>7. ASSUME NEW j \in 1 .. k PROVE all[n + j] = r[j]
  <2>1. n + j \in 1 .. n + k /\ ~(n + j <= n) /\ (n + j) - n = j
    BY <1>1, <1>2
  <2> QED BY <1>4, <1>5, <2>1
<1>8. ASSUME NEW i \in 1 .. n + k PROVE all[i].ts < all[i + 1].ts
  <2>1. CASE i + 1 \in 1 .. n
    <3>1. i \in 1 .. n
      BY <1>1, <2>1
    <3> QED BY <1>3, <1>6, <2>1, <3>1
  <2>2. CASE i = n
    <3>1. i \in 1 .. n /\ 1 \in 1 .. k
      BY <1>1, <1>2, <2>2
    <3>2. all[n + 1].ts = old[n + 1].ts
      BY <1>2, <1>3, <1>7, <3>1
    <3>3. old[n].ts < old[n + 1].ts /\ all[n] = old[n]
      BY <1>3, <1>6, <2>2, <3>1
    <3> QED BY <2>2, <3>2, <3>3
  <2>3. CASE i - n \in 1 .. k - 1
    <3> DEFINE j == i - n
    <3>1. j \in 1 .. k /\ j + 1 \in 1 .. k /\ i = n + j /\ i + 1 = n + (j + 1)
          /\ j \in 1 .. k - 1
      BY <1>1, <1>2, <2>3
    <3> HIDE DEF j
    <3>2. all[n + j] = r[j] /\ all[n + (j + 1)] = r[j + 1]
      BY <1>7, <3>1
    <3>3. r[j].ts < r[j + 1].ts
      BY <1>2, <3>1
    <3> QED BY <3>1, <3>2, <3>3
  <2>4. CASE i = n + k
    <3>1. k \in 1 .. k
      BY <1>2
    <3>2. all[n + k] = r[k] /\ r[k].ts < next
      BY <1>2, <1>7, <3>1
    <3>3. all[i + 1].ts = next
      BY <1>5, <2>4
    <3> QED BY <2>4, <3>2, <3>3
  <2>5. i + 1 \in 1 .. n \/ i = n \/ i - n \in 1 .. k - 1 \/ i = n + k
    BY <1>1, <1>2
  <2> QED BY <2>1, <2>2, <2>3, <2>4, <2>5
<1>9. Len(all) - 1 = n + k
  BY <1>1, <1>2, <1>5
<1> QED BY <1>8, <1>9

LEMMA OrderNext == OrderInv /\ [Next]_resVars => OrderInv'
<1> SUFFICES ASSUME OrderInv, [Next]_resVars
             PROVE  (EmptyOwesNothing /\ NeverBackwards)'
  BY TypeNext DEF OrderInv
<1>0. TypeOK /\ TypeOK'
  BY TypeNext DEF OrderInv
<1>1. ASSUME NEW c \in Input, Starts(c)
      PROVE  (EmptyOwesNothing /\ NeverBackwards)'
  <2>1. series = <<>> /\ series' = <<>> /\ open' = Opened(c) /\ open' # NoBar
    BY <1>1, InputFacts
       DEF Starts, First, Accept, OrderInv, EmptyOwesNothing, Opened
  <2>2. Len(Append(series', Closed(open'))) = 1
    BY <2>1
  <2> QED BY <2>1, <2>2 DEF EmptyOwesNothing, NeverBackwards
<1>2. ASSUME NEW c \in Input, Grows(c)
      PROVE  (EmptyOwesNothing /\ NeverBackwards)'
  <2>1. open \in Bar /\ open # NoBar /\ open' = Absorb(open, c) /\ series' = series
        /\ series \in Seq(Candle)
    BY <1>0, <1>2 DEF TypeOK, Grows, Accept
  <2>2. open' \in Bar /\ open' # NoBar /\ open'.start = open.start
    <3>1. Absorb(open, c) \in Bar
      BY <2>1, InputFacts, AbsorbType
    <3> QED BY <2>1, <3>1, NoBarAssumption DEF Absorb, Bar
  <2> DEFINE old == Append(series, Closed(open))
             new == Append(series, Closed(open'))
             n == Len(series)
  <2>3. /\ Closed(open) \in Candle /\ Closed(open') \in Candle
        /\ Closed(open).ts = Closed(open').ts
    BY <2>1, <2>2, ClosedType DEF Closed
  <2>4. n \in Nat /\ Len(old) = n + 1 /\ Len(new) = n + 1
        /\ \A i \in 1 .. n + 1 : old[i].ts = new[i].ts
    BY <2>1, <2>3, AppendProperties, LenProperties
  <2>5. \A i \in 1 .. Len(old) - 1 : old[i].ts < old[i + 1].ts
    BY <2>1 DEF OrderInv, NeverBackwards
  <2> HIDE DEF old, new, n
  <2>6. \A i \in 1 .. Len(new) - 1 : new[i].ts < new[i + 1].ts
    <3> SUFFICES ASSUME NEW i \in 1 .. n PROVE new[i].ts < new[i + 1].ts
      BY <2>4
    <3>1. i \in 1 .. n + 1 /\ i + 1 \in 1 .. n + 1 /\ i \in 1 .. Len(old) - 1
      BY <2>4
    <3> QED BY <2>4, <2>5, <3>1
  <2> QED BY <2>1, <2>2, <2>6 DEF EmptyOwesNothing, NeverBackwards, new
<1>3. ASSUME NEW c \in Input, RollsOver(c)
      PROVE  (EmptyOwesNothing /\ NeverBackwards)'
  <2> DEFINE next == Floor(c.ts)
             all == Append(series \o RollOut(open, next), Closed(Opened(c)))
  <2>1. /\ next \in Timestamps /\ open # NoBar /\ open.start < next
        /\ open' = Opened(c) /\ open' # NoBar
        /\ series' = series \o RollOut(open, next)
    BY <1>3, InputFacts DEF RollsOver, Accept, Opened
  <2>2. Closed(Opened(c)) \in Candle /\ Closed(Opened(c)).ts = next
    BY InputFacts, ClosedType DEF Opened, Closed
  <2>3. \A i \in 1 .. Len(all) - 1 : all[i].ts < all[i + 1].ts
    BY <2>1, <2>2, RollInOrder
  <2>4. all = Append(series', Closed(open'))
    BY <2>1
  <2> HIDE DEF all
  <2> QED BY <2>1, <2>3, <2>4 DEF EmptyOwesNothing, NeverBackwards
<1>4. CASE Refuses
  BY <1>4 DEF Refuses, Refuse, OrderInv, EmptyOwesNothing, NeverBackwards
<1>5. ASSUME open' = NoBar, series' = <<>>
      PROVE  (EmptyOwesNothing /\ NeverBackwards)'
  BY <1>5 DEF EmptyOwesNothing, NeverBackwards
<1>6. CASE UNCHANGED resVars
  BY <1>6 DEF resVars, OrderInv, EmptyOwesNothing, NeverBackwards
<1> QED BY <1>1, <1>2, <1>3, <1>4, <1>5, <1>6, StepCases

\* Whatever the order of the inputs, the candles come out in strictly increasing
\* time and before the open bar: placeholders never run into the bar they lead to,
\* not even where the arithmetic of the gap saturates.
THEOREM ResamplerNeverBackwards == Spec => []NeverBackwards
<1>1. Init => OrderInv
  BY TypeInit DEF Init, OrderInv, EmptyOwesNothing, NeverBackwards
<1>2. OrderInv => NeverBackwards
  BY DEF OrderInv
<1> QED BY <1>1, <1>2, OrderNext, PTL DEF Spec

-----------------------------------------------------------------------------
(* The resampler and the batch. *)

\* An empty resampler has seen nothing; otherwise, as long as the inputs came in the
\* order of time, the bar and the candles before it are the batch so far.
Batched ==
    /\ open = NoBar => series = <<>> /\ inputs = <<>>
    /\ open # NoBar =>
           inputs # <<>> /\ (Sorted(inputs) => SoFar(open, series, inputs))

BatchInv == TypeOK /\ Batched

LEMMA InputsAreCandles ==
    ASSUME TypeOK
    PROVE  inputs \in Seq(Candle)
  BY InputAssumption DEF TypeOK

LEMMA BatchNext ==
    ASSUME FillGaps => CapBelowRange
    PROVE  BatchInv /\ [Next]_resVars => BatchInv'
<1> SUFFICES ASSUME BatchInv, [Next]_resVars PROVE Batched'
  BY TypeNext DEF BatchInv
<1>0. TypeOK /\ Batched /\ inputs \in Seq(Candle)
  BY InputsAreCandles DEF BatchInv
<1>1. ASSUME NEW c \in Input, Starts(c) PROVE Batched'
  <2>1. c \in Candle /\ Opened(c) # NoBar
    BY InputFacts DEF Opened
  <2>2. /\ open' = Opened(c) /\ series' = <<>> /\ inputs' = Append(<<>>, c)
    BY <1>0, <1>1 DEF Starts, First, Accept, Batched
  <2>3. SoFar(open', series', inputs')
    BY <2>1, <2>2, SoFarFirst DEF Opened
  <2>4. inputs' # <<>>
    BY <2>2
  <2> QED BY <2>1, <2>2, <2>3, <2>4 DEF Batched
<1>2. ASSUME NEW c \in Input, Grows(c) PROVE Batched'
  <2>1. /\ open # NoBar /\ open \in Bar /\ c \in Candle
        /\ Floor(c.ts) = open.start
        /\ open' = Absorb(open, c) /\ series' = series /\ inputs' = Append(inputs, c)
    BY <1>0, <1>2, InputFacts DEF Grows, SameBucket, Accept, TypeOK
  <2>2. open' # NoBar
    BY <2>1, AbsorbType, NoBarAssumption
  <2>3. inputs # <<>> /\ inputs' # <<>>
    BY <1>0, <2>1 DEF Batched
  <2>4. ASSUME Sorted(inputs') PROVE SoFar(open', series', inputs')
    <3>1. Sorted(inputs) /\ \A i \in DOMAIN inputs : inputs[i].ts <= c.ts
      BY <1>0, <2>1, <2>4, SortedPrefix
    <3>2. Len(inputs) \in DOMAIN inputs
      BY <1>0, <2>3, LenProperties, EmptySeq
    <3>3. SoFar(open, series, inputs)
      BY <1>0, <2>1, <3>1 DEF Batched
    <3> QED BY <2>1, <3>1, <3>2, <3>3, SoFarSame
  <2> QED BY <2>2, <2>3, <2>4 DEF Batched
<1>3. ASSUME NEW c \in Input, RollsOver(c) PROVE Batched'
  <2>1. /\ open # NoBar /\ c \in Candle /\ open.start < Floor(c.ts)
        /\ Rolls(open, Floor(c.ts))
        /\ open' = Opened(c) /\ inputs' = Append(inputs, c)
        /\ series' = series \o RollOut(open, Floor(c.ts))
    BY <1>3, InputFacts DEF RollsOver, Accept
  <2>2. open' # NoBar
    BY <2>1, InputFacts DEF Opened
  <2>3. inputs' # <<>>
    BY <1>0, <2>1
  <2>4. ASSUME Sorted(inputs') PROVE SoFar(open', series', inputs')
    <3>1. Sorted(inputs)
      BY <1>0, <2>1, <2>4, SortedPrefix
    <3>2. SoFar(open, series, inputs)
      BY <1>0, <2>1, <3>1 DEF Batched
    <3> QED BY <2>1, <3>2, SoFarNext DEF Opened
  <2> QED BY <2>2, <2>3, <2>4 DEF Batched
<1>4. CASE Refuses
  BY <1>0, <1>4 DEF Refuses, Refuse, Batched
<1>5. ASSUME open' = NoBar, inputs' = <<>>, series' = <<>> PROVE Batched'
  BY <1>5 DEF Batched
<1>6. CASE UNCHANGED resVars
  BY <1>0, <1>6 DEF resVars, Batched
<1> QED BY <1>1, <1>2, <1>3, <1>4, <1>5, <1>6, StepCases

\* Streaming is batch here too: as long as the candles come in the order of time,
\* those returned since the last flush and the open one are what the accepted inputs
\* amount to.  A candle older than the last one of its bucket ends that, since the
\* resampler does not look; the aggregator, which does, needs no such proviso.
THEOREM ResamplerStreamingEqualsBatch ==
    ASSUME FillGaps => CapBelowRange
    PROVE  Spec => []StreamingEqualsBatch
<1>1. Init => BatchInv
  BY TypeInit DEF Init, BatchInv, Batched
<1>2. BatchInv /\ [Next]_resVars => BatchInv'
  BY BatchNext
<1>3. BatchInv => StreamingEqualsBatch
  <2> SUFFICES ASSUME Batched, open # NoBar, InTimeOrder
               PROVE  Append(series, Closed(open)) = Batch(inputs)
    BY DEF BatchInv, StreamingEqualsBatch
  <2>1. Sorted(inputs)
    BY DEF InTimeOrder, Sorted
  <2>2. IsBatch(Append(series, Closed(open)), inputs)
    BY <2>1 DEF Batched, SoFar
  <2> QED BY <2>2, BatchIs
<1> QED BY <1>1, <1>2, <1>3, PTL DEF Spec

-----------------------------------------------------------------------------
(* The handle. *)

LEMMA HandleStep == [HandleNext]_handleVars => [Next]_resVars
  BY DEF HandleNext, HandlePush, Drain, HandleFlush, Next, handleVars, resVars

\* The handle adds nothing to what the resampler does: what holds of the resampler
\* holds of it behind its handle.
THEOREM HandleUsesResampler == HandleSpec => Spec
<1>1. HandleInit => Init
  BY DEF HandleInit
<1> QED BY <1>1, HandleStep, PTL DEF HandleSpec, Spec

\* Seen through the handle too, the candles are valid and in order.
COROLLARY HandleCandlesInOrder ==
    HandleSpec => []EmitsValidCandles /\ []NeverBackwards
  BY HandleUsesResampler, ResamplerEmitsValidCandles, ResamplerNeverBackwards, PTL

HandleTypeOK ==
    /\ pending \in Seq(Candle)
    /\ owed \in Seq(Candle)
    /\ got \in Seq(Candle)
    /\ overrun \in BOOLEAN

DrainInv == TypeOK /\ HandleTypeOK /\ DrainIsLossless

\* Only a success returns candles.
LEMMA RefusalIsEmpty ==
    ASSUME NEW c \in Input, Push(c)
    PROVE  result' = "ok" \/ out' = <<>>
  BY DEF Push, First, SameBucket, NextBucket, RefuseOlder, Accept, Refuse

\* Taking some candles from the front of a buffer leaves the others.
LEMMA SplitBuffer ==
    ASSUME NEW s \in Seq(Candle), NEW n \in 0 .. Len(s)
    PROVE  /\ SubSeq(s, 1, n) \in Seq(Candle)
           /\ SubSeq(s, n + 1, Len(s)) \in Seq(Candle)
           /\ SubSeq(s, 1, n) \o SubSeq(s, n + 1, Len(s)) = s
<1>1. Len(s) \in Nat /\ \A i \in 1 .. Len(s) : s[i] \in Candle
  BY LenProperties, ElementOfSeq
<1>2. SubSeq(s, 1, n) \in Seq(Candle) /\ SubSeq(s, n + 1, Len(s)) \in Seq(Candle)
  BY <1>1, SubSeqProperties
<1>3. SubSeq(s, 1, n) \o SubSeq(s, n + 1, Len(s)) = SubSeq(s, 1, Len(s))
  <2>1. 1 \in 1 .. Len(s) + 1 /\ n \in 1 - 1 .. Len(s) /\ Len(s) \in n .. Len(s)
    BY <1>1
  <2> QED BY <2>1, ConcatAdjacentSubSeq
<1> QED BY <1>2, <1>3, SubSeqFull

LEMMA DrainNext == DrainInv /\ [HandleNext]_handleVars => DrainInv'
<1> SUFFICES ASSUME DrainInv, [HandleNext]_handleVars
             PROVE  (HandleTypeOK /\ DrainIsLossless)'
  BY TypeNext, HandleStep DEF DrainInv
<1>0. /\ TypeOK /\ HandleTypeOK /\ TypeOK'
      /\ out' \in Seq(Candle)
  BY TypeNext, HandleStep DEF DrainInv, TypeOK
<1>1. ASSUME NEW c \in Input, HandlePush(c)
      PROVE  (HandleTypeOK /\ DrainIsLossless)'
  <2>1. /\ Push(c) /\ owed' = owed \o out' /\ got' = got
        /\ pending' = IF result' = "ok" THEN out' ELSE pending
        /\ overrun' = (overrun \/ (pending # <<>> /\ result' = "ok"))
    BY <1>1 DEF HandlePush
  <2>2. HandleTypeOK'
    BY <1>0, <2>1, ConcatProperties DEF HandleTypeOK
  <2>3. CASE overrun'
    BY <2>2, <2>3 DEF DrainIsLossless
  <2>4. CASE ~overrun' /\ result' = "ok"
    <3>1. pending = <<>> /\ ~overrun /\ pending' = out'
      BY <2>1, <2>4
    <3>2. got \o pending = owed /\ got \o pending = got
      BY <1>0, <3>1, ConcatEmptySeq DEF DrainInv, DrainIsLossless, HandleTypeOK
    <3> QED BY <2>1, <2>2, <3>1, <3>2 DEF DrainIsLossless
  <2>5. CASE ~overrun' /\ result' # "ok"
    <3>1. out' = <<>> /\ ~overrun /\ pending' = pending
      BY <2>1, <2>5, RefusalIsEmpty
    <3>2. owed' = owed
      BY <1>0, <2>1, <3>1, ConcatEmptySeq DEF HandleTypeOK
    <3> QED BY <2>1, <2>2, <3>1, <3>2 DEF DrainInv, DrainIsLossless
  <2> QED BY <2>3, <2>4, <2>5
<1>2. ASSUME NEW cap \in Caps, Drain(cap)
      PROVE  (HandleTypeOK /\ DrainIsLossless)'
  <2> DEFINE n == Lesser(Len(pending), cap)
             front == SubSeq(pending, 1, n)
             back == SubSeq(pending, n + 1, Len(pending))
  <2>1. /\ got' = got \o front /\ pending' = back
        /\ owed' = owed /\ overrun' = overrun
    BY <1>2 DEF Drain
  <2>2. n \in 0 .. Len(pending)
    BY <1>0, HandleAssumption, LenProperties DEF HandleTypeOK, Lesser
  <2>3. front \in Seq(Candle) /\ back \in Seq(Candle) /\ front \o back = pending
    BY <1>0, <2>2, SplitBuffer DEF HandleTypeOK
  <2> HIDE DEF front, back
  <2>4. HandleTypeOK'
    BY <1>0, <2>1, <2>3, ConcatProperties DEF HandleTypeOK
  <2>5. (got \o front) \o back = got \o pending
    <3>1. got \in Seq(Candle) /\ front \in Seq(Candle) /\ back \in Seq(Candle)
      BY <1>0, <2>3 DEF HandleTypeOK
    <3>2. (got \o front) \o back = got \o (front \o back)
      BY <3>1, ConcatAssociative
    <3> QED BY <2>3, <3>2
  <2> QED BY <2>1, <2>4, <2>5 DEF DrainInv, DrainIsLossless
<1>3. CASE HandleFlush
  <2>1. /\ got' = got \o out' /\ owed' = owed \o out' /\ pending' = pending
        /\ overrun' = (overrun \/ (pending # <<>> /\ out' # <<>>))
    BY <1>3 DEF HandleFlush
  <2>2. HandleTypeOK'
    BY <1>0, <2>1, ConcatProperties DEF HandleTypeOK
  <2>3. CASE overrun'
    BY <2>2, <2>3 DEF DrainIsLossless
  <2>4. CASE ~overrun' /\ pending = <<>>
    <3>1. got = owed
      BY <1>0, <2>1, <2>4, ConcatEmptySeq DEF DrainInv, DrainIsLossless, HandleTypeOK
    <3>2. (got \o out') \o <<>> = got \o out'
      BY <1>0, ConcatProperties, ConcatEmptySeq DEF HandleTypeOK
    <3> QED BY <2>1, <2>2, <2>4, <3>1, <3>2 DEF DrainIsLossless
  <2>5. CASE ~overrun' /\ out' = <<>>
    <3>1. got' = got /\ owed' = owed /\ ~overrun
      BY <1>0, <2>1, <2>5, ConcatEmptySeq DEF HandleTypeOK
    <3> QED BY <2>1, <2>2, <3>1 DEF DrainInv, DrainIsLossless
  <2> QED BY <2>1, <2>3, <2>4, <2>5
<1>4. CASE UNCHANGED handleVars
  BY <1>0, <1>4 DEF handleVars, HandleTypeOK, DrainInv, DrainIsLossless
<1> QED BY <1>1, <1>2, <1>3, <1>4 DEF HandleNext

\* A caller that empties the handle's buffer before it takes in more obtains every
\* candle the resampler emitted, once and in order, with arrays of any size.
THEOREM HandleDrainIsLossless == HandleSpec => []DrainIsLossless
<1>1. HandleInit => DrainInv
  <2> SUFFICES ASSUME HandleInit PROVE DrainInv
    OBVIOUS
  <2>1. TypeOK
    BY TypeInit DEF HandleInit
  <2>2. HandleTypeOK
    <3>1. <<>> \in Seq(Candle)
      OBVIOUS
    <3>2. pending = <<>> /\ owed = <<>> /\ got = <<>> /\ overrun \in BOOLEAN
      BY DEF HandleInit
    <3> QED BY <3>1, <3>2 DEF HandleTypeOK
  <2>3. <<>> \o <<>> = <<>>
    OBVIOUS
  <2> QED BY <2>1, <2>2, <2>3 DEF HandleInit, DrainInv, DrainIsLossless
<1>2. DrainInv => DrainIsLossless
  BY DEF DrainInv
<1> QED BY <1>1, <1>2, DrainNext, PTL DEF HandleSpec

-----------------------------------------------------------------------------
(* The wrappers: none frees its handle twice, and none frees it under a    *)
(* running call, if the callers of a Java feed keep it until next returns. *)
(*                                                                         *)
(* The invariant is one wrapper's own, a part for each language: it says   *)
(* how often the handle was freed, read off the flags and the count, and   *)
(* what a running call implies about them.                                 *)

WrapperTypes ==
    /\ kind \in [Objects -> Kinds]
    /\ held \in [Objects -> BOOLEAN]
    /\ call \in [Objects -> Calls]
    /\ closed \in [Objects -> BOOLEAN]
    /\ armed \in [Objects -> BOOLEAN]
    /\ users \in [Objects -> Nat]
    /\ frees \in [Objects -> Nat]

GoInv(o) ==
    kind[o] = "go" =>
        /\ call[o] # "shut"
        /\ armed[o] <=> ~closed[o]
        /\ frees[o] = IF closed[o] \/ call[o] = "closing" THEN 1 ELSE 0
        /\ call[o] # "idle" => armed[o]

\* A wrapper whose finalization waits for its calls.
Kept(o) == kind[o] = "java" \/ (kind[o] = "java_feed" /\ "java_feed" \in Careful)

JavaInv(o) ==
    Java(o) =>
        /\ frees[o] = IF armed[o] THEN 0 ELSE 1
        /\ kind[o] = "java" => call[o] # "shut"
        /\ ~armed[o] => closed[o] \/ ~held[o]
        /\ call[o] = "closing" => closed[o]
        /\ Kept(o) /\ InLibrary(o) => armed[o]
        /\ kind[o] = "java_feed" /\ Kept(o) /\ call[o] \in Methods => held[o]

CSharpInv(o) ==
    kind[o] = "csharp" =>
        /\ call[o] \in Methods \cup {"idle"}
        /\ armed[o] <=> ~closed[o]
        /\ call[o] = "update" => ~closed[o]
        /\ users[o] = (IF closed[o] THEN 0 ELSE 1) + (IF call[o] = "batch" THEN 1 ELSE 0)
        /\ frees[o] = IF users[o] = 0 THEN 1 ELSE 0

WrapperInv == WrapperTypes /\ \A o \in Objects : GoInv(o) /\ JavaInv(o) /\ CSharpInv(o)

LEMMA InitWrapper == WrapperInit => WrapperInv
<1> SUFFICES ASSUME WrapperInit PROVE WrapperInv
  OBVIOUS
<1> USE DEF WrapperInit
<1>1. WrapperTypes
  BY DEF WrapperTypes, Calls
<1>2. ASSUME NEW o \in Objects PROVE GoInv(o) /\ JavaInv(o) /\ CSharpInv(o)
  BY <1>2 DEF GoInv, JavaInv, CSharpInv, Java, InLibrary, Methods
<1> QED BY <1>1, <1>2 DEF WrapperInv

\* A step of one wrapper leaves the others as they are.
Others(o) ==
    \A p \in Objects \ {o} :
        /\ kind'[p] = kind[p] /\ held'[p] = held[p] /\ call'[p] = call[p]
        /\ closed'[p] = closed[p] /\ armed'[p] = armed[p]
        /\ users'[p] = users[p] /\ frees'[p] = frees[p]

OneStep(o) ==
    \/ \E method \in Methods : Enter(o, method)
    \/ Drop(o)
    \/ GoClose(o) \/ JavaClose(o) \/ FeedShut(o) \/ Dispose(o)
    \/ Proceed(o)
    \/ Collect(o)

LEMMA StepFrame ==
    ASSUME WrapperTypes, NEW o \in Objects, OneStep(o)
    PROVE  Others(o)
<1> USE DEF WrapperTypes, Others
<1>1. ASSUME NEW method \in Methods, Enter(o, method) PROVE Others(o)
  BY <1>1 DEF Enter
<1>2. CASE Drop(o)
  BY <1>2 DEF Drop
<1>3. CASE GoClose(o)
  BY <1>3 DEF GoClose
<1>4. CASE JavaClose(o)
  BY <1>4 DEF JavaClose
<1>5. CASE FeedShut(o)
  BY <1>5 DEF FeedShut
<1>6. CASE Dispose(o)
  BY <1>6 DEF Dispose, Release
<1>7. CASE Return(o)
  BY <1>7 DEF Return
<1>8. CASE GoClosed(o)
  BY <1>8 DEF GoClosed
<1>9. CASE FeedClose(o)
  BY <1>9 DEF FeedClose
<1>10. CASE JavaClean(o)
  BY <1>10 DEF JavaClean, FreeAction
<1>11. CASE GoFinalize(o)
  BY <1>11 DEF GoFinalize
<1>12. CASE Cleaner(o)
  BY <1>12 DEF Cleaner, FreeAction
<1>13. CASE FinalizeSafeHandle(o)
  BY <1>13 DEF FinalizeSafeHandle, Release
<1> QED
  BY <1>1, <1>2, <1>3, <1>4, <1>5, <1>6, <1>7, <1>8, <1>9, <1>10, <1>11, <1>12, <1>13
  DEF OneStep, Proceed, Collect

LEMMA StepTypes ==
    ASSUME WrapperInv, NEW o \in Objects, OneStep(o)
    PROVE  WrapperTypes'
<1> WrapperTypes /\ GoInv(o) /\ JavaInv(o) /\ CSharpInv(o)
  BY DEF WrapperInv
<1> USE DEF WrapperTypes, Calls, Methods
<1>1. ASSUME NEW method \in Methods, Enter(o, method) PROVE WrapperTypes'
  BY <1>1 DEF Enter
<1>2. CASE Drop(o)
  BY <1>2 DEF Drop
<1>3. CASE GoClose(o)
  BY <1>3 DEF GoClose
<1>4. CASE JavaClose(o)
  BY <1>4 DEF JavaClose
<1>5. CASE FeedShut(o)
  BY <1>5 DEF FeedShut
<1>6. CASE Dispose(o)
  BY <1>6 DEF Dispose, Release, CSharpInv
<1>7. CASE Return(o)
  <2>1. CASE Counted(o, call[o])
    <3>1. users[o] - 1 \in Nat
      BY <2>1 DEF Counted, CSharpInv
    <3>2. users' = [users EXCEPT ![o] = users[o] - 1] /\ frees' \in [Objects -> Nat]
      BY <1>7, <2>1 DEF Return
    <3>3. users' \in [Objects -> Nat]
      BY <3>1, <3>2
    <3> QED BY <1>7, <3>2, <3>3 DEF Return
  <2>2. CASE ~Counted(o, call[o])
    BY <1>7, <2>2 DEF Return
  <2> QED BY <2>1, <2>2
<1>8. CASE GoClosed(o)
  BY <1>8 DEF GoClosed
<1>9. CASE FeedClose(o)
  BY <1>9 DEF FeedClose
<1>10. CASE JavaClean(o)
  BY <1>10 DEF JavaClean, FreeAction
<1>11. CASE GoFinalize(o)
  BY <1>11 DEF GoFinalize
<1>12. CASE Cleaner(o)
  BY <1>12 DEF Cleaner, FreeAction
<1>13. CASE FinalizeSafeHandle(o)
  BY <1>13 DEF FinalizeSafeHandle, Release, CSharpInv
<1> QED
  BY <1>1, <1>2, <1>3, <1>4, <1>5, <1>6, <1>7, <1>8, <1>9, <1>10, <1>11, <1>12, <1>13
  DEF OneStep, Proceed, Collect

\* One language at a time: the actions of the other two are not enabled.
LEMMA StepGo ==
    ASSUME WrapperInv, NEW o \in Objects, OneStep(o)
    PROVE  GoInv(o)'
<1> WrapperTypes /\ GoInv(o)
  BY DEF WrapperInv
<1> SUFFICES ASSUME kind'[o] = "go" PROVE GoInv(o)'
  BY DEF GoInv
<1>0. kind[o] = "go" /\ kind' = kind
  BY DEF OneStep, Enter, Drop, GoClose, JavaClose, FeedShut, Dispose, Release, Proceed,
         Return, GoClosed, FeedClose, JavaClean, Collect, GoFinalize, Cleaner,
         FinalizeSafeHandle
<1> USE <1>0 DEF WrapperTypes, GoInv, Methods
<1>1. ASSUME NEW method \in Methods, Enter(o, method) PROVE GoInv(o)'
  BY <1>1 DEF Enter, Ready
<1>2. CASE Drop(o)
  BY <1>2 DEF Drop
<1>3. CASE GoClose(o)
  BY <1>3 DEF GoClose, Ready
<1>4. CASE Return(o)
  BY <1>4 DEF Return, Counted
<1>5. CASE GoClosed(o)
  BY <1>5 DEF GoClosed
<1>6. CASE GoFinalize(o)
  BY <1>6 DEF GoFinalize, Reachable, Fenced, Calls
<1>7. CASE FeedClose(o)
  BY <1>7 DEF FeedClose
<1> QED
  BY <1>1, <1>2, <1>3, <1>4, <1>5, <1>6, <1>7
  DEF OneStep, Proceed, Collect, JavaClose, FeedShut, Dispose, JavaClean, Cleaner, Java,
      FinalizeSafeHandle

LEMMA StepJava ==
    ASSUME WrapperInv, NEW o \in Objects, OneStep(o)
    PROVE  JavaInv(o)'
<1> WrapperTypes /\ JavaInv(o)
  BY DEF WrapperInv
<1> SUFFICES ASSUME Java(o)' PROVE JavaInv(o)'
  BY DEF JavaInv
<1>0. Java(o) /\ kind' = kind
  BY DEF OneStep, Enter, Drop, GoClose, JavaClose, FeedShut, Dispose, Release, Proceed,
         Return, GoClosed, FeedClose, JavaClean, Collect, GoFinalize, Cleaner,
         FinalizeSafeHandle, Java
<1> USE <1>0 DEF WrapperTypes, JavaInv, Methods, Java, Kept, InLibrary
<1>1. ASSUME NEW method \in Methods, Enter(o, method) PROVE JavaInv(o)'
  BY <1>1 DEF Enter, Ready
<1>2. CASE Drop(o)
  BY <1>2 DEF Drop
<1>3. CASE JavaClose(o)
  BY <1>3 DEF JavaClose, Ready
<1>4. CASE FeedShut(o)
  BY <1>4 DEF FeedShut, Ready
<1>5. CASE Return(o)
  BY <1>5 DEF Return, Counted
<1>6. CASE FeedClose(o)
  BY <1>6 DEF FeedClose
<1>7. CASE JavaClean(o)
  BY <1>7 DEF JavaClean, FreeAction
<1>8. CASE Cleaner(o)
  BY <1>8 DEF Cleaner, FreeAction, Reachable, Fenced
<1> QED
  BY <1>1, <1>2, <1>3, <1>4, <1>5, <1>6, <1>7, <1>8
  DEF OneStep, Proceed, Collect, GoClose, GoClosed, GoFinalize, Dispose, FinalizeSafeHandle

LEMMA StepCSharp ==
    ASSUME WrapperInv, NEW o \in Objects, OneStep(o)
    PROVE  CSharpInv(o)'
<1> WrapperTypes /\ CSharpInv(o)
  BY DEF WrapperInv
<1> SUFFICES ASSUME kind'[o] = "csharp" PROVE CSharpInv(o)'
  BY DEF CSharpInv
<1>0. kind[o] = "csharp" /\ kind' = kind
  BY DEF OneStep, Enter, Drop, GoClose, JavaClose, FeedShut, Dispose, Release, Proceed,
         Return, GoClosed, FeedClose, JavaClean, Collect, GoFinalize, Cleaner,
         FinalizeSafeHandle
<1> USE <1>0 DEF WrapperTypes, CSharpInv, Methods
<1>1. ASSUME NEW method \in Methods, Enter(o, method) PROVE CSharpInv(o)'
  BY <1>1 DEF Enter, Ready, Counted
<1>2. CASE Drop(o)
  BY <1>2 DEF Drop
<1>3. CASE Return(o)
  BY <1>3 DEF Return, Counted
<1>4. CASE Dispose(o)
  BY <1>4 DEF Dispose, Release
<1>5. CASE FinalizeSafeHandle(o)
  BY <1>5 DEF FinalizeSafeHandle, Release, Reachable, Fenced
<1>6. CASE FeedClose(o)
  BY <1>6 DEF FeedClose
<1> QED
  BY <1>1, <1>2, <1>3, <1>4, <1>5, <1>6
  DEF OneStep, Proceed, Collect, GoClose, GoClosed, GoFinalize, JavaClose, FeedShut,
      JavaClean, Cleaner, Java

LEMMA NextWrapper == WrapperInv /\ [WrapperNext]_wrapperVars => WrapperInv'
<1> SUFFICES ASSUME WrapperInv, [WrapperNext]_wrapperVars PROVE WrapperInv'
  OBVIOUS
<1>1. ASSUME NEW o \in Objects, OneStep(o) PROVE WrapperInv'
  <2>1. WrapperTypes' /\ GoInv(o)' /\ JavaInv(o)' /\ CSharpInv(o)'
    BY <1>1, StepTypes, StepGo, StepJava, StepCSharp
  <2>2. Others(o)
    BY <1>1, StepFrame DEF WrapperInv
  <2>3. ASSUME NEW p \in Objects, p # o PROVE GoInv(p)' /\ JavaInv(p)' /\ CSharpInv(p)'
    BY <2>2, <2>3
    DEF WrapperInv, Others, GoInv, JavaInv, CSharpInv, Java, Kept, InLibrary
  <2> QED BY <2>1, <2>3 DEF WrapperInv
<1>2. CASE UNCHANGED wrapperVars
  BY <1>2 DEF wrapperVars, WrapperInv, WrapperTypes, GoInv, JavaInv, CSharpInv, Java, Kept,
              InLibrary
<1> QED BY <1>1, <1>2 DEF WrapperNext, OneStep

\* The invariant, for any set of wrappers of any of the four kinds.
THEOREM WrapperInvariant == WrapperSpec => []WrapperInv
<1> QED BY InitWrapper, NextWrapper, PTL DEF WrapperSpec

\* No order of closing, disposing, calls and the collector frees a handle twice.
THEOREM WrapperFreedOnce == WrapperSpec => []FreedOnce
<1>1. WrapperInv => FreedOnce
  <2> SUFFICES ASSUME WrapperInv, NEW o \in Objects PROVE frees[o] <= 1
    BY DEF FreedOnce
  <2>1. kind[o] \in Wrappers
    BY KindsAssumption DEF WrapperInv, WrapperTypes
  <2> QED BY <2>1 DEF WrapperInv, WrapperTypes, GoInv, JavaInv, CSharpInv, Java, Wrappers
<1> QED BY <1>1, WrapperInvariant, PTL

\* No handle is freed while a call of it is in the library, as long as whoever
\* calls next of a Java feed keeps the feed until it returns.
THEOREM WrapperNotFreedInUse ==
    ASSUME "java_feed" \in Kinds => "java_feed" \in Careful
    PROVE  WrapperSpec => []NotFreedInUse
<1>1. WrapperInv => NotFreedInUse
  <2> SUFFICES ASSUME WrapperInv, NEW o \in Objects, InLibrary(o) PROVE frees[o] = 0
    BY DEF NotFreedInUse
  <2>1. kind[o] \in Kinds /\ kind[o] \in Wrappers
    BY KindsAssumption DEF WrapperInv, WrapperTypes
  <2> QED
    BY <2>1 DEF WrapperInv, WrapperTypes, GoInv, JavaInv, CSharpInv, Java, Kept, InLibrary,
                Methods, Wrappers
<1> QED BY <1>1, WrapperInvariant, PTL

=============================================================================
