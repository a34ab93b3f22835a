--------------------------- MODULE Candles_proofs ---------------------------
(***************************************************************************)
(* The arithmetic of time buckets and gap filling, for every bucket size   *)
(* and every integer width, and the steps by which a bar and the candles   *)
(* before it stay what a batch over the accepted inputs defines, or its    *)
(* outline.                                                                *)
(***************************************************************************)
EXTENDS CandleBatch, SequenceTheorems, NaturalsInduction, WellFoundedInduction,
        FiniteSetTheorems, TLAPS

\* Division with remainder, in the form the solver can use.
LEMMA Euclid ==
    ASSUME NEW n \in Int, NEW d \in Int, d > 0
    PROVE  /\ n \div d \in Int
           /\ n % d \in 0 .. d - 1
           /\ n = d * (n \div d) + (n % d)
<1>1. n \div d \in Int
  OBVIOUS
<1>2. n % d \in 0 .. d - 1
  OBVIOUS
<1>3. n = d * (n \div d) + (n % d)
  OBVIOUS
<1> QED BY <1>1, <1>2, <1>3

\* Multiples of d compare as their factors do.
LEMMA Multiples ==
    ASSUME NEW i \in Int, NEW j \in Int, NEW d \in Int, d > 0, i < j
    PROVE  d * i + d <= d * j
<1>1. d * (i + 1) <= d * j
  OBVIOUS
<1> QED BY <1>1

LEMMA FloorFacts ==
    ASSUME NEW ts \in Timestamps
    PROVE  /\ Floor(ts) \in Timestamps
           /\ Floor(ts) <= ts
           /\ ts < Floor(ts) + Bucket
  BY TimeAssumption, Euclid DEF Floor, Timestamps, Greater

\* Two timestamps in order have their buckets in order.
LEMMA FloorMonotone ==
    ASSUME NEW s \in Timestamps, NEW t \in Timestamps, s <= t
    PROVE  Floor(s) <= Floor(t)
<1> DEFINE qs == s \div Bucket
           qt == t \div Bucket
<1>1. /\ qs \in Int /\ s - (s % Bucket) = Bucket * qs
      /\ qt \in Int /\ t - (t % Bucket) = Bucket * qt
      /\ s % Bucket \in 0 .. Bucket - 1 /\ t % Bucket \in 0 .. Bucket - 1
  BY Euclid, TimeAssumption DEF Timestamps
<1>2. qs <= qt
  <2> SUFFICES ASSUME qt < qs PROVE FALSE
    BY <1>1
  <2>1. Bucket * qt + Bucket <= Bucket * qs
    BY <1>1, Multiples, TimeAssumption
  <2> QED BY <1>1, <2>1, TimeAssumption DEF Timestamps
<1>3. Bucket * qs <= Bucket * qt
  <2>1. CASE qs = qt
    BY <2>1, <1>1, TimeAssumption
  <2>2. CASE qs < qt
    <3>1. Bucket * qs + Bucket <= Bucket * qt
      BY <2>2, <1>1, Multiples, TimeAssumption
    <3> QED BY <3>1, <1>1, TimeAssumption
  <2> QED BY <1>1, <1>2, <2>1, <2>2
<1> QED BY <1>1, <1>3, TimeAssumption DEF Floor, Greater, Timestamps

\* A later bucket starts at least one bucket size later, unless the earlier one
\* was cut off at the lowest timestamp.
LEMMA NextBucketStart ==
    ASSUME NEW s \in Timestamps, NEW t \in Timestamps, Floor(s) < Floor(t)
    PROVE  Floor(s) + Bucket <= Floor(t) \/ Floor(s) = TsMin
<1> DEFINE qs == s \div Bucket
           qt == t \div Bucket
<1>1. /\ qs \in Int /\ s - (s % Bucket) = Bucket * qs
      /\ qt \in Int /\ t - (t % Bucket) = Bucket * qt
      /\ s % Bucket \in 0 .. Bucket - 1 /\ t % Bucket \in 0 .. Bucket - 1
  BY Euclid, TimeAssumption DEF Timestamps
<1>2. CASE Floor(s) # TsMin
  <2>1. Floor(s) = Bucket * qs /\ TsMin < Floor(s)
    BY <1>1, <1>2, TimeAssumption DEF Floor, Greater, Timestamps
  <2>2. Floor(t) = Bucket * qt
    BY <1>1, <2>1, TimeAssumption DEF Floor, Greater, Timestamps
  <2>3. qs < qt
    <3> SUFFICES ASSUME qt <= qs PROVE FALSE
      BY <1>1
    <3>1. qt < qs \/ qt = qs
      BY <1>1
    <3>2. Bucket * qt <= Bucket * qs
      BY <1>1, <3>1, Multiples, TimeAssumption
    <3> QED BY <2>1, <2>2, <3>2, <1>1, TimeAssumption
  <2> QED BY <1>1, <2>1, <2>2, <2>3, Multiples, TimeAssumption
<1> QED BY <1>2

\* The timestamp overflow that fill_flat_candles guards against cannot happen: a
\* bar is only rolled towards a later bucket, and that bucket starts within the
\* integer range at or after the first placeholder.
THEOREM RolledBarNeverOverflows ==
    ASSUME NEW s \in Timestamps, NEW t \in Timestamps, Floor(s) < Floor(t)
    PROVE  FirstFillerFits(Floor(s))
<1>1. CASE Floor(s) = TsMin
  BY <1>1, TimeAssumption DEF FirstFillerFits
<1>2. CASE Floor(s) + Bucket <= Floor(t)
  BY <1>2, FloorFacts, TimeAssumption DEF FirstFillerFits, Timestamps
<1> QED BY <1>1, <1>2, NextBucketStart

-----------------------------------------------------------------------------
(* Gap filling between two buckets that the lowest timestamp does not cut.   *)

Uncut(ts) == ts - (ts % Bucket) >= TsMin

\* A multiple divides without remainder.
LEMMA DivideMultiple ==
    ASSUME NEW k \in Int, NEW d \in Int, d > 0
    PROVE  (d * k) \div d = k /\ (d * k) % d = 0
<1> DEFINE n == d * k
           q == n \div d
<1>1. n \in Int /\ q \in Int /\ n % d \in 0 .. d - 1 /\ n = d * q + (n % d)
  BY Euclid
<1> HIDE DEF n
<1>2. d * k = d * q + (n % d)
  BY <1>1 DEF n
<1>3. ~(q < k)
  <2> SUFFICES ASSUME q < k PROVE FALSE
    OBVIOUS
  <2>1. d * q + d <= d * k
    BY <1>1, Multiples
  <2> QED BY <1>1, <1>2, <2>1
<1>4. ~(k < q)
  <2> SUFFICES ASSUME k < q PROVE FALSE
    OBVIOUS
  <2>1. d * k + d <= d * q
    BY <1>1, Multiples
  <2> QED BY <1>1, <1>2, <2>1
<1>5. q = k
  BY <1>1, <1>3, <1>4
<1> QED BY <1>1, <1>2, <1>5 DEF n

\* The cap is worth something: a gap wider than the integer range holds more
\* buckets than the cap.
CapBelowRange == MaxGap * Bucket < TsMax

\* A gap that is filled is filled completely: the placeholders and the next bar
\* continue the closed bar one bucket size apart.
LEMMA GapIsFilled ==
    ASSUME CapBelowRange,
           NEW s \in Timestamps, NEW t \in Timestamps, Uncut(s), Uncut(t),
           Floor(s) < Floor(t), Fillable(Floor(s), Floor(t))
    PROVE  /\ GapCount(Floor(s), Floor(t)) \in Nat
           /\ Floor(t) = Floor(s) + Bucket
                            + GapCount(Floor(s), Floor(t)) * Bucket
<1> DEFINE prev == Floor(s)
           next == Floor(t)
           qs == s \div Bucket
           qt == t \div Bucket
           k == qt - qs - 1
           room == next - (prev + Bucket)
           span == Lesser(room, TsMax)
<1>0. Bucket \in Int /\ Bucket > 0 /\ TsMax \in Int /\ MaxGap \in Nat
  BY TimeAssumption, CandleAssumption
<1>1. /\ qs \in Int /\ s - (s % Bucket) = Bucket * qs
      /\ qt \in Int /\ t - (t % Bucket) = Bucket * qt
      /\ s % Bucket \in 0 .. Bucket - 1 /\ t % Bucket \in 0 .. Bucket - 1
  BY Euclid, TimeAssumption DEF Timestamps
<1>2. prev = Bucket * qs /\ next = Bucket * qt
  BY <1>1, TimeAssumption DEF Floor, Greater, Uncut, Timestamps
<1>3. qs < qt
  <2> SUFFICES ASSUME qt <= qs PROVE FALSE
    BY <1>1
  <2>1. CASE qt = qs
    <3>1. prev = next
      BY <2>1, <1>2
    <3> QED BY <3>1, FloorFacts, TimeAssumption DEF Timestamps
  <2>2. CASE qt < qs
    <3>1. Bucket * qt + Bucket <= Bucket * qs
      BY <2>2, <1>0, <1>1, Multiples
    <3> QED BY <3>1, <1>0, <1>1, <1>2, FloorFacts DEF Timestamps
  <2> QED BY <1>1, <2>1, <2>2
<1>4. k \in Nat /\ room = Bucket * k /\ Bucket * k >= 0 /\ room \in Nat
  <2>1. k \in Nat
    BY <1>1, <1>3
  <2>2. room = Bucket * qt - (Bucket * qs + Bucket)
    BY <1>2
  <2>3. Bucket * k = Bucket * qt - Bucket * qs - Bucket
    BY <1>0, <1>1
  <2>4. Bucket * k \in Int
    BY <1>0, <2>1
  <2>5. Bucket * k >= 0
    BY <1>0, <2>1
  <2>6. Bucket * qs \in Int /\ Bucket * qt \in Int
    BY <1>0, <1>1
  <2> QED BY <1>0, <2>1, <2>2, <2>3, <2>4, <2>5, <2>6
<1>k. k \in Nat
  BY <1>1, <1>3
<1>5. room <= TsMax
  <2> SUFFICES ASSUME TsMax < room PROVE FALSE
    BY <1>0, <1>4
  <2> DEFINE q == TsMax \div Bucket
             r == TsMax % Bucket
             n == GapCount(prev, next)
  <2>1. span = TsMax /\ TsMax > 0
    BY <1>0, <1>4, TimeAssumption DEF Lesser
  <2>2. q \in Int /\ r \in 0 .. Bucket - 1 /\ TsMax = Bucket * q + r
    BY <1>0, Euclid
  <2>3. n = q + (IF r = 0 THEN 0 ELSE 1)
    <3>1. ~(span <= 0)
      BY <2>1, <1>0
    <3> QED BY <3>1, <2>1 DEF GapCount
  <2>4. n <= MaxGap
    BY DEF Fillable
  <2> HIDE DEF n, q, r
  <2>5. TsMax <= Bucket * n
    <3>1. CASE r = 0
      BY <3>1, <2>2, <2>3, <1>0
    <3>2. CASE r # 0
      <4>1. Bucket * n = Bucket * q + Bucket
        BY <3>2, <2>2, <2>3, <1>0
      <4>2. Bucket * q \in Int
        BY <2>2, <1>0
      <4> QED BY <4>1, <4>2, <2>2, <1>0
    <3> QED BY <3>1, <3>2
  <2>6. Bucket * n <= Bucket * MaxGap
    <3>1. n \in Int
      BY <2>2, <2>3
    <3>2. CASE n = MaxGap
      BY <3>2, <1>0
    <3>3. CASE n < MaxGap
      <4>1. Bucket * n + Bucket <= Bucket * MaxGap
        BY <3>1, <3>3, <1>0, Multiples
      <4>2. Bucket * n \in Int /\ Bucket * MaxGap \in Int
        BY <3>1, <1>0
      <4> QED BY <4>1, <4>2, <1>0
    <3> QED BY <3>1, <3>2, <3>3, <2>4, <1>0
  <2>7. Bucket * MaxGap = MaxGap * Bucket /\ Bucket * MaxGap \in Int
        /\ Bucket * n \in Int
    BY <1>0, <2>2, <2>3
  <2> QED BY <2>5, <2>6, <2>7, <1>0 DEF CapBelowRange
<1>6. span = room
  BY <1>0, <1>4, <1>5 DEF Lesser
<1>7. GapCount(prev, next) = k
  <2>1. CASE room = 0
    <3>1. k = 0
      <4> SUFFICES ASSUME k # 0 PROVE FALSE
        OBVIOUS
      <4>4. Bucket * k = 0
        BY <2>1, <1>4
      <4> HIDE DEF k
      <4>1. k \in Int /\ 0 < k
        BY <1>k
      <4>2. Bucket * 0 + Bucket <= Bucket * k
        BY <4>1, <1>0, Multiples
      <4>3. Bucket * 0 = 0
        BY <1>0
      <4> QED BY <4>2, <4>3, <4>4, <1>0
    <3> QED BY <2>1, <3>1, <1>6 DEF GapCount
  <2>2. CASE room # 0
    <3>1. room \div Bucket = k /\ room % Bucket = 0
      BY <1>0, <1>4, DivideMultiple
    <3>2. ~(room <= 0)
      BY <2>2, <1>4
    <3> QED BY <3>1, <3>2, <1>4, <1>6 DEF GapCount
  <2> QED BY <2>1, <2>2
<1>8. next = prev + Bucket + k * Bucket
  <2>1. k * Bucket = Bucket * k
    BY <1>0, <1>4
  <2>2. prev \in Int /\ next \in Int
    BY FloorFacts, TimeAssumption DEF Timestamps
  <2> QED BY <1>0, <1>4, <2>1, <2>2
<1> QED BY <1>4, <1>7, <1>8

-----------------------------------------------------------------------------
(* The operators are well typed. *)

LEMMA OpenBarType ==
    ASSUME NEW c \in Candle
    PROVE  OpenBar(c, Floor(c.ts)) \in Bar
<1>1. Floor(c.ts) \in Timestamps
  BY FloorFacts DEF Candle
<1> QED BY <1>1 DEF OpenBar, Candle, Bar

LEMMA AbsorbType ==
    ASSUME NEW bar \in Bar, NEW c \in Candle
    PROVE  Absorb(bar, c) \in Bar
<1>1. AddVolume(bar.volume, c.volume) \in Volumes
  BY CandleAssumption DEF AddVolume, Lesser, Volumes, Bar, Candle
<1>2. Greater(bar.high, c.high) \in Int /\ Lesser(bar.low, c.low) \in Int
  BY DEF Greater, Lesser, Bar, Candle
<1> QED BY <1>1, <1>2 DEF Absorb, Bar, Candle

LEMMA ClosedType ==
    ASSUME NEW bar \in Bar
    PROVE  Closed(bar) \in Candle
  BY DEF Closed, Bar, Candle

LEMMA GapCountType ==
    ASSUME NEW prev \in Timestamps, NEW next \in Timestamps
    PROVE  GapCount(prev, next) \in Nat
<1> DEFINE span == Lesser(next - (prev + Bucket), TsMax)
<1>1. span \in Int
  BY TimeAssumption DEF Timestamps, Lesser
<1>2. CASE span <= 0
  BY <1>2 DEF GapCount
<1>3. CASE ~(span <= 0)
  <2>1. span \div Bucket \in Nat
    <3> HIDE DEF span
    <3>1. /\ span \div Bucket \in Int
          /\ span % Bucket \in 0 .. Bucket - 1
          /\ span = Bucket * (span \div Bucket) + (span % Bucket)
      BY <1>1, Euclid, TimeAssumption
    <3> DEFINE q == span \div Bucket
    <3>2. ~(q < 0)
      <4> SUFFICES ASSUME q < 0 PROVE FALSE
        OBVIOUS
      <4>0. q \in Int /\ 0 \in Int /\ q < 0 /\ Bucket \in Int /\ Bucket > 0
        BY <3>1, TimeAssumption
      <4> HIDE DEF q
      <4>1. Bucket * q + Bucket <= Bucket * 0
        BY <4>0, Multiples
      <4>2. Bucket * 0 = 0
        BY TimeAssumption
      <4> QED BY <4>1, <4>2, <3>1, <1>1, <1>3, TimeAssumption DEF q
    <3> QED BY <3>1, <3>2
  <2> QED BY <1>3, <2>1 DEF GapCount
<1> QED BY <1>2, <1>3

LEMMA FillersType ==
    ASSUME NEW prev \in Timestamps, NEW next \in Timestamps, NEW price \in Int
    PROVE  /\ Fillers(price, prev, next) \in Seq(Candle)
           /\ Len(Fillers(price, prev, next)) = GapCount(prev, next)
<1> DEFINE n == GapCount(prev, next)
<1>1. n \in Nat
  BY GapCountType
<1>2. ASSUME NEW i \in 1 .. n
      PROVE  Flat(price, Lesser(prev + i * Bucket, TsMax)) \in Candle
  <2>1. i \in Nat /\ i * Bucket \in Nat
    BY <1>1, TimeAssumption
  <2>2. Lesser(prev + i * Bucket, TsMax) \in Timestamps
    BY <2>1, TimeAssumption DEF Lesser, Timestamps
  <2> QED BY <2>2, CandleAssumption DEF Flat, Candle, Volumes
<1> HIDE DEF n
<1>3. [i \in 1 .. n |-> Flat(price, Lesser(prev + i * Bucket, TsMax))]
          \in Seq(Candle)
  BY <1>1, <1>2
<1> QED BY <1>1, <1>3 DEF Fillers, n

LEMMA RollOutType ==
    ASSUME NEW bar \in Bar, NEW next \in Timestamps
    PROVE  RollOut(bar, next) \in Seq(Candle)
<1>1. <<Closed(bar)>> \in Seq(Candle)
  BY ClosedType
<1>2. Fillers(bar.close, bar.start, next) \in Seq(Candle)
  BY FillersType DEF Bar
<1> QED BY <1>1, <1>2 DEF RollOut

-----------------------------------------------------------------------------
(* Bars that are ordered close as valid candles. *)

WellFormed(bar) ==
    /\ bar.low <= bar.open /\ bar.low <= bar.close
    /\ bar.open <= bar.high /\ bar.close <= bar.high

\* The bar a valid candle opens is ordered, and stays so when it absorbs another.
LEMMA OpenBarWellFormed ==
    ASSUME NEW c \in Candle, ValidCandle(c), NEW start
    PROVE  WellFormed(OpenBar(c, start))
  BY DEF WellFormed, OpenBar, ValidCandle

LEMMA AbsorbWellFormed ==
    ASSUME NEW bar \in Bar, NEW c \in Candle, WellFormed(bar), ValidCandle(c)
    PROVE  WellFormed(Absorb(bar, c))
<1>1. /\ bar.open \in Int /\ bar.high \in Int /\ bar.low \in Int
      /\ bar.close \in Int
      /\ c.open \in Int /\ c.high \in Int /\ c.low \in Int /\ c.close \in Int
  BY DEF Bar, Candle
<1>2. /\ Absorb(bar, c).open = bar.open
      /\ Absorb(bar, c).close = c.close
      /\ Absorb(bar, c).high = Greater(bar.high, c.high)
      /\ Absorb(bar, c).low = Lesser(bar.low, c.low)
  BY DEF Absorb, Bar
<1> QED BY <1>1, <1>2 DEF WellFormed, ValidCandle, Greater, Lesser

LEMMA ClosedValid ==
    ASSUME NEW bar \in Bar, WellFormed(bar), Finite(bar)
    PROVE  ValidCandle(Closed(bar))
  BY DEF Closed, WellFormed, Finite, ValidCandle

LEMMA RollOutValid ==
    ASSUME NEW bar \in Bar, NEW next \in Timestamps, WellFormed(bar), Finite(bar)
    PROVE  \A i \in DOMAIN RollOut(bar, next) : ValidCandle(RollOut(bar, next)[i])
<1> DEFINE f == IF FillGaps THEN Fillers(bar.close, bar.start, next) ELSE <<>>
           c == Closed(bar)
<1>1. c \in Candle /\ ValidCandle(c)
  BY ClosedType, ClosedValid
<1>2. f \in Seq(Candle)
  BY FillersType DEF Bar
<1>3. ASSUME NEW j \in 1 .. Len(f) PROVE ValidCandle(f[j])
  <2>1. CASE FillGaps
    <3>1. j \in 1 .. GapCount(bar.start, next)
      BY <2>1, FillersType DEF Bar
    <3>2. bar.close \in Int /\ Infinity \in Nat \ {0}
      BY CandleAssumption DEF Bar
    <3> QED BY <2>1, <3>1, <3>2 DEF Fillers, Flat, ValidCandle
  <2>2. CASE ~FillGaps
    BY <1>2, <2>2
  <2> QED BY <2>1, <2>2
<1>4. RollOut(bar, next) = <<c>> \o f
  BY DEF RollOut
<1> HIDE DEF f, c
<1>5. <<c>> \in Seq(Candle) /\ Len(<<c>>) = 1 /\ <<c>>[1] = c /\ Len(f) \in Nat
  BY <1>1, <1>2, LenProperties
<1>6. /\ <<c>> \o f \in Seq(Candle) /\ Len(<<c>> \o f) = 1 + Len(f)
      /\ \A i \in 1 .. 1 + Len(f) :
            (<<c>> \o f)[i] = IF i <= 1 THEN <<c>>[i] ELSE f[i - 1]
  BY <1>2, <1>5, ConcatProperties
<1>7. ASSUME NEW i \in 1 .. 1 + Len(f) PROVE ValidCandle((<<c>> \o f)[i])
  <2>1. CASE i = 1
    BY <1>1, <1>5, <1>6, <2>1
  <2>2. CASE i # 1
    <3>1. i - 1 \in 1 .. Len(f) /\ ~(i <= 1)
      BY <1>5, <2>2
    <3> QED BY <1>3, <1>6, <3>1
  <2> QED BY <2>1, <2>2
<1>8. DOMAIN (<<c>> \o f) = 1 .. 1 + Len(f)
  BY <1>6, LenProperties
<1> QED BY <1>4, <1>7, <1>8

-----------------------------------------------------------------------------
(* The order of an emission. *)

\* What an emission does to the list of candles.
LEMMA RolledSeries ==
    ASSUME NEW old \in Seq(Candle), NEW c \in Candle, NEW f \in Seq(Candle),
           NEW last \in Candle
    PROVE  LET all == Append(old \o (<<c>> \o f), last)
               n == Len(old)
           IN  /\ Len(old \o (<<c>> \o f)) = n + 1 + Len(f)
               /\ \A i \in 1 .. n : all[i] = old[i]
               /\ all[n + 1] = c
               /\ \A j \in 1 .. Len(f) : all[n + 1 + j] = f[j]
               /\ all[n + 2 + Len(f)] = last
<1> DEFINE g == <<c>> \o f
           h == old \o g
           all == Append(h, last)
           n == Len(old)
           m == Len(f)
<1>0. n \in Nat /\ m \in Nat
  BY LenProperties
<1>1. g \in Seq(Candle) /\ Len(g) = 1 + m
      /\ \A j \in 1 .. 1 + m : g[j] = IF j <= 1 THEN c ELSE f[j - 1]
  <2>1. <<c>> \in Seq(Candle) /\ Len(<<c>>) = 1 /\ <<c>>[1] = c
    OBVIOUS
  <2>2. \A j \in 1 .. 1 + m : j <= 1 => j = 1
    BY <1>0
  <2> QED BY <2>1, <2>2, ConcatProperties
<1> HIDE DEF g
<1>2. h \in Seq(Candle) /\ Len(h) = n + Len(g)
      /\ \A i \in 1 .. n + Len(g) : h[i] = IF i <= n THEN old[i] ELSE g[i - n]
  BY <1>1, ConcatProperties
<1> HIDE DEF h
<1>3. /\ \A i \in 1 .. Len(h) : all[i] = h[i]
      /\ all[Len(h) + 1] = last
  BY <1>2, AppendProperties
<1>4. Len(h) = n + 1 + m
  BY <1>0, <1>1, <1>2
<1> HIDE DEF all, n, m
<1>5. ASSUME NEW i \in 1 .. n PROVE all[i] = old[i]
  BY <1>0, <1>1, <1>2, <1>3, <1>4
<1>6. all[n + 1] = c
  <2>1. h[n + 1] = g[1] /\ g[1] = c /\ n + 1 \in 1 .. Len(h)
    BY <1>0, <1>1, <1>2, <1>4
  <2> QED BY <2>1, <1>3
<1>7. ASSUME NEW j \in 1 .. m PROVE all[n + 1 + j] = f[j]
  <2>1. n + 1 + j \in 1 .. Len(h) /\ h[n + 1 + j] = g[1 + j]
    BY <1>0, <1>1, <1>2, <1>4
  <2>2. g[1 + j] = f[j]
    BY <1>0, <1>1
  <2> QED BY <2>1, <2>2, <1>3
<1>8. all[n + 2 + m] = last
  BY <1>0, <1>3, <1>4
<1> QED BY <1>4, <1>5, <1>6, <1>7, <1>8 DEF all, g, h, n, m

\* Every placeholder lies behind the bar before the gap and before the bar after
\* it, also when the span saturates or the lowest timestamp cuts the first bucket.
LEMMA FillerBeforeNext ==
    ASSUME NEW prev \in Timestamps, NEW next \in Timestamps,
           NEW i \in 1 .. GapCount(prev, next)
    PROVE  /\ i * Bucket \in Nat /\ i * Bucket >= Bucket
           /\ prev + i * Bucket < next
<1> DEFINE span == Lesser(next - (prev + Bucket), TsMax)
           q == span \div Bucket
           r == span % Bucket
           n == GapCount(prev, next)
<1>0. /\ Bucket \in Nat /\ Bucket > 0 /\ TsMax \in Int
      /\ prev \in Int /\ next \in Int
  BY TimeAssumption DEF Timestamps
<1>1. n \in Nat /\ i \in Nat /\ 1 <= i /\ i <= n
  BY GapCountType
<1>2. span \in Int /\ span <= next - (prev + Bucket)
  BY <1>0 DEF Lesser
<1>3. q \in Int /\ r \in 0 .. Bucket - 1 /\ span = Bucket * q + r
  <2> HIDE DEF span
  <2> QED BY <1>0, <1>2, Euclid
<1>4. n = q + (IF r = 0 THEN 0 ELSE 1)
  <2>1. ~(span <= 0)
    BY <1>1 DEF GapCount
  <2> QED BY <2>1 DEF GapCount
<1> HIDE DEF n, q, r, span
<1>5. Bucket * n < span + Bucket
  <2>1. CASE r = 0
    BY <1>0, <1>3, <1>4, <2>1
  <2>2. CASE r # 0
    <3>1. Bucket * n = Bucket * q + Bucket /\ Bucket * q \in Int
      BY <1>0, <1>3, <1>4, <2>2
    <3> QED BY <1>0, <1>3, <2>2, <3>1
  <2> QED BY <2>1, <2>2
<1>6. Bucket * i <= Bucket * n
  <2>1. CASE i = n
    BY <1>0, <1>1, <2>1
  <2>2. CASE i < n
    <3>1. Bucket * i + Bucket <= Bucket * n
      BY <1>0, <1>1, <2>2, Multiples
    <3> QED BY <1>0, <1>1, <3>1
  <2> QED BY <1>1, <2>1, <2>2
<1>7. i * Bucket = Bucket * i /\ Bucket * i \in Nat /\ Bucket * n \in Int
  BY <1>0, <1>1
<1>8. Bucket * i >= Bucket
  <2>1. CASE i = 1
    BY <1>0, <2>1
  <2>2. CASE 1 < i
    <3>1. Bucket * 1 + Bucket <= Bucket * i
      BY <1>0, <1>1, <2>2, Multiples
    <3>2. Bucket * 1 = Bucket
      BY <1>0
    <3> QED BY <1>0, <1>7, <3>1, <3>2
  <2> QED BY <1>1, <2>1, <2>2
<1> QED BY <1>0, <1>2, <1>5, <1>6, <1>7, <1>8

\* The placeholders of a gap come in strictly increasing time.
LEMMA FillersInOrder ==
    ASSUME NEW prev \in Timestamps, NEW next \in Timestamps, NEW price \in Int
    PROVE  LET f == Fillers(price, prev, next)
           IN  /\ \A i \in 1 .. Len(f) : prev < f[i].ts /\ f[i].ts < next
               /\ \A i \in 1 .. Len(f) - 1 : f[i].ts < f[i + 1].ts
<1> DEFINE f == Fillers(price, prev, next)
           n == GapCount(prev, next)
<1>0. /\ Bucket \in Nat /\ Bucket > 0 /\ TsMax \in Int
      /\ prev \in Int /\ next \in Int /\ next <= TsMax
  BY TimeAssumption DEF Timestamps
<1>1. Len(f) = n /\ n \in Nat
  BY FillersType, GapCountType
<1>2. ASSUME NEW i \in 1 .. n
      PROVE  /\ f[i].ts = prev + i * Bucket
             /\ i * Bucket \in Nat /\ i * Bucket >= Bucket
             /\ prev + i * Bucket < next
  <2>1. f[i].ts = Lesser(prev + i * Bucket, TsMax)
    BY DEF Fillers, Flat
  <2>2. i * Bucket \in Nat /\ i * Bucket >= Bucket /\ prev + i * Bucket < next
    BY FillerBeforeNext
  <2> DEFINE x == i * Bucket
  <2>3. x \in Nat /\ prev + x < next /\ f[i].ts = Lesser(prev + x, TsMax)
    BY <2>1, <2>2
  <2> HIDE DEF x
  <2>4. f[i].ts = prev + x
    BY <1>0, <2>3 DEF Lesser
  <2> QED BY <2>2, <2>4 DEF x
<1> HIDE DEF f, n
<1>3. ASSUME NEW i \in 1 .. n PROVE prev < f[i].ts /\ f[i].ts < next
  BY <1>0, <1>2
<1>4. ASSUME NEW i \in 1 .. n - 1 PROVE f[i].ts < f[i + 1].ts
  <2>1. i \in 1 .. n /\ i + 1 \in 1 .. n
    BY <1>1
  <2>2. (i + 1) * Bucket = i * Bucket + Bucket
    BY <1>0, <1>1
  <2>3. f[i].ts = prev + i * Bucket /\ f[i + 1].ts = prev + (i * Bucket + Bucket)
        /\ i * Bucket \in Nat
    BY <1>2, <2>1, <2>2
  <2> QED BY <1>0, <2>3
<1> QED BY <1>1, <1>3, <1>4 DEF f

\* What closing a bar emits starts at the bar, comes in strictly increasing time
\* and ends before the bar that is opened next.
LEMMA RollOutInOrder ==
    ASSUME NEW bar \in Bar, NEW next \in Timestamps, bar.start < next
    PROVE  LET r == RollOut(bar, next)
           IN  /\ r \in Seq(Candle) /\ Len(r) \in Nat /\ Len(r) >= 1
               /\ r[1].ts = bar.start
               /\ \A i \in 1 .. Len(r) : bar.start <= r[i].ts /\ r[i].ts < next
               /\ \A i \in 1 .. Len(r) - 1 : r[i].ts < r[i + 1].ts
<1> DEFINE c == Closed(bar)
           f == IF FillGaps THEN Fillers(bar.close, bar.start, next) ELSE <<>>
           r == RollOut(bar, next)
<1>0. bar.start \in Timestamps /\ bar.close \in Int /\ c \in Candle /\ c.ts = bar.start
  BY ClosedType DEF Bar, Closed
<1>1. f \in Seq(Candle) /\ Len(f) \in Nat
  BY <1>0, FillersType, LenProperties
<1>2. /\ \A i \in 1 .. Len(f) : bar.start < f[i].ts /\ f[i].ts < next
      /\ \A i \in 1 .. Len(f) - 1 : f[i].ts < f[i + 1].ts
  <2>1. CASE FillGaps
    BY <1>0, <2>1, FillersInOrder
  <2>2. CASE ~FillGaps
    BY <2>2
  <2> QED BY <2>1, <2>2
<1>3. r = <<c>> \o f
  BY DEF RollOut
<1> HIDE DEF c, f, r
<1>4. <<c>> \in Seq(Candle) /\ Len(<<c>>) = 1 /\ <<c>>[1] = c
  BY <1>0
<1>5. /\ r \in Seq(Candle) /\ Len(r) = 1 + Len(f)
      /\ \A i \in 1 .. 1 + Len(f) : r[i] = IF i <= 1 THEN <<c>>[i] ELSE f[i - 1]
  BY <1>1, <1>3, <1>4, ConcatProperties
<1>6. r[1].ts = bar.start
  BY <1>0, <1>1, <1>4, <1>5
<1>7. ASSUME NEW i \in 1 .. 1 + Len(f), i # 1
      PROVE  i - 1 \in 1 .. Len(f) /\ r[i] = f[i - 1]
  <2>1. ~(i <= 1) /\ i - 1 \in 1 .. Len(f)
    BY <1>1, <1>7
  <2> QED BY <1>5, <2>1
<1>8. bar.start \in Int /\ next \in Int
  BY <1>0, TimeAssumption DEF Timestamps
<1>9. ASSUME NEW i \in 1 .. 1 + Len(f)
      PROVE  bar.start <= r[i].ts /\ r[i].ts < next /\ r[i].ts \in Int
  <2>1. r[i].ts \in Int
    <3>1. r[i] \in Candle
      BY <1>5, ElementOfSeq
    <3> QED BY <3>1, TimeAssumption DEF Candle, Timestamps
  <2>2. CASE i = 1
    BY <1>6, <1>8, <2>2
  <2>3. CASE i # 1
    BY <1>2, <1>7, <1>8, <2>1, <2>3
  <2> QED BY <2>1, <2>2, <2>3
<1>10. ASSUME NEW i \in 1 .. Len(f) PROVE r[i].ts < r[i + 1].ts
  <2>1. i + 1 \in 1 .. 1 + Len(f) /\ i + 1 # 1 /\ (i + 1) - 1 = i
    BY <1>1
  <2>2. r[i + 1] = f[i]
    BY <1>7, <2>1
  <2>3. CASE i = 1
    BY <1>2, <1>6, <2>2, <2>3
  <2>4. CASE i # 1
    <3>1. i \in 1 .. 1 + Len(f) /\ i - 1 \in 1 .. Len(f) - 1 /\ (i - 1) + 1 = i
      BY <1>1, <2>4
    <3>2. r[i] = f[i - 1] /\ f[i - 1].ts < f[(i - 1) + 1].ts
      BY <1>2, <1>7, <2>4, <3>1
    <3> QED BY <2>2, <3>1, <3>2
  <2> QED BY <2>3, <2>4
<1>11. Len(r) \in Nat /\ Len(r) >= 1 /\ Len(r) - 1 = Len(f)
  BY <1>1, <1>5
<1> QED BY <1>5, <1>6, <1>9, <1>10, <1>11 DEF r

-----------------------------------------------------------------------------
(* Extremes, and induction stated with a set.                               *)

LEMMA SmallestOf ==
    ASSUME NEW S \in SUBSET Nat, S # {}
    PROVE  \E x \in S : \A y \in S : ~(y < x)
<1> DEFINE R == {ss \in Nat \X Nat : ss[1] < ss[2]}
<1>1. IsWellFoundedOn(R, Nat)
  BY NatLessThanWellFounded DEF OpToRel
<1>2. \A x, y \in Nat : y < x => <<y, x>> \in R
  OBVIOUS
<1> HIDE DEF R
<1>3. \E x \in S : \A y \in S : ~(<<y, x>> \in R)
  BY <1>1, WFMin
<1> QED BY <1>2, <1>3

LEMMA SetInduction ==
    ASSUME NEW S, 0 \in S, \A n \in Nat : n \in S => n + 1 \in S
    PROVE  \A n \in Nat : n \in S
<1> SUFFICES ASSUME NEW k \in Nat, k \notin S PROVE FALSE
  OBVIOUS
<1> DEFINE T == {n \in Nat : n \notin S}
<1>1. T \in SUBSET Nat /\ T # {}
  OBVIOUS
<1>2. PICK x \in T : \A y \in T : ~(y < x)
  BY <1>1, SmallestOf
<1>3. x # 0 /\ x - 1 \in Nat /\ x - 1 < x
  BY <1>2
<1>4. x - 1 \in S
  BY <1>2, <1>3
<1>5. (x - 1) + 1 = x
  BY <1>2
<1> QED BY <1>2, <1>3, <1>4, <1>5

LEMMA MaxIs ==
    ASSUME NEW S \in SUBSET Int, NEW m \in S, \A x \in S : x <= m
    PROVE  Max(S) = m
<1>1. \A y \in S : m >= y
  OBVIOUS
<1> DEFINE x == Max(S)
<1>2. x \in S /\ \A y \in S : x >= y
  BY <1>1 DEF Max
<1> HIDE DEF x
<1>3. x \in Int /\ m \in Int /\ x >= m /\ m >= x
  BY <1>1, <1>2
<1>4. x = m
  BY <1>3
<1> QED BY <1>4 DEF x

LEMMA MinIs ==
    ASSUME NEW S \in SUBSET Int, NEW m \in S, \A x \in S : m <= x
    PROVE  Min(S) = m
<1>1. \A y \in S : m =< y
  OBVIOUS
<1> DEFINE x == Min(S)
<1>2. x \in S /\ \A y \in S : x =< y
  BY <1>1 DEF Min
<1> HIDE DEF x
<1>3. x \in Int /\ m \in Int /\ x =< m /\ m =< x
  BY <1>1, <1>2
<1>4. x = m
  BY <1>3
<1> QED BY <1>4 DEF x

LEMMA MaxOf ==
    ASSUME NEW S \in SUBSET Int, S # {}, NEW top \in Int, \A x \in S : x <= top
    PROVE  Max(S) \in S /\ \A x \in S : x <= Max(S)
<1> DEFINE T == {n \in Nat : top - n \in S}
<1>1. T # {}
  <2>1. PICK x : x \in S
    OBVIOUS
  <2>2. top - x \in Nat /\ top - (top - x) = x
    BY <2>1
  <2> QED BY <2>1, <2>2
<1>2. PICK n \in T : \A k \in T : ~(k < n)
  BY <1>1, SmallestOf
<1>3. top - n \in S /\ n \in Nat
  BY <1>2
<1>4. ASSUME NEW x \in S PROVE x <= top - n
  <2>1. top - x \in Nat /\ top - (top - x) = x
    OBVIOUS
  <2>2. top - x \in T
    BY <2>1
  <2>3. ~(top - x < n)
    BY <1>2, <2>2
  <2> QED BY <1>3, <2>3
<1> QED BY <1>3, <1>4, MaxIs

LEMMA MinOf ==
    ASSUME NEW S \in SUBSET Int, S # {}, NEW bottom \in Int, \A x \in S : bottom <= x
    PROVE  Min(S) \in S /\ \A x \in S : Min(S) <= x
<1> DEFINE T == {n \in Nat : bottom + n \in S}
<1>1. T # {}
  <2>1. PICK x : x \in S
    OBVIOUS
  <2>2. x - bottom \in Nat /\ bottom + (x - bottom) = x
    BY <2>1
  <2> QED BY <2>1, <2>2
<1>2. PICK n \in T : \A k \in T : ~(k < n)
  BY <1>1, SmallestOf
<1>3. bottom + n \in S /\ n \in Nat
  BY <1>2
<1>4. ASSUME NEW x \in S PROVE bottom + n <= x
  <2>1. x - bottom \in Nat /\ bottom + (x - bottom) = x
    OBVIOUS
  <2>2. x - bottom \in T
    BY <2>1
  <2>3. ~(x - bottom < n)
    BY <1>2, <2>2
  <2> QED BY <1>3, <2>3
<1> QED BY <1>3, <1>4, MinIs

\* The bucket of a timestamp by its meaning is the one by its arithmetic.
LEMMA StartOfIsFloor ==
    ASSUME NEW ts \in Timestamps
    PROVE  StartOf(ts) = Floor(ts)
<1> DEFINE S == {b \in BucketStarts : b <= ts}
           q == ts \div Bucket
<1>0. /\ ts \in Int /\ TsMin \in Int /\ TsMax \in Int /\ TsMin <= ts /\ ts <= TsMax
      /\ Bucket \in Int /\ Bucket > 0
  BY TimeAssumption DEF Timestamps
<1>1. /\ q \in Int /\ ts - (ts % Bucket) = Bucket * q
      /\ ts % Bucket \in 0 .. Bucket - 1
  BY <1>0, Euclid
<1> HIDE DEF q
<1>2. S \in SUBSET Int
  BY <1>0 DEF BucketStarts, Timestamps
<1>3. Floor(ts) \in S
  <2>1. Floor(ts) \in Timestamps /\ Floor(ts) <= ts
    BY FloorFacts
  <2>2. Floor(ts) = TsMin \/ Floor(ts) = Bucket * q
    BY <1>0, <1>1 DEF Floor, Greater
  <2>3. (Bucket * q) % Bucket = 0
    BY <1>0, <1>1, DivideMultiple
  <2> QED BY <2>1, <2>2, <2>3 DEF BucketStarts
<1>4. ASSUME NEW b \in S PROVE b <= Floor(ts)
  <2>0. Floor(ts) = Greater(Bucket * q, TsMin) /\ Bucket * q \in Int
    BY <1>0, <1>1 DEF Floor
  <2>1. CASE b = TsMin
    BY <1>0, <2>0, <2>1 DEF Greater
  <2>2. CASE b % Bucket = 0
    <3> DEFINE k == b \div Bucket
    <3>1. b \in Int /\ b <= ts
      BY <1>2
    <3>2. k \in Int /\ b = Bucket * k + 0
      BY <1>0, <2>2, <3>1, Euclid
    <3> HIDE DEF k
    <3>3. ~(q < k)
      <4> SUFFICES ASSUME q < k PROVE FALSE
        OBVIOUS
      <4>1. Bucket * q + Bucket <= Bucket * k
        BY <1>0, <1>1, <3>2, Multiples
      <4> QED BY <1>0, <1>1, <2>0, <3>1, <3>2, <4>1
    <3>4. Bucket * k <= Bucket * q
      <4>1. CASE k = q
        BY <1>0, <1>1, <4>1
      <4>2. CASE k < q
        <5>1. Bucket * k + Bucket <= Bucket * q
          BY <1>0, <1>1, <3>2, <4>2, Multiples
        <5> QED BY <1>0, <3>1, <3>2, <2>0, <5>1
      <4> QED BY <1>1, <3>2, <3>3, <4>1, <4>2
    <3> QED BY <1>0, <2>0, <3>1, <3>2, <3>4 DEF Greater
  <2> QED BY <2>1, <2>2 DEF BucketStarts
<1> QED BY <1>2, <1>3, <1>4, MaxIs DEF StartOf

-----------------------------------------------------------------------------
(* The volume a bucket has seen is a running sum.                           *)

\* A function that is defined from its predecessor's value exists.
LEMMA RunningSumExists ==
    ASSUME NEW w, NEW m \in Nat
    PROVE  \E f : f = [n \in 0 .. m |-> IF n = 0 THEN 0 ELSE f[n - 1] + w[n]]
<1> DEFINE S == {k \in Nat :
                    \E f : f = [n \in 0 .. k |-> IF n = 0 THEN 0 ELSE f[n - 1] + w[n]]}
<1>1. 0 \in S
  <2> DEFINE f == [n \in 0 .. 0 |-> 0]
  <2>1. f = [n \in 0 .. 0 |-> IF n = 0 THEN 0 ELSE f[n - 1] + w[n]]
    OBVIOUS
  <2> QED BY <2>1
<1>2. ASSUME NEW k \in Nat, k \in S PROVE k + 1 \in S
  <2>1. PICK f : f = [n \in 0 .. k |-> IF n = 0 THEN 0 ELSE f[n - 1] + w[n]]
    BY <1>2
  <2> DEFINE g == [n \in 0 .. k + 1 |-> IF n <= k THEN f[n] ELSE f[k] + w[n]]
  <2>2. ASSUME NEW n \in 0 .. k + 1
        PROVE  g[n] = IF n = 0 THEN 0 ELSE g[n - 1] + w[n]
    <3>1. CASE n = 0
      <4>1. f[0] = 0
        BY <2>1
      <4> QED BY <3>1, <4>1
    <3>2. CASE n # 0 /\ n <= k
      <4>1. n \in 0 .. k /\ n - 1 \in 0 .. k + 1 /\ n - 1 <= k
        BY <3>2
      <4>2. f[n] = f[n - 1] + w[n]
        BY <2>1, <3>2, <4>1
      <4>3. g[n] = f[n] /\ g[n - 1] = f[n - 1]
        BY <3>2, <4>1
      <4> QED BY <3>2, <4>2, <4>3
    <3>3. CASE n # 0 /\ ~(n <= k)
      <4>1. n - 1 = k /\ k \in 0 .. k + 1 /\ k <= k
        BY <3>3
      <4> QED BY <3>3, <4>1
    <3> QED BY <3>1, <3>2, <3>3
  <2>3. g = [n \in 0 .. k + 1 |-> IF n = 0 THEN 0 ELSE g[n - 1] + w[n]]
    <3>1. g = [n \in 0 .. k + 1 |-> g[n]]
      OBVIOUS
    <3> HIDE DEF g
    <3> QED BY <2>2, <3>1
  <2> HIDE DEF g
  <2> QED BY <2>3
<1> HIDE DEF S
<1>3. m \in S
  BY <1>1, <1>2, SetInduction
<1> QED BY <1>3 DEF S

LEMMA VolumeSeenSteps ==
    ASSUME NEW cs \in Seq(Candle), NEW b
    PROVE  /\ VolumeSeen(b, cs)[0] = 0
           /\ \A n \in 1 .. Len(cs) :
                 VolumeSeen(b, cs)[n] =
                     VolumeSeen(b, cs)[n - 1]
                         + IF n \in Inside(b, cs) THEN cs[n].volume ELSE 0
<1>0. Len(cs) \in Nat
  BY LenProperties
<1> DEFINE w == [n \in 0 .. Len(cs) |->
                    IF n \in Inside(b, cs) THEN cs[n].volume ELSE 0]
           P(f) == f = [n \in 0 .. Len(cs) |->
                           IF n = 0 THEN 0
                           ELSE f[n - 1] + IF n \in Inside(b, cs) THEN cs[n].volume ELSE 0]
<1>1. \E f : P(f)
  <2>1. PICK f : f = [n \in 0 .. Len(cs) |-> IF n = 0 THEN 0 ELSE f[n - 1] + w[n]]
    BY <1>0, RunningSumExists
  <2>2. P(f)
    BY <2>1
  <2> QED BY <2>2
<1>2. P(VolumeSeen(b, cs))
  BY <1>1 DEF VolumeSeen
<1> DEFINE v == VolumeSeen(b, cs)
<1> HIDE DEF v
<1>3. v = [n \in 0 .. Len(cs) |->
              IF n = 0 THEN 0
              ELSE v[n - 1] + IF n \in Inside(b, cs) THEN cs[n].volume ELSE 0]
  BY <1>2 DEF v
<1>4. v[0] = 0
  BY <1>0, <1>3
<1>5. ASSUME NEW n \in 1 .. Len(cs)
      PROVE  v[n] = v[n - 1] + IF n \in Inside(b, cs) THEN cs[n].volume ELSE 0
  <2>1. n \in 0 .. Len(cs) /\ n # 0
    BY <1>0
  <2> QED BY <1>3, <2>1
<1> QED BY <1>4, <1>5 DEF v

-----------------------------------------------------------------------------
(* One input more.                                                          *)

LEMMA Appended ==
    ASSUME NEW cs \in Seq(Candle), NEW c \in Candle
    PROVE  LET more == Append(cs, c)
               n == Len(cs)
           IN  /\ n \in Nat /\ DOMAIN cs = 1 .. n
               /\ more \in Seq(Candle) /\ Len(more) = n + 1
               /\ DOMAIN more = 1 .. n + 1
               /\ \A i \in 1 .. n : more[i] = cs[i]
               /\ more[n + 1] = c
  BY AppendProperties, LenProperties

LEMMA InputTimes ==
    ASSUME NEW cs \in Seq(Candle), NEW i \in DOMAIN cs
    PROVE  /\ cs[i] \in Candle /\ cs[i].ts \in Timestamps
           /\ StartOf(cs[i].ts) = Floor(cs[i].ts)
           /\ Floor(cs[i].ts) \in Timestamps
<1>1. cs[i] \in Candle
  BY ElementOfSeq, LenProperties
<1>2. cs[i].ts \in Timestamps
  BY <1>1 DEF Candle
<1> QED BY <1>1, <1>2, StartOfIsFloor, FloorFacts

LEMMA InsideAppend ==
    ASSUME NEW cs \in Seq(Candle), NEW c \in Candle, NEW b
    PROVE  /\ Inside(b, Append(cs, c)) =
                  Inside(b, cs) \cup (IF Floor(c.ts) = b THEN {Len(cs) + 1} ELSE {})
           /\ Before(b, Append(cs, c)) =
                  Before(b, cs) \cup (IF Floor(c.ts) < b THEN {Len(cs) + 1} ELSE {})
           /\ Used(Append(cs, c)) = Used(cs) \cup {Floor(c.ts)}
<1> DEFINE more == Append(cs, c)
           n == Len(cs)
<1>1. /\ n \in Nat /\ DOMAIN cs = 1 .. n /\ DOMAIN more = 1 .. n + 1
      /\ \A i \in 1 .. n : more[i] = cs[i]
      /\ more[n + 1] = c
  BY Appended
<1>2. StartOf(c.ts) = Floor(c.ts)
  BY StartOfIsFloor DEF Candle
<1> HIDE DEF more, n
<1>3. \A i : i \in 1 .. n + 1 <=> i \in 1 .. n \/ i = n + 1
  BY <1>1
<1>4. Inside(b, more) = Inside(b, cs) \cup (IF Floor(c.ts) = b THEN {n + 1} ELSE {})
  BY <1>1, <1>2, <1>3 DEF Inside
<1>5. Before(b, more) = Before(b, cs) \cup (IF Floor(c.ts) < b THEN {n + 1} ELSE {})
  BY <1>1, <1>2, <1>3 DEF Before
<1>6. Used(more) = Used(cs) \cup {Floor(c.ts)}
  <2>1. ASSUME NEW x \in Used(more) PROVE x \in Used(cs) \cup {Floor(c.ts)}
    <3>1. PICK i \in 1 .. n + 1 : x = StartOf(more[i].ts)
      BY <1>1 DEF Used
    <3> QED BY <1>1, <1>2, <1>3, <3>1 DEF Used
  <2>2. ASSUME NEW x \in Used(cs) PROVE x \in Used(more)
    <3>1. PICK i \in 1 .. n : x = StartOf(cs[i].ts)
      BY <1>1 DEF Used
    <3>2. i \in 1 .. n + 1 /\ more[i] = cs[i]
      BY <1>1, <1>3
    <3> QED BY <1>1, <3>1, <3>2 DEF Used
  <2>3. Floor(c.ts) \in Used(more)
    <3>1. n + 1 \in 1 .. n + 1
      BY <1>1
    <3> QED BY <1>1, <1>2, <3>1 DEF Used
  <2> QED BY <2>1, <2>2, <2>3
<1> QED BY <1>4, <1>5, <1>6 DEF more, n

LEMMA VolumeSeenType ==
    ASSUME NEW cs \in Seq(Candle), NEW b
    PROVE  \A k \in 0 .. Len(cs) : VolumeSeen(b, cs)[k] \in Nat
<1> DEFINE v == VolumeSeen(b, cs)
           n == Len(cs)
           S == {k \in Nat : k <= n => v[k] \in Nat}
<1>0. n \in Nat /\ v[0] = 0
      /\ \A k \in 1 .. n : v[k] = v[k - 1] + IF k \in Inside(b, cs) THEN cs[k].volume ELSE 0
  BY VolumeSeenSteps, LenProperties
<1> HIDE DEF v, n
<1>1. 0 \in S
  BY <1>0
<1>2. ASSUME NEW k \in Nat, k \in S PROVE k + 1 \in S
  <2> SUFFICES ASSUME k + 1 <= n PROVE v[k + 1] \in Nat
    OBVIOUS
  <2>1. k + 1 \in 1 .. n /\ (k + 1) - 1 = k /\ v[k] \in Nat
    BY <1>0, <1>2
  <2>2. cs[k + 1] \in Candle
    BY <2>1, ElementOfSeq DEF n
  <2>3. cs[k + 1].volume \in Nat
    BY <2>2, CandleAssumption DEF Candle, Volumes
  <2> QED BY <1>0, <2>1, <2>3
<1> HIDE DEF S
<1>3. \A k \in Nat : k \in S
  BY <1>1, <1>2, SetInduction
<1> QED BY <1>0, <1>3 DEF S, v, n

LEMMA VolumeOfNone ==
    ASSUME NEW cs \in Seq(Candle), NEW b, Inside(b, cs) = {}
    PROVE  VolumeSeen(b, cs)[Len(cs)] = 0
<1> DEFINE v == VolumeSeen(b, cs)
           n == Len(cs)
           S == {k \in Nat : k <= n => v[k] = 0}
<1>0. n \in Nat /\ v[0] = 0 /\ \A k \in 1 .. n : v[k] = v[k - 1] + 0
  BY VolumeSeenSteps, LenProperties
<1> HIDE DEF v, n
<1>1. 0 \in S
  BY <1>0
<1>2. ASSUME NEW k \in Nat, k \in S PROVE k + 1 \in S
  <2> SUFFICES ASSUME k + 1 <= n PROVE v[k + 1] = 0
    OBVIOUS
  <2>1. k + 1 \in 1 .. n /\ (k + 1) - 1 = k /\ v[k] = 0
    BY <1>0, <1>2
  <2> QED BY <1>0, <2>1
<1> HIDE DEF S
<1>3. \A k \in Nat : k \in S
  BY <1>1, <1>2, SetInduction
<1> QED BY <1>0, <1>3 DEF S, v, n

LEMMA VolumeAppend ==
    ASSUME NEW cs \in Seq(Candle), NEW c \in Candle, NEW b
    PROVE  VolumeSeen(b, Append(cs, c))[Len(cs) + 1] =
               VolumeSeen(b, cs)[Len(cs)] + IF Floor(c.ts) = b THEN c.volume ELSE 0
<1> DEFINE more == Append(cs, c)
           n == Len(cs)
           v == VolumeSeen(b, cs)
           u == VolumeSeen(b, more)
           S == {k \in Nat : k <= n => u[k] = v[k]}
<1>1. /\ n \in Nat /\ more \in Seq(Candle) /\ Len(more) = n + 1
      /\ \A i \in 1 .. n : more[i] = cs[i]
      /\ more[n + 1] = c
  BY Appended
<1>2. /\ v[0] = 0
      /\ \A k \in 1 .. n : v[k] = v[k - 1] + IF k \in Inside(b, cs) THEN cs[k].volume ELSE 0
  BY VolumeSeenSteps
<1> HIDE DEF more
<1>3. /\ u[0] = 0
      /\ \A k \in 1 .. n + 1 :
            u[k] = u[k - 1] + IF k \in Inside(b, more) THEN more[k].volume ELSE 0
  BY <1>1, VolumeSeenSteps
<1>4. Inside(b, more) = Inside(b, cs) \cup (IF Floor(c.ts) = b THEN {n + 1} ELSE {})
  BY InsideAppend DEF more
<1>5. Inside(b, cs) \subseteq 1 .. n
  BY LenProperties DEF Inside
<1> HIDE DEF n, v, u
<1>6. 0 \in S
  BY <1>2, <1>3
<1>7. ASSUME NEW k \in Nat, k \in S PROVE k + 1 \in S
  <2> SUFFICES ASSUME k + 1 <= n PROVE u[k + 1] = v[k + 1]
    OBVIOUS
  <2>1. k + 1 \in 1 .. n /\ k + 1 \in 1 .. n + 1 /\ (k + 1) - 1 = k /\ u[k] = v[k]
        /\ k + 1 # n + 1
    BY <1>1, <1>7
  <2>2. k + 1 \in Inside(b, more) <=> k + 1 \in Inside(b, cs)
    BY <1>4, <2>1
  <2> QED BY <1>1, <1>2, <1>3, <2>1, <2>2
<1> HIDE DEF S
<1>8. \A k \in Nat : k \in S
  BY <1>6, <1>7, SetInduction
<1>9. u[n] = v[n]
  BY <1>1, <1>8 DEF S
<1>10. n + 1 \in Inside(b, more) <=> Floor(c.ts) = b
  <2>1. n + 1 \notin 1 .. n
    BY <1>1
  <2> QED BY <1>4, <1>5, <2>1
<1>11. u[n + 1] = u[n] + IF n + 1 \in Inside(b, more) THEN c.volume ELSE 0
  <2>1. n + 1 \in 1 .. n + 1 /\ (n + 1) - 1 = n
    BY <1>1
  <2> QED BY <1>1, <1>3, <2>1
<1> QED BY <1>9, <1>10, <1>11 DEF more, n, v, u

\* The newest of some inputs is one of them, and stays it when others follow that
\* are none of them.
LEMMA NewestAppend ==
    ASSUME NEW cs \in Seq(Candle), NEW c \in Candle,
           NEW I \in SUBSET (DOMAIN cs), I # {}
    PROVE  Newest(I, Append(cs, c)) = Newest(I, cs)
<1> DEFINE more == Append(cs, c)
           n == Len(cs)
           T == {cs[i].ts : i \in I}
           top == Max(T)
           J == {i \in I : cs[i].ts = top}
<1>1. n \in Nat /\ DOMAIN cs = 1 .. n /\ \A i \in 1 .. n : more[i] = cs[i]
  BY Appended
<1>2. TsMax \in Int /\ T \in SUBSET Int /\ T # {} /\ \A x \in T : x <= TsMax
  BY InputTimes, TimeAssumption DEF Timestamps
<1>3. top \in T
  <2> HIDE DEF T
  <2> QED BY <1>2, MaxOf
<1>4. J \in SUBSET Int /\ J # {} /\ \A i \in J : i <= n
  <2> HIDE DEF top
  <2> QED BY <1>1, <1>3
<1>5. Max(J) \in J
  <2> HIDE DEF J, n
  <2>1. n \in Int
    BY <1>1
  <2> QED BY <1>4, <2>1, MaxOf
<1>6. {more[i].ts : i \in I} = T
  BY <1>1
<1>7. {i \in I : more[i].ts = top} = J
  <2> HIDE DEF top, more
  <2> QED BY <1>1
<1>8. Newest(I, cs) = cs[Max(J)]
  BY DEF Newest
<1>9. Newest(I, more) = more[Max(J)]
  BY <1>6, <1>7 DEF Newest
<1>10. Max(J) \in 1 .. n
  BY <1>1, <1>5
<1> HIDE DEF J, more
<1> QED BY <1>1, <1>8, <1>9, <1>10 DEF more

LEMMA OldestAppend ==
    ASSUME NEW cs \in Seq(Candle), NEW c \in Candle,
           NEW I \in SUBSET (DOMAIN cs), I # {}
    PROVE  Oldest(I, Append(cs, c)) = Oldest(I, cs)
<1> DEFINE more == Append(cs, c)
           n == Len(cs)
           T == {cs[i].ts : i \in I}
           bottom == Min(T)
           J == {i \in I : cs[i].ts = bottom}
<1>1. n \in Nat /\ DOMAIN cs = 1 .. n /\ \A i \in 1 .. n : more[i] = cs[i]
  BY Appended
<1>2. TsMin \in Int /\ T \in SUBSET Int /\ T # {} /\ \A x \in T : TsMin <= x
  BY InputTimes, TimeAssumption DEF Timestamps
<1>3. bottom \in T
  <2> HIDE DEF T
  <2> QED BY <1>2, MinOf
<1>4. J \in SUBSET Int /\ J # {} /\ \A i \in J : 1 <= i
  <2> HIDE DEF bottom
  <2> QED BY <1>1, <1>3
<1>5. Min(J) \in J
  <2> HIDE DEF J
  <2> QED BY <1>1, <1>4, MinOf
<1>6. {more[i].ts : i \in I} = T
  BY <1>1
<1>7. {i \in I : more[i].ts = bottom} = J
  <2> HIDE DEF bottom, more
  <2> QED BY <1>1
<1>8. Oldest(I, cs) = cs[Min(J)]
  BY DEF Oldest
<1>9. Oldest(I, more) = more[Min(J)]
  BY <1>6, <1>7 DEF Oldest
<1>10. Min(J) \in 1 .. n
  BY <1>1, <1>5
<1> HIDE DEF J, more
<1> QED BY <1>1, <1>8, <1>9, <1>10 DEF more

\* An input of a later bucket leaves the candles of the earlier ones alone.
LEMMA CandleOfAppend ==
    ASSUME NEW cs \in Seq(Candle), NEW c \in Candle, NEW b \in Int,
           b < Floor(c.ts), Inside(b, cs) # {} \/ Before(b, cs) # {}
    PROVE  CandleOf(b, Append(cs, c)) = CandleOf(b, cs)
<1> DEFINE more == Append(cs, c)
           n == Len(cs)
<1>0. Floor(c.ts) \in Int
  BY FloorFacts, TimeAssumption DEF Candle, Timestamps
<1>1. Floor(c.ts) # b /\ ~(Floor(c.ts) < b)
  BY <1>0
<1>2. Inside(b, more) = Inside(b, cs) /\ Before(b, more) = Before(b, cs)
  <2>1. /\ Inside(b, more) =
                Inside(b, cs) \cup (IF Floor(c.ts) = b THEN {n + 1} ELSE {})
        /\ Before(b, more) =
                Before(b, cs) \cup (IF Floor(c.ts) < b THEN {n + 1} ELSE {})
    BY InsideAppend
  <2> HIDE DEF more, n
  <2> QED BY <1>1, <2>1
<1>3. /\ n \in Nat /\ DOMAIN cs = 1 .. n /\ \A i \in 1 .. n : more[i] = cs[i]
      /\ Len(more) = n + 1
  BY Appended
<1>4. CASE Inside(b, cs) # {}
  <2> DEFINE I == Inside(b, cs)
  <2>1. I \in SUBSET (DOMAIN cs) /\ I # {}
    BY <1>4 DEF Inside
  <2>2. Newest(I, more) = Newest(I, cs) /\ Oldest(I, more) = Oldest(I, cs)
    <3> HIDE DEF I
    <3> QED BY <2>1, NewestAppend, OldestAppend
  <2>3. VolumeSeen(b, more)[n + 1] = VolumeSeen(b, cs)[n]
    <3>1. VolumeSeen(b, more)[n + 1] = VolumeSeen(b, cs)[n] + 0
      BY <1>1, VolumeAppend
    <3>2. VolumeSeen(b, cs)[n] \in Nat
      BY <1>3, VolumeSeenType
    <3> QED BY <3>1, <3>2
  <2>4. {more[i].high : i \in I} = {cs[i].high : i \in I}
        /\ {more[i].low : i \in I} = {cs[i].low : i \in I}
    <3> HIDE DEF I, more
    <3> QED BY <1>3, <2>1
  <2>5. Reduce(b, more) = Reduce(b, cs)
    <3> HIDE DEF more
    <3> QED BY <1>2, <1>3, <2>2, <2>3, <2>4 DEF Reduce
  <2> QED BY <1>2, <1>4, <2>5 DEF CandleOf
<1>5. CASE Inside(b, cs) = {}
  <2>1. Before(b, cs) \in SUBSET (DOMAIN cs) /\ Before(b, cs) # {}
    BY <1>5 DEF Before
  <2>2. Newest(Before(b, cs), more) = Newest(Before(b, cs), cs)
    BY <2>1, NewestAppend
  <2> QED BY <1>2, <1>5, <2>2 DEF CandleOf
<1> QED BY <1>4, <1>5

-----------------------------------------------------------------------------
(* Inputs in the order of time.                                             *)

Sorted(cs) == \A i, j \in DOMAIN cs : i < j => cs[i].ts <= cs[j].ts

LEMMA SortedTimes ==
    ASSUME NEW cs \in Seq(Candle), Sorted(cs), NEW i \in DOMAIN cs, NEW j \in DOMAIN cs,
           i <= j
    PROVE  /\ i \in Int /\ j \in Int
           /\ cs[i].ts \in Int /\ cs[j].ts \in Int /\ cs[i].ts <= cs[j].ts
           /\ Floor(cs[i].ts) <= Floor(cs[j].ts)
<1>1. i \in Int /\ j \in Int
  BY LenProperties
<1>2. cs[i].ts \in Timestamps /\ cs[j].ts \in Timestamps
  BY InputTimes
<1>3. cs[i].ts \in Int /\ cs[j].ts \in Int
  BY <1>2, TimeAssumption DEF Timestamps
<1>4. cs[i].ts <= cs[j].ts
  <2>1. CASE i = j
    BY <1>3, <2>1
  <2>2. CASE i < j
    BY <2>2 DEF Sorted
  <2> QED BY <1>1, <2>1, <2>2
<1> QED BY <1>1, <1>2, <1>3, <1>4, FloorMonotone

LEMMA NewestIsLast ==
    ASSUME NEW cs \in Seq(Candle), Sorted(cs), NEW I \in SUBSET (DOMAIN cs),
           NEW m \in I, \A i \in I : i <= m
    PROVE  Newest(I, cs) = cs[m]
<1> DEFINE T == {cs[i].ts : i \in I}
           J == {i \in I : cs[i].ts = cs[m].ts}
<1>1. T \in SUBSET Int /\ cs[m].ts \in T /\ \A x \in T : x <= cs[m].ts
  BY SortedTimes
<1>2. Max(T) = cs[m].ts
  <2> HIDE DEF T
  <2> QED BY <1>1, MaxIs
<1>3. J \in SUBSET Int /\ m \in J /\ \A i \in J : i <= m
  BY LenProperties
<1>4. Max(J) = m
  <2> HIDE DEF J
  <2> QED BY <1>3, MaxIs
<1> QED BY <1>2, <1>4 DEF Newest

LEMMA OldestIsFirst ==
    ASSUME NEW cs \in Seq(Candle), Sorted(cs), NEW I \in SUBSET (DOMAIN cs),
           NEW m \in I, \A i \in I : m <= i
    PROVE  Oldest(I, cs) = cs[m]
<1> DEFINE T == {cs[i].ts : i \in I}
           J == {i \in I : cs[i].ts = cs[m].ts}
<1>1. T \in SUBSET Int /\ cs[m].ts \in T /\ \A x \in T : cs[m].ts <= x
  BY SortedTimes
<1>2. Min(T) = cs[m].ts
  <2> HIDE DEF T
  <2> QED BY <1>1, MinIs
<1>3. J \in SUBSET Int /\ m \in J /\ \A i \in J : m <= i
  BY LenProperties
<1>4. Min(J) = m
  <2> HIDE DEF J
  <2> QED BY <1>3, MinIs
<1> QED BY <1>2, <1>4 DEF Oldest

LEMMA SortedAppend ==
    ASSUME NEW cs \in Seq(Candle), Sorted(cs), NEW c \in Candle,
           \A i \in DOMAIN cs : cs[i].ts <= c.ts
    PROVE  Sorted(Append(cs, c))
<1> DEFINE more == Append(cs, c)
           n == Len(cs)
<1>1. /\ n \in Nat /\ DOMAIN cs = 1 .. n /\ DOMAIN more = 1 .. n + 1
      /\ \A i \in 1 .. n : more[i] = cs[i]
      /\ more[n + 1] = c
  BY Appended
<1> HIDE DEF more, n
<1>2. ASSUME NEW i \in 1 .. n + 1, NEW j \in 1 .. n + 1, i < j
      PROVE  more[i].ts <= more[j].ts
  <2>1. i \in 1 .. n /\ more[i] = cs[i]
    BY <1>1, <1>2
  <2>2. CASE j = n + 1
    BY <1>1, <2>1, <2>2
  <2>3. CASE j # n + 1
    <3>1. j \in 1 .. n /\ more[j] = cs[j]
      BY <1>1, <2>3
    <3> QED BY <1>1, <1>2, <2>1, <3>1 DEF Sorted
  <2> QED BY <2>2, <2>3
<1> QED BY <1>1, <1>2 DEF Sorted, more

LEMMA SortedPrefix ==
    ASSUME NEW cs \in Seq(Candle), NEW c \in Candle, Sorted(Append(cs, c))
    PROVE  Sorted(cs) /\ \A i \in DOMAIN cs : cs[i].ts <= c.ts
<1> DEFINE more == Append(cs, c)
           n == Len(cs)
<1>1. /\ n \in Nat /\ DOMAIN cs = 1 .. n /\ DOMAIN more = 1 .. n + 1
      /\ \A i \in 1 .. n : more[i] = cs[i]
      /\ more[n + 1] = c
  BY Appended
<1>2. \A i, j \in DOMAIN more : i < j => more[i].ts <= more[j].ts
  BY DEF Sorted
<1> HIDE DEF more, n
<1>3. \A i \in 1 .. n : i \in 1 .. n + 1 /\ n + 1 \in 1 .. n + 1 /\ i < n + 1
  BY <1>1
<1>4. \A i \in 1 .. n : cs[i].ts <= c.ts
  BY <1>1, <1>2, <1>3
<1>5. \A i, j \in 1 .. n : i < j => cs[i].ts <= cs[j].ts
  BY <1>1, <1>2, <1>3
<1> QED BY <1>1, <1>4, <1>5 DEF Sorted

\* The bar is the bucket of the last of some inputs.
BarOf(bar, cs) ==
    LET I == Inside(bar.start, cs)
    IN  /\ cs \in Seq(Candle) /\ cs # <<>> /\ Sorted(cs)
        /\ bar \in Bar
        /\ bar.start = Floor(cs[Len(cs)].ts)
        /\ bar.close = cs[Len(cs)].close
        /\ \E i \in I : bar.open = cs[i].open /\ \A j \in I : i <= j
        /\ \E i \in I : bar.high = cs[i].high /\ \A j \in I : cs[j].high <= cs[i].high
        /\ \E i \in I : bar.low = cs[i].low /\ \A j \in I : cs[i].low <= cs[j].low
        /\ bar.volume = Lesser(VolumeSeen(bar.start, cs)[Len(cs)], Infinity)

LEMMA LastInside ==
    ASSUME NEW cs \in Seq(Candle), cs # <<>>, Sorted(cs),
           NEW b, b = Floor(cs[Len(cs)].ts)
    PROVE  /\ Len(cs) \in Inside(b, cs) /\ Len(cs) \in DOMAIN cs
           /\ Inside(b, cs) \in SUBSET (DOMAIN cs)
           /\ \A i \in Inside(b, cs) : i <= Len(cs)
           /\ b \in Timestamps
           /\ \A i \in DOMAIN cs : Floor(cs[i].ts) <= b
<1>1. Len(cs) \in Nat /\ Len(cs) # 0 /\ DOMAIN cs = 1 .. Len(cs)
  BY LenProperties, EmptySeq
<1>2. Len(cs) \in DOMAIN cs
  BY <1>1
<1>3. StartOf(cs[Len(cs)].ts) = b /\ b \in Timestamps
  BY <1>2, InputTimes
<1>4. \A i \in DOMAIN cs : i <= Len(cs)
  BY <1>1
<1>5. \A i \in DOMAIN cs : Floor(cs[i].ts) <= b
  BY <1>2, <1>4, SortedTimes
<1> QED BY <1>2, <1>3, <1>4, <1>5 DEF Inside

LEMMA BarIsCandle ==
    ASSUME NEW bar, NEW cs, BarOf(bar, cs)
    PROVE  Closed(bar) = CandleOf(bar.start, cs)
<1> DEFINE b == bar.start
           I == Inside(b, cs)
           n == Len(cs)
<1>1. /\ cs \in Seq(Candle) /\ cs # <<>> /\ Sorted(cs) /\ bar \in Bar
      /\ b = Floor(cs[n].ts)
      /\ bar.close = cs[n].close
      /\ bar.volume = Lesser(VolumeSeen(b, cs)[n], Infinity)
  BY DEF BarOf
<1>2. n \in I /\ I \in SUBSET (DOMAIN cs) /\ \A i \in I : i <= n
  BY <1>1, LastInside
<1>3. Newest(I, cs).close = bar.close
  <2> HIDE DEF I
  <2> QED BY <1>1, <1>2, NewestIsLast
<1>4. Oldest(I, cs).open = bar.open
  <2>1. PICK i \in I : bar.open = cs[i].open /\ \A j \in I : i <= j
    BY DEF BarOf
  <2> HIDE DEF I
  <2> QED BY <1>1, <1>2, <2>1, OldestIsFirst
<1>5. ASSUME NEW j \in I PROVE cs[j].high \in Int /\ cs[j].low \in Int
  BY <1>1, <1>2, InputTimes DEF Candle
<1>6. Max({cs[i].high : i \in I}) = bar.high
  <2>1. PICK i \in I : bar.high = cs[i].high /\ \A j \in I : cs[j].high <= cs[i].high
    BY DEF BarOf
  <2> DEFINE S == {cs[j].high : j \in I}
  <2>2. S \in SUBSET Int /\ bar.high \in S /\ \A x \in S : x <= bar.high
    <3> HIDE DEF I
    <3> QED BY <1>5, <2>1
  <2> HIDE DEF S
  <2>3. Max(S) = bar.high
    BY <2>2, MaxIs
  <2> QED BY <2>3 DEF S
<1>7. Min({cs[i].low : i \in I}) = bar.low
  <2>1. PICK i \in I : bar.low = cs[i].low /\ \A j \in I : cs[i].low <= cs[j].low
    BY DEF BarOf
  <2> DEFINE S == {cs[j].low : j \in I}
  <2>2. S \in SUBSET Int /\ bar.low \in S /\ \A x \in S : bar.low <= x
    <3> HIDE DEF I
    <3> QED BY <1>5, <2>1
  <2> HIDE DEF S
  <2>3. Min(S) = bar.low
    BY <2>2, MinIs
  <2> QED BY <2>3 DEF S
<1>8. I # {}
  BY <1>2
<1>9. CandleOf(b, cs) = Reduce(b, cs)
  BY <1>8 DEF CandleOf
<1>10. Reduce(b, cs) =
          [ts |-> b, open |-> bar.open, close |-> bar.close, high |-> bar.high,
           low |-> bar.low, volume |-> bar.volume]
  BY <1>1, <1>3, <1>4, <1>6, <1>7 DEF Reduce
<1>11. Closed(bar) =
          [ts |-> b, open |-> bar.open, close |-> bar.close, high |-> bar.high,
           low |-> bar.low, volume |-> bar.volume]
  BY DEF Closed
<1> QED BY <1>9, <1>10, <1>11

\* A candle behind all others opens the bar of its bucket.
LEMMA BarOpens ==
    ASSUME NEW cs \in Seq(Candle), Sorted(cs), NEW c \in Candle,
           \A i \in DOMAIN cs : Floor(cs[i].ts) < Floor(c.ts)
    PROVE  BarOf(OpenBar(c, Floor(c.ts)), Append(cs, c))
<1> DEFINE more == Append(cs, c)
           n == Len(cs)
           b == Floor(c.ts)
           bar == OpenBar(c, b)
           I == Inside(b, more)
<1>1. /\ n \in Nat /\ DOMAIN cs = 1 .. n /\ more \in Seq(Candle)
      /\ Len(more) = n + 1 /\ more[n + 1] = c
  BY Appended
<1>2. c.ts \in Timestamps /\ c.ts \in Int /\ b \in Timestamps /\ b \in Int
      /\ c.volume \in 0 .. Infinity /\ Infinity \in Nat
      /\ c.high \in Int /\ c.low \in Int
  BY FloorFacts, TimeAssumption, CandleAssumption DEF Candle, Timestamps, Volumes
<1>3. ASSUME NEW i \in DOMAIN cs PROVE cs[i].ts <= c.ts
  <2>1. cs[i].ts \in Timestamps /\ cs[i].ts \in Int /\ Floor(cs[i].ts) \in Int
    BY InputTimes, TimeAssumption DEF Timestamps
  <2>2. ~(c.ts <= cs[i].ts)
    <3> SUFFICES ASSUME c.ts <= cs[i].ts PROVE FALSE
      OBVIOUS
    <3>1. b <= Floor(cs[i].ts)
      BY <1>2, <2>1, FloorMonotone
    <3> QED BY <1>2, <2>1, <3>1
  <2> QED BY <1>2, <2>1, <2>2
<1>4. Sorted(more)
  BY <1>3, SortedAppend
<1>5. bar \in Bar
  BY OpenBarType
<1>6. Inside(b, cs) = {}
  <2> SUFFICES ASSUME NEW i \in Inside(b, cs) PROVE FALSE
    OBVIOUS
  <2>1. i \in DOMAIN cs /\ StartOf(cs[i].ts) = b
    BY DEF Inside
  <2>2. Floor(cs[i].ts) = b
    BY <2>1, InputTimes
  <2> QED BY <1>2, <2>1, <2>2
<1>7. I = {n + 1}
  <2>1. I = Inside(b, cs) \cup (IF Floor(c.ts) = b THEN {n + 1} ELSE {})
    BY InsideAppend
  <2> HIDE DEF more, n, I
  <2> QED BY <1>6, <2>1
<1>8. VolumeSeen(b, more)[n + 1] = c.volume
  <2>1. VolumeSeen(b, more)[n + 1] = VolumeSeen(b, cs)[n] + c.volume
    BY VolumeAppend
  <2>2. VolumeSeen(b, cs)[n] = 0
    BY <1>6, VolumeOfNone
  <2> QED BY <1>2, <2>1, <2>2
<1>9. /\ bar.start = b /\ bar.close = c.close /\ bar.open = c.open
      /\ bar.high = c.high /\ bar.low = c.low /\ bar.volume = c.volume
  BY DEF OpenBar
<1>10. more # <<>>
  BY <1>1, EmptySeq
<1>11. bar.volume = Lesser(VolumeSeen(b, more)[n + 1], Infinity)
  BY <1>2, <1>8, <1>9 DEF Lesser
<1> HIDE DEF more, n, b, bar, I
<1>12. n + 1 \in I /\ \A j \in I : j = n + 1
  BY <1>7
<1>13. \E i \in I : bar.open = more[i].open /\ \A j \in I : i <= j
  BY <1>1, <1>9, <1>12
<1>14. \E i \in I : bar.high = more[i].high /\ \A j \in I : more[j].high <= more[i].high
  BY <1>1, <1>2, <1>9, <1>12
<1>15. \E i \in I : bar.low = more[i].low /\ \A j \in I : more[i].low <= more[j].low
  BY <1>1, <1>2, <1>9, <1>12
<1>16. I = Inside(bar.start, more) /\ bar.start = Floor(more[Len(more)].ts)
       /\ bar.close = more[Len(more)].close
  BY <1>1, <1>9 DEF I, b
<1>17. BarOf(bar, more)
  BY <1>1, <1>4, <1>5, <1>9, <1>10, <1>11, <1>13, <1>14, <1>15, <1>16 DEF BarOf
<1> QED BY <1>17 DEF bar, more, b

\* A candle of the same bucket, not older than the last, is absorbed by the bar.
LEMMA BarAbsorbs ==
    ASSUME NEW bar, NEW cs, BarOf(bar, cs), NEW c \in Candle,
           Floor(c.ts) = bar.start, cs[Len(cs)].ts <= c.ts
    PROVE  BarOf(Absorb(bar, c), Append(cs, c))
<1> DEFINE more == Append(cs, c)
           n == Len(cs)
           b == bar.start
           next == Absorb(bar, c)
           I == Inside(b, cs)
           K == Inside(b, more)
<1>1. /\ cs \in Seq(Candle) /\ cs # <<>> /\ Sorted(cs) /\ bar \in Bar
      /\ b = Floor(cs[n].ts)
      /\ bar.volume = Lesser(VolumeSeen(b, cs)[n], Infinity)
  BY DEF BarOf
<1>2. /\ n \in Nat /\ DOMAIN cs = 1 .. n /\ more \in Seq(Candle)
      /\ Len(more) = n + 1 /\ more[n + 1] = c
      /\ \A i \in 1 .. n : more[i] = cs[i]
  BY <1>1, Appended
<1>3. I \in SUBSET (1 .. n) /\ n \in DOMAIN cs
  BY <1>1, <1>2, LastInside
<1>4. K = I \cup {n + 1}
  <2>1. K = I \cup (IF Floor(c.ts) = b THEN {n + 1} ELSE {})
    BY <1>1, InsideAppend
  <2> HIDE DEF more, n, I, K
  <2> QED BY <2>1
<1>5. ASSUME NEW j \in I
      PROVE  /\ j \in Int /\ j <= n /\ j \in K /\ more[j] = cs[j]
             /\ cs[j].high \in Int /\ cs[j].low \in Int
  <2>1. j \in 1 .. n /\ cs[j] \in Candle
    BY <1>1, <1>2, <1>3, InputTimes
  <2>2. cs[j].high \in Int /\ cs[j].low \in Int
    BY <2>1 DEF Candle
  <2> HIDE DEF I, K, more
  <2> QED BY <1>2, <1>4, <2>1, <2>2
<1>6. /\ bar.high \in Int /\ bar.low \in Int /\ c.high \in Int /\ c.low \in Int
      /\ c.volume \in 0 .. Infinity /\ Infinity \in Nat
      /\ c.ts \in Int
  BY <1>1, TimeAssumption, CandleAssumption DEF Bar, Candle, Volumes, Timestamps
<1>7. /\ next.start = b /\ next.open = bar.open /\ next.close = c.close
      /\ next.high = Greater(bar.high, c.high)
      /\ next.low = Lesser(bar.low, c.low)
      /\ next.volume = AddVolume(bar.volume, c.volume)
  BY <1>1 DEF Absorb, Bar
<1>8. next \in Bar
  BY <1>1, AbsorbType
<1>9. Sorted(more)
  <2>1. ASSUME NEW i \in DOMAIN cs PROVE cs[i].ts <= c.ts
    <3>1. cs[i].ts \in Int /\ cs[n].ts \in Int /\ cs[i].ts <= cs[n].ts
      <4>1. i <= n
        BY <1>2
      <4> QED BY <1>1, <1>3, <4>1, SortedTimes
    <3> QED BY <1>6, <3>1
  <2> QED BY <1>1, <2>1, SortedAppend
<1>10. next.volume = Lesser(VolumeSeen(b, more)[n + 1], Infinity)
  <2>1. VolumeSeen(b, more)[n + 1] = VolumeSeen(b, cs)[n] + c.volume
    BY <1>1, VolumeAppend
  <2>2. VolumeSeen(b, cs)[n] \in Nat
    BY <1>1, <1>2, VolumeSeenType
  <2>3. next.volume = Lesser(Lesser(VolumeSeen(b, cs)[n], Infinity) + c.volume, Infinity)
    BY <1>1, <1>7 DEF AddVolume
  <2> DEFINE v == VolumeSeen(b, cs)[n]
             u == VolumeSeen(b, more)[n + 1]
  <2>4. v \in Nat /\ u = v + c.volume
        /\ next.volume = Lesser(Lesser(v, Infinity) + c.volume, Infinity)
    BY <2>1, <2>2, <2>3
  <2> HIDE DEF v, u, next
  <2>5. next.volume = Lesser(u, Infinity)
    BY <1>6, <2>4 DEF Lesser
  <2> QED BY <2>5 DEF u
<1>11. more # <<>>
  BY <1>2, EmptySeq
<1>12. \E i \in I : bar.open = cs[i].open /\ \A j \in I : i <= j
  BY DEF BarOf
<1>13. \E i \in I : bar.high = cs[i].high /\ \A j \in I : cs[j].high <= cs[i].high
  BY DEF BarOf
<1>14. \E i \in I : bar.low = cs[i].low /\ \A j \in I : cs[i].low <= cs[j].low
  BY DEF BarOf
<1>15. K = Inside(next.start, more) /\ next.start = Floor(more[Len(more)].ts)
       /\ next.close = more[Len(more)].close
  BY <1>2, <1>7
<1> HIDE DEF more, n, b, next, I, K
<1>16. \E i \in K : next.open = more[i].open /\ \A j \in K : i <= j
  <2>1. PICK i \in I : bar.open = cs[i].open /\ \A j \in I : i <= j
    BY <1>12
  <2>2. i \in K /\ next.open = more[i].open /\ i <= n + 1
    BY <1>2, <1>5, <1>7, <2>1
  <2>3. \A j \in K : i <= j
    BY <1>4, <2>1, <2>2
  <2> QED BY <2>2, <2>3
<1>17. \E i \in K : next.high = more[i].high /\ \A j \in K : more[j].high <= more[i].high
  <2>1. PICK i \in I : bar.high = cs[i].high /\ \A j \in I : cs[j].high <= cs[i].high
    BY <1>13
  <2>2. \A j \in K : j \in I \/ j = n + 1
    BY <1>4
  <2>3. n + 1 \in K
    BY <1>4
  <2>4. CASE bar.high < c.high
    <3>1. next.high = more[n + 1].high
      BY <1>2, <1>7, <2>4 DEF Greater
    <3>2. ASSUME NEW j \in K PROVE more[j].high <= more[n + 1].high
      <4>1. CASE j \in I
        BY <1>2, <1>5, <1>6, <2>1, <2>4, <4>1
      <4>2. CASE j = n + 1
        BY <1>2, <1>6, <4>2
      <4> QED BY <2>2, <4>1, <4>2
    <3> QED BY <2>3, <3>1, <3>2
  <2>5. CASE ~(bar.high < c.high)
    <3>1. next.high = more[i].high /\ i \in K
      BY <1>5, <1>7, <2>1, <2>5 DEF Greater
    <3>2. ASSUME NEW j \in K PROVE more[j].high <= more[i].high
      <4>1. CASE j \in I
        BY <1>5, <2>1, <4>1
      <4>2. CASE j = n + 1
        BY <1>2, <1>5, <1>6, <2>1, <2>5, <4>2
      <4> QED BY <2>2, <4>1, <4>2
    <3> QED BY <3>1, <3>2
  <2> QED BY <2>4, <2>5
<1>18. \E i \in K : next.low = more[i].low /\ \A j \in K : more[i].low <= more[j].low
  <2>1. PICK i \in I : bar.low = cs[i].low /\ \A j \in I : cs[i].low <= cs[j].low
    BY <1>14
  <2>2. \A j \in K : j \in I \/ j = n + 1
    BY <1>4
  <2>3. n + 1 \in K
    BY <1>4
  <2>4. CASE ~(bar.low < c.low)
    <3>1. next.low = more[n + 1].low
      BY <1>2, <1>7, <2>4 DEF Lesser
    <3>2. ASSUME NEW j \in K PROVE more[n + 1].low <= more[j].low
      <4>1. CASE j \in I
        BY <1>2, <1>5, <1>6, <2>1, <2>4, <4>1
      <4>2. CASE j = n + 1
        BY <1>2, <1>6, <4>2
      <4> QED BY <2>2, <4>1, <4>2
    <3> QED BY <2>3, <3>1, <3>2
  <2>5. CASE bar.low < c.low
    <3>1. next.low = more[i].low /\ i \in K
      BY <1>5, <1>7, <2>1, <2>5 DEF Lesser
    <3>2. ASSUME NEW j \in K PROVE more[i].low <= more[j].low
      <4>1. CASE j \in I
        BY <1>5, <2>1, <4>1
      <4>2. CASE j = n + 1
        BY <1>2, <1>5, <1>6, <2>1, <2>5, <4>2
      <4> QED BY <2>2, <4>1, <4>2
    <3> QED BY <3>1, <3>2
  <2> QED BY <2>4, <2>5
<1>19. next.volume = Lesser(VolumeSeen(next.start, more)[Len(more)], Infinity)
  BY <1>2, <1>7, <1>10
<1>20. BarOf(next, more)
  BY <1>2, <1>8, <1>9, <1>11, <1>15, <1>16, <1>17, <1>18, <1>19 DEF BarOf
<1> QED BY <1>20 DEF next, more

-----------------------------------------------------------------------------
(* Buckets without input.                                                   *)

\* A gap that is filled has a placeholder for each bucket size that fits.
LEMMA GapIsCovered ==
    ASSUME CapBelowRange, NEW prev \in Timestamps, NEW next \in Timestamps,
           Fillable(prev, next), NEW k \in Nat, prev + k * Bucket < next
    PROVE  k <= GapCount(prev, next)
<1> DEFINE span == Lesser(next - (prev + Bucket), TsMax)
           q == span \div Bucket
           r == span % Bucket
           g == GapCount(prev, next)
<1>0. /\ Bucket \in Nat /\ Bucket > 0 /\ TsMax \in Int /\ TsMax > 0 /\ MaxGap \in Nat
      /\ prev \in Int /\ next \in Int
  BY TimeAssumption, CandleAssumption DEF Timestamps
<1>1. g \in Nat /\ g <= MaxGap
  BY GapCountType DEF Fillable
<1>2. span \in Int /\ span = Lesser(next - (prev + Bucket), TsMax)
  BY <1>0 DEF Lesser
<1>3. q \in Int /\ r \in 0 .. Bucket - 1 /\ span = Bucket * q + r
  <2> HIDE DEF span
  <2> QED BY <1>0, <1>2, Euclid
<1>4. /\ span <= 0 => g = 0
      /\ ~(span <= 0) => g = q + (IF r = 0 THEN 0 ELSE 1)
  BY DEF GapCount
<1> HIDE DEF g, q, r, span
<1>5. Bucket * g \in Nat /\ Bucket * MaxGap \in Nat /\ Bucket * k \in Nat
      /\ k * Bucket = Bucket * k /\ MaxGap * Bucket = Bucket * MaxGap
  BY <1>0, <1>1
<1>6. CASE span <= 0
  <2>1. next - (prev + Bucket) <= 0
    BY <1>0, <1>2, <1>6 DEF Lesser
  <2>2. Bucket * k < Bucket
    BY <1>0, <1>5, <2>1
  <2>3. ~(0 < k)
    <3> SUFFICES ASSUME 0 < k PROVE FALSE
      OBVIOUS
    <3>1. Bucket * 0 + Bucket <= Bucket * k /\ Bucket * 0 = 0
      BY <1>0, Multiples
    <3> QED BY <1>0, <1>5, <2>2, <3>1
  <2> QED BY <1>1, <2>3 DEF g
<1>7. CASE ~(span <= 0)
  <2>1. Bucket * g >= span
    <3>1. CASE r = 0
      BY <1>0, <1>3, <1>4, <1>7, <3>1
    <3>2. CASE r # 0
      <4>1. g = q + 1
        BY <1>4, <1>7, <3>2
      <4>2. Bucket * g = Bucket * q + Bucket /\ Bucket * q \in Int
        BY <1>0, <1>3, <4>1
      <4> QED BY <1>0, <1>3, <4>2
    <3> QED BY <3>1, <3>2
  <2>2. Bucket * g <= Bucket * MaxGap
    <3>1. CASE g = MaxGap
      BY <1>5, <3>1
    <3>2. CASE g < MaxGap
      <4>1. Bucket * g + Bucket <= Bucket * MaxGap
        BY <1>0, <1>1, <3>2, Multiples
      <4> QED BY <1>0, <1>5, <4>1
    <3> QED BY <1>0, <1>1, <3>1, <3>2
  <2>3. span < TsMax
    BY <1>0, <1>2, <1>5, <2>1, <2>2 DEF CapBelowRange
  <2>4. span = next - (prev + Bucket)
    BY <1>0, <1>2, <2>3 DEF Lesser
  <2>5. Bucket * k < span + Bucket
    BY <1>0, <1>5, <2>4
  <2>6. ~(g < k)
    <3> SUFFICES ASSUME g < k PROVE FALSE
      OBVIOUS
    <3>1. Bucket * g + Bucket <= Bucket * k
      BY <1>0, <1>1, Multiples
    <3> QED BY <1>0, <1>2, <1>5, <2>1, <2>5, <3>1
  <2> QED BY <1>1, <2>6 DEF g
<1> QED BY <1>6, <1>7

\* Behind the bar a bucket has no input, and its candle is flat at the bar's close.
LEMMA GapCandle ==
    ASSUME NEW bar, NEW cs, BarOf(bar, cs), NEW b \in Int, bar.start < b
    PROVE  Before(b, cs) # {} /\ CandleOf(b, cs) = Flat(bar.close, b)
<1> DEFINE n == Len(cs)
<1>1. /\ cs \in Seq(Candle) /\ cs # <<>> /\ Sorted(cs)
      /\ bar.start = Floor(cs[n].ts) /\ bar.close = cs[n].close
  BY DEF BarOf
<1>2. n \in DOMAIN cs /\ bar.start \in Int /\ \A i \in DOMAIN cs : Floor(cs[i].ts) <= bar.start
  BY <1>1, LastInside, TimeAssumption DEF Timestamps
<1>3. ASSUME NEW i \in DOMAIN cs PROVE StartOf(cs[i].ts) \in Int /\ StartOf(cs[i].ts) < b
  <2>1. StartOf(cs[i].ts) = Floor(cs[i].ts) /\ Floor(cs[i].ts) \in Int
    BY <1>1, InputTimes, TimeAssumption DEF Timestamps
  <2> QED BY <1>2, <2>1
<1>4. Inside(b, cs) = {}
  <2> SUFFICES ASSUME NEW i \in DOMAIN cs, StartOf(cs[i].ts) = b PROVE FALSE
    BY DEF Inside
  <2>1. StartOf(cs[i].ts) \in Int /\ StartOf(cs[i].ts) < b
    BY <1>3
  <2> QED BY <2>1
<1>5. Before(b, cs) = DOMAIN cs
  BY <1>3 DEF Before
<1>6. \A i \in DOMAIN cs : i <= n
  BY <1>1, LenProperties
<1>7. Newest(DOMAIN cs, cs) = cs[n]
  BY <1>1, <1>2, <1>6, NewestIsLast
<1> QED BY <1>1, <1>2, <1>4, <1>5, <1>7 DEF CandleOf

\* The buckets with input end with the bar's.
LEMMA UsedFacts ==
    ASSUME NEW bar, NEW cs, BarOf(bar, cs)
    PROVE  /\ Used(cs) \in SUBSET Timestamps /\ Used(cs) \in SUBSET Int
           /\ Used(cs) # {}
           /\ bar.start \in Used(cs) /\ bar.start \in Timestamps /\ bar.start \in Int
           /\ \A u \in Used(cs) : u <= bar.start
           /\ Max(Used(cs)) = bar.start
           /\ Min(Used(cs)) \in Used(cs)
           /\ \A u \in Used(cs) : Min(Used(cs)) <= u
<1> DEFINE U == Used(cs)
           n == Len(cs)
<1>1. /\ cs \in Seq(Candle) /\ cs # <<>> /\ Sorted(cs)
      /\ bar.start = Floor(cs[n].ts)
  BY DEF BarOf
<1>2. /\ n \in DOMAIN cs /\ bar.start \in Timestamps
      /\ \A i \in DOMAIN cs : Floor(cs[i].ts) <= bar.start
  BY <1>1, LastInside
<1>3. \A i \in DOMAIN cs : /\ StartOf(cs[i].ts) = Floor(cs[i].ts)
                           /\ Floor(cs[i].ts) \in Timestamps
  BY <1>1, InputTimes
<1>4. U \in SUBSET Timestamps /\ bar.start \in U /\ \A u \in U : u <= bar.start
  BY <1>1, <1>2, <1>3 DEF Used
<1> HIDE DEF U
<1>5. U \in SUBSET Int /\ TsMin \in Int /\ \A u \in U : TsMin <= u
  BY <1>4, TimeAssumption DEF Timestamps
<1>6. Max(U) = bar.start
  BY <1>4, <1>5, MaxIs
<1>7. Min(U) \in U /\ \A u \in U : Min(U) <= u
  BY <1>4, <1>5, MinOf
<1> QED BY <1>2, <1>4, <1>5, <1>6, <1>7 DEF U

\* No bucket of the grid is before all inputs, or behind the bar.
LEMMA GridFacts ==
    ASSUME NEW bar, NEW cs, BarOf(bar, cs), NEW b \in Grid(cs)
    PROVE  /\ b \in Int /\ b <= bar.start
           /\ Inside(b, cs) # {} \/ Before(b, cs) # {}
<1> DEFINE U == Used(cs)
<1>1. /\ U \in SUBSET Int /\ U # {} /\ bar.start \in Int
      /\ \A u \in U : u <= bar.start
      /\ Max(U) = bar.start /\ Min(U) \in U
  BY UsedFacts
<1>2. b \in Int /\ b <= bar.start /\ \E u \in U : u <= b
  <2>1. CASE FillGaps
    <3>1. b \in Min(U) .. bar.start
      BY <1>1, <2>1 DEF Grid
    <3> DEFINE low == Min(U)
    <3>2. low \in U /\ low \in Int /\ b \in low .. bar.start /\ bar.start \in Int
      BY <1>1, <3>1
    <3> HIDE DEF low, U
    <3>3. b \in Int /\ b <= bar.start /\ low <= b
      BY <3>2
    <3> QED BY <3>2, <3>3
  <2>2. CASE ~FillGaps
    <3>1. b \in U
      BY <2>2 DEF Grid
    <3> HIDE DEF U
    <3> QED BY <1>1, <3>1
  <2> QED BY <2>1, <2>2
<1>3. PICK i \in DOMAIN cs : StartOf(cs[i].ts) \in Int /\ StartOf(cs[i].ts) <= b
  BY <1>1, <1>2 DEF Used
<1>4. StartOf(cs[i].ts) = b \/ StartOf(cs[i].ts) < b
  BY <1>2, <1>3
<1> QED BY <1>2, <1>4 DEF Inside, Before

LEMMA GridOfFirst ==
    ASSUME NEW c \in Candle
    PROVE  Grid(Append(<<>>, c)) = {Floor(c.ts)}
<1> DEFINE x == Floor(c.ts)
           U == Used(Append(<<>>, c))
<1>1. <<>> \in Seq(Candle) /\ Used(<<>>) = {}
  BY DEF Used
<1>2. U = {x}
  <2>1. U = Used(<<>>) \cup {x}
    BY <1>1, InsideAppend
  <2> QED BY <1>1, <2>1
<1>3. x \in Int /\ Bucket \in Int /\ Bucket > 0
  BY FloorFacts, TimeAssumption DEF Candle, Timestamps
<1>4. Grid(Append(<<>>, c)) =
          IF FillGaps
          THEN {b \in Min(U) .. Max(U) : (b - Max({u \in U : u <= b})) % Bucket = 0}
          ELSE U
  BY DEF Grid
<1> HIDE DEF x, U
<1>5. Max({x}) = x /\ Min({x}) = x
  <2>1. {x} \in SUBSET Int /\ x \in {x} /\ \A y \in {x} : x <= y /\ y <= x
    BY <1>3
  <2> QED BY <2>1, MaxIs, MinIs
<1>6. {b \in x .. x : (b - Max({u \in {x} : u <= b})) % Bucket = 0} = {x}
  <2>1. \A b : b \in x .. x <=> b = x
    BY <1>3
  <2>2. {u \in {x} : u <= x} = {x}
    BY <1>3
  <2>3. (x - x) % Bucket = 0
    BY <1>3
  <2> QED BY <1>5, <2>1, <2>2, <2>3
<1> QED BY <1>2, <1>4, <1>5, <1>6 DEF x

LEMMA GridOfSame ==
    ASSUME NEW bar, NEW cs, BarOf(bar, cs), NEW c \in Candle, Floor(c.ts) = bar.start
    PROVE  Grid(Append(cs, c)) = Grid(cs)
<1>1. Used(Append(cs, c)) = Used(cs) \cup {bar.start}
  BY InsideAppend DEF BarOf
<1>2. Used(Append(cs, c)) = Used(cs)
  BY <1>1, UsedFacts
<1> QED BY <1>2 DEF Grid

\* A later bucket joins the grid with the placeholders before it, and no others.
LEMMA GridOfNext ==
    ASSUME NEW bar, NEW cs, BarOf(bar, cs), NEW c \in Candle,
           bar.start < Floor(c.ts),
           FillGaps => CapBelowRange /\ Fillable(bar.start, Floor(c.ts))
    PROVE  Grid(Append(cs, c)) =
               Grid(cs) \cup {Floor(c.ts)}
                   \cup (IF FillGaps
                         THEN {bar.start + k * Bucket :
                                   k \in 1 .. GapCount(bar.start, Floor(c.ts))}
                         ELSE {})
<1> DEFINE nx == Floor(c.ts)
           st == bar.start
           U == Used(cs)
           V == Used(Append(cs, c))
           g == GapCount(st, nx)
<1>0. nx \in Timestamps /\ nx \in Int /\ Bucket \in Nat /\ Bucket > 0
  BY FloorFacts, TimeAssumption DEF Candle, Timestamps
<1>1. /\ U \in SUBSET Int /\ U # {} /\ st \in U /\ st \in Timestamps /\ st \in Int
      /\ \A u \in U : u <= st
      /\ Max(U) = st /\ Min(U) \in U /\ \A u \in U : Min(U) <= u
  BY UsedFacts
<1>2. V = U \cup {nx}
  BY InsideAppend DEF BarOf
<1>3. Grid(cs) = IF FillGaps
                 THEN {b \in Min(U) .. Max(U) : (b - Max({u \in U : u <= b})) % Bucket = 0}
                 ELSE U
  BY DEF Grid
<1>4. Grid(Append(cs, c)) =
          IF FillGaps
          THEN {b \in Min(V) .. Max(V) : (b - Max({u \in V : u <= b})) % Bucket = 0}
          ELSE V
  BY DEF Grid
<1>5. CASE ~FillGaps
  BY <1>2, <1>3, <1>4, <1>5
<1>6. CASE FillGaps
  <2> DEFINE low == Min(U)
  <2> HIDE DEF U, V
  <2>0. /\ low \in Int /\ low \in U /\ low <= st /\ st < nx
        /\ \A u \in U : u \in Int /\ low <= u /\ u <= st
        /\ st \in Int /\ nx \in Int
    BY <1>0, <1>1
  <2> HIDE DEF low, nx, st
  <2>01. V = U \cup {nx} /\ U \subseteq V /\ nx \in V
    BY <1>2
  <2>02. \A v \in V : v \in Int /\ low <= v /\ v <= nx
    BY <2>0, <2>01
  <2> USE DEF nx, st
  <2>1. Max(V) = nx
    <3>1. V \in SUBSET Int /\ nx \in V /\ \A v \in V : v <= nx
      <4> HIDE DEF nx, st
      <4> QED BY <2>0, <2>01, <2>02
    <3> QED BY <3>1, MaxIs
  <2>2. Min(V) = low
    <3>1. V \in SUBSET Int /\ low \in V /\ \A v \in V : low <= v
      <4> HIDE DEF nx, st
      <4> QED BY <2>0, <2>01, <2>02
    <3> QED BY <3>1, MinIs
  <2> DEFINE P(b) == (b - Max({u \in U : u <= b})) % Bucket = 0
             Q(b) == (b - Max({u \in V : u <= b})) % Bucket = 0
             G == {b \in low .. st : P(b)}
             H == {b \in low .. nx : Q(b)}
             F == {st + k * Bucket : k \in 1 .. g}
  <2>3. Grid(cs) = G
    BY <1>1, <1>3, <1>6 DEF low
  <2>4. Grid(Append(cs, c)) = H
    BY <1>4, <1>6, <2>1, <2>2
  <2>5. ASSUME NEW b \in Int, b <= st PROVE P(b) <=> Q(b)
    <3>1. {u \in V : u <= b} = {u \in U : u <= b}
      <4> HIDE DEF nx, st
      <4> QED BY <2>0, <2>01, <2>5
    <3> QED BY <3>1
  <2>6. ASSUME NEW b \in Int, st < b, b < nx
        PROVE  Q(b) <=> (b - st) % Bucket = 0
    <3>1. {u \in V : u <= b} = U
      <4> HIDE DEF nx, st
      <4>1. ASSUME NEW u \in U PROVE u \in V /\ u <= b
        BY <2>0, <2>01, <2>6
      <4>2. ASSUME NEW u \in V, u <= b PROVE u \in U
        <5>1. u # nx
          BY <2>0, <2>6, <4>2
        <5> QED BY <2>01, <5>1
      <4> QED BY <4>1, <4>2
    <3> QED BY <1>1, <3>1
  <2>7. Q(nx)
    <3>1. {u \in V : u <= nx} = V
      <4> HIDE DEF nx, st
      <4> QED BY <2>02
    <3>2. (nx - nx) % Bucket = 0
      BY <1>0
    <3> QED BY <2>1, <3>1, <3>2
  <2> HIDE DEF P, Q
  <2>8. g \in Nat
    BY <1>0, <1>1, GapCountType
  <2>9. ASSUME NEW b \in Int, st < b, b < nx, (b - st) % Bucket = 0
        PROVE  b \in F
    <3> DEFINE k == (b - st) \div Bucket
    <3>1. b - st \in Int
      BY <1>1
    <3>2. k \in Int /\ b - st = Bucket * k + 0
      BY <1>0, <2>9, <3>1, Euclid
    <3> HIDE DEF k
    <3>3. ~(k <= 0)
      <4> SUFFICES ASSUME k <= 0 PROVE FALSE
        OBVIOUS
      <4>1. CASE k = 0
        BY <1>0, <1>1, <2>9, <3>2, <4>1
      <4>2. CASE k < 0
        <5>1. Bucket * k + Bucket <= Bucket * 0 /\ Bucket * 0 = 0 /\ Bucket * k \in Int
          BY <1>0, <3>2, <4>2, Multiples
        <5> QED BY <1>0, <1>1, <2>9, <3>2, <5>1
      <4> QED BY <3>2, <4>1, <4>2
    <3>4. k \in Nat /\ k >= 1 /\ b = st + k * Bucket
      <4>1. Bucket * k = k * Bucket /\ Bucket * k \in Int
        BY <1>0, <3>2
      <4> QED BY <1>1, <3>2, <3>3, <4>1
    <3>5. k <= g
      <4>1. st + k * Bucket < nx /\ CapBelowRange /\ Fillable(st, nx)
        BY <1>6, <2>9, <3>4
      <4> HIDE DEF st, nx
      <4> QED BY <1>0, <1>1, <3>4, <4>1, GapIsCovered
    <3> HIDE DEF g
    <3>6. k \in 1 .. g
      BY <2>8, <3>4, <3>5
    <3> QED BY <3>4, <3>6
  <2>10. ASSUME NEW k \in 1 .. g
         PROVE  /\ st + k * Bucket \in Int /\ st < st + k * Bucket
                /\ st + k * Bucket < nx
                /\ ((st + k * Bucket) - st) % Bucket = 0
    <3>1. k * Bucket \in Nat /\ k * Bucket >= Bucket /\ st + k * Bucket < nx
      BY <1>0, <1>1, FillerBeforeNext
    <3>2. k \in Int
      BY <2>8
    <3> HIDE DEF g, st, nx
    <3>3. k * Bucket = Bucket * k /\ (Bucket * k) % Bucket = 0
      BY <1>0, <3>2, DivideMultiple
    <3> DEFINE x == k * Bucket
    <3>4. x \in Nat /\ x >= Bucket /\ st + x < nx /\ x % Bucket = 0
      BY <3>1, <3>3
    <3> HIDE DEF x
    <3>5. st + x \in Int /\ st < st + x /\ st + x < nx /\ (st + x) - st = x
      BY <1>0, <1>1, <3>4
    <3> QED BY <3>4, <3>5 DEF x
  <2>11. ASSUME NEW b \in H PROVE b \in G \cup {nx} \cup F
    <3>1. b \in Int /\ low <= b /\ b <= nx /\ Q(b)
      BY <1>0, <2>0
    <3>2. CASE b <= st
      BY <1>1, <2>0, <2>5, <3>1, <3>2
    <3>3. CASE st < b /\ b < nx
      <4> HIDE DEF F
      <4> QED BY <2>6, <2>9, <3>1, <3>3
    <3>4. b <= st \/ (st < b /\ b < nx) \/ b = nx
      BY <1>0, <1>1, <3>1
    <3> QED BY <3>2, <3>3, <3>4
  <2>12. ASSUME NEW b \in G PROVE b \in H
    <3>1. b \in Int /\ low <= b /\ b <= st /\ P(b)
      BY <1>1, <2>0
    <3> QED BY <1>0, <1>1, <2>0, <2>5, <3>1
  <2>13. nx \in H
    BY <1>0, <1>1, <2>0, <2>7
  <2>14. ASSUME NEW b \in F PROVE b \in H
    <3>1. PICK k \in 1 .. g : b = st + k * Bucket
      OBVIOUS
    <3>2. b \in Int /\ st < b /\ b < nx /\ (b - st) % Bucket = 0
      BY <2>10, <3>1
    <3>3. Q(b)
      BY <2>6, <3>2
    <3> HIDE DEF F
    <3> QED BY <1>0, <1>1, <2>0, <3>2, <3>3
  <2>15. H = G \cup {nx} \cup F
    <3> HIDE DEF G, H, F
    <3> QED BY <2>11, <2>12, <2>13, <2>14
  <2> HIDE DEF G, H
  <2> QED BY <1>6, <2>3, <2>4, <2>15
<1> QED BY <1>5, <1>6

-----------------------------------------------------------------------------
(* A bar and the candles before it are the batch of the inputs so far, and  *)
(* stay it with every input that is accepted in the order of time.          *)

\* Some candles are in increasing time, one for each bucket of the grid, and each is
\* the candle of its bucket.
IsBatch(s, cs) ==
    /\ s \in Seq(Candle)
    /\ \A i, j \in DOMAIN s : i < j => s[i].ts < s[j].ts
    /\ {s[i].ts : i \in DOMAIN s} = Grid(cs)
    /\ \A i \in DOMAIN s : s[i] = CandleOf(s[i].ts, cs)

SoFar(bar, series, cs) ==
    /\ BarOf(bar, cs)
    /\ series \in Seq(Candle)
    /\ IsBatch(Append(series, Closed(bar)), cs)

LEMMA SoFarFirst ==
    ASSUME NEW c \in Candle
    PROVE  SoFar(OpenBar(c, Floor(c.ts)), <<>>, Append(<<>>, c))
<1> DEFINE bar == OpenBar(c, Floor(c.ts))
           cs == Append(<<>>, c)
           s == Append(<<>>, Closed(bar))
<1>1. <<>> \in Seq(Candle) /\ Sorted(<<>>) /\ DOMAIN <<>> = {}
  BY DEF Sorted
<1>2. BarOf(bar, cs)
  BY <1>1, BarOpens
<1>3. Closed(bar) \in Candle /\ Closed(bar).ts = Floor(c.ts) /\ bar.start = Floor(c.ts)
  BY OpenBarType, ClosedType DEF Closed, OpenBar
<1>4. s \in Seq(Candle) /\ DOMAIN s = {1} /\ s[1] = Closed(bar)
  <2> DEFINE d == Closed(bar)
  <2> HIDE DEF d
  <2>1. d \in Candle
    BY <1>3 DEF d
  <2>2. Append(<<>>, d) \in Seq(Candle) /\ DOMAIN Append(<<>>, d) = {1}
        /\ Append(<<>>, d)[1] = d
    BY <2>1
  <2> QED BY <2>2 DEF d
<1>5. Grid(cs) = {Floor(c.ts)}
  BY GridOfFirst
<1>6. Closed(bar) = CandleOf(Floor(c.ts), cs)
  <2> HIDE DEF bar, cs
  <2> QED BY <1>2, <1>3, BarIsCandle
<1> HIDE DEF bar, cs, s
<1>7. {s[i].ts : i \in DOMAIN s} = Grid(cs)
  BY <1>3, <1>4, <1>5
<1>8. \A i \in DOMAIN s : s[i] = CandleOf(s[i].ts, cs)
  BY <1>3, <1>4, <1>6
<1>9. \A i, j \in DOMAIN s : ~(i < j)
  BY <1>4
<1>10. IsBatch(s, cs)
  BY <1>4, <1>7, <1>8, <1>9 DEF IsBatch
<1>11. SoFar(bar, <<>>, cs)
  BY <1>1, <1>2, <1>10 DEF SoFar, s
<1> QED BY <1>11 DEF bar, cs

\* The candles before the bar.
LEMMA SeriesFacts ==
    ASSUME NEW bar, NEW series, NEW cs, SoFar(bar, series, cs)
    PROVE  /\ Len(series) \in Nat /\ bar.start \in Int
           /\ Closed(bar) \in Candle /\ Closed(bar).ts = bar.start
           /\ {series[i].ts : i \in 1 .. Len(series)} \cup {bar.start} = Grid(cs)
           /\ \A i \in 1 .. Len(series) :
                  /\ series[i].ts \in Int /\ series[i].ts < bar.start
                  /\ series[i].ts \in Grid(cs)
                  /\ series[i] = CandleOf(series[i].ts, cs)
           /\ \A i, j \in 1 .. Len(series) : i < j => series[i].ts < series[j].ts
<1> DEFINE n == Len(series)
           d == Closed(bar)
           s == Append(series, d)
<1>1. BarOf(bar, cs) /\ series \in Seq(Candle) /\ IsBatch(s, cs)
  BY DEF SoFar
<1>2. bar \in Bar /\ bar.start \in Int
  BY <1>1, UsedFacts DEF BarOf
<1>3. d \in Candle /\ d.ts = bar.start
  BY <1>2, ClosedType DEF Closed
<1> HIDE DEF d
<1>4. /\ n \in Nat /\ DOMAIN s = 1 .. n + 1
      /\ \A i \in 1 .. n : s[i] = series[i]
      /\ s[n + 1] = d
  BY <1>1, <1>3, Appended
<1>5. /\ \A i, j \in DOMAIN s : i < j => s[i].ts < s[j].ts
      /\ {s[i].ts : i \in DOMAIN s} = Grid(cs)
      /\ \A i \in DOMAIN s : s[i] = CandleOf(s[i].ts, cs)
  BY <1>1 DEF IsBatch
<1> HIDE DEF n, s
<1>6. ASSUME NEW i \in 1 .. n
      PROVE  /\ i \in DOMAIN s /\ i < n + 1 /\ n + 1 \in DOMAIN s
             /\ s[i] = series[i]
  BY <1>4
<1>7. ASSUME NEW i \in 1 .. n
      PROVE  /\ series[i].ts \in Int /\ series[i].ts < bar.start
             /\ series[i].ts \in Grid(cs)
             /\ series[i] = CandleOf(series[i].ts, cs)
  <2>1. series[i].ts < bar.start
    BY <1>3, <1>4, <1>5, <1>6
  <2>2. series[i] \in Candle
    BY <1>1, <1>4, ElementOfSeq DEF n
  <2>3. series[i].ts \in Int
    BY <2>2, TimeAssumption DEF Candle, Timestamps
  <2> QED BY <1>5, <1>6, <2>1, <2>3
<1>8. ASSUME NEW i \in 1 .. n, NEW j \in 1 .. n, i < j
      PROVE  series[i].ts < series[j].ts
  BY <1>5, <1>6, <1>8
<1>9. {series[i].ts : i \in 1 .. n} \cup {bar.start} = Grid(cs)
  <2>1. ASSUME NEW x \in Grid(cs)
        PROVE  x \in {series[i].ts : i \in 1 .. n} \cup {bar.start}
    <3>1. PICK i \in 1 .. n + 1 : x = s[i].ts
      BY <1>4, <1>5
    <3>2. CASE i = n + 1
      BY <1>3, <1>4, <3>1, <3>2
    <3>3. CASE i # n + 1
      <4>1. i \in 1 .. n
        BY <1>4, <3>3
      <4> QED BY <1>6, <3>1, <4>1
    <3> QED BY <3>2, <3>3
  <2>2. bar.start \in Grid(cs)
    <3>1. n + 1 \in DOMAIN s /\ s[n + 1].ts = bar.start
      BY <1>3, <1>4
    <3> QED BY <1>5, <3>1
  <2> QED BY <1>7, <2>1, <2>2
<1> QED BY <1>2, <1>3, <1>4, <1>7, <1>8, <1>9 DEF n, d

LEMMA SoFarSame ==
    ASSUME NEW bar, NEW series, NEW cs, SoFar(bar, series, cs), NEW c \in Candle,
           Floor(c.ts) = bar.start, cs[Len(cs)].ts <= c.ts
    PROVE  SoFar(Absorb(bar, c), series, Append(cs, c))
<1> DEFINE n == Len(series)
           next == Absorb(bar, c)
           more == Append(cs, c)
           d == Closed(next)
           s == Append(series, d)
<1>1. BarOf(bar, cs) /\ series \in Seq(Candle) /\ bar \in Bar /\ cs \in Seq(Candle)
  BY DEF SoFar, BarOf
<1>2. BarOf(next, more) /\ next.start = bar.start
  <2>1. next.start = bar.start
    BY <1>1 DEF Absorb, Bar
  <2> QED BY <1>1, <2>1, BarAbsorbs
<1> HIDE DEF next
<1>3. d \in Candle /\ d.ts = bar.start /\ d = CandleOf(bar.start, more)
  <2>1. next \in Bar
    BY <1>2 DEF BarOf
  <2> QED BY <1>2, <2>1, BarIsCandle, ClosedType DEF Closed
<1>4. Grid(more) = Grid(cs)
  BY <1>1, GridOfSame
<1>5. /\ n \in Nat /\ bar.start \in Int
      /\ {series[i].ts : i \in 1 .. n} \cup {bar.start} = Grid(cs)
      /\ \A i \in 1 .. n :
             /\ series[i].ts \in Int /\ series[i].ts < bar.start
             /\ series[i].ts \in Grid(cs)
             /\ series[i] = CandleOf(series[i].ts, cs)
      /\ \A i, j \in 1 .. n : i < j => series[i].ts < series[j].ts
  BY SeriesFacts
<1>6. ASSUME NEW i \in 1 .. n PROVE series[i] = CandleOf(series[i].ts, more)
  <2> DEFINE b == series[i].ts
  <2>1. b \in Int /\ b < Floor(c.ts) /\ b \in Grid(cs)
    BY <1>5
  <2>2. Inside(b, cs) # {} \/ Before(b, cs) # {}
    BY <1>1, <2>1, GridFacts
  <2> HIDE DEF b
  <2>3. CandleOf(b, more) = CandleOf(b, cs)
    BY <1>1, <2>1, <2>2, CandleOfAppend
  <2> QED BY <1>5, <2>3 DEF b
<1> HIDE DEF d, more
<1>7. /\ s \in Seq(Candle) /\ DOMAIN s = 1 .. n + 1
      /\ \A i \in 1 .. n : s[i] = series[i]
      /\ s[n + 1] = d
  BY <1>1, <1>3, Appended
<1> HIDE DEF n, s
<1>8. \A i \in 1 .. n + 1 : i \in 1 .. n \/ i = n + 1
  BY <1>5
<1>9. \A i \in DOMAIN s : s[i] = CandleOf(s[i].ts, more)
  BY <1>3, <1>6, <1>7, <1>8
<1>10. {s[i].ts : i \in DOMAIN s} = Grid(cs)
  <2>1. ASSUME NEW i \in DOMAIN s PROVE s[i].ts \in Grid(cs)
    BY <1>3, <1>5, <1>7, <1>8
  <2>2. ASSUME NEW x \in Grid(cs) PROVE \E i \in DOMAIN s : x = s[i].ts
    <3>1. CASE x = bar.start
      <4>1. n + 1 \in DOMAIN s
        BY <1>5, <1>7
      <4> QED BY <1>3, <1>7, <3>1, <4>1
    <3>2. CASE x # bar.start
      <4>1. PICK i \in 1 .. n : x = series[i].ts
        BY <1>5, <3>2
      <4>2. i \in DOMAIN s
        BY <1>5, <1>7
      <4> QED BY <1>7, <4>1, <4>2
    <3> QED BY <3>1, <3>2
  <2> QED BY <2>1, <2>2
<1>11. ASSUME NEW i \in DOMAIN s, NEW j \in DOMAIN s, i < j
       PROVE  s[i].ts < s[j].ts
  <2>1. i \in 1 .. n
    BY <1>5, <1>7, <1>8, <1>11
  <2>2. CASE j = n + 1
    BY <1>3, <1>5, <1>7, <2>1, <2>2
  <2>3. CASE j \in 1 .. n
    BY <1>5, <1>7, <1>11, <2>1, <2>3
  <2> QED BY <1>7, <1>8, <2>2, <2>3
<1>12. IsBatch(s, more)
  BY <1>4, <1>7, <1>9, <1>10, <1>11 DEF IsBatch
<1>13. SoFar(next, series, more)
  BY <1>1, <1>2, <1>12 DEF SoFar, s, d
<1> QED BY <1>13 DEF next, more

\* The placeholders of a gap, and the times between them.
LEMMA FillerTimes ==
    ASSUME NEW prev \in Timestamps, NEW next \in Timestamps, NEW price \in Int
    PROVE  /\ Len(Fillers(price, prev, next)) = GapCount(prev, next)
           /\ \A i \in 1 .. GapCount(prev, next) :
                 /\ Fillers(price, prev, next)[i] = Flat(price, prev + i * Bucket)
                 /\ prev + i * Bucket \in Int
                 /\ prev < prev + i * Bucket /\ prev + i * Bucket < next
           /\ \A i, j \in 1 .. GapCount(prev, next) :
                 i < j => prev + i * Bucket < prev + j * Bucket
<1> DEFINE g == GapCount(prev, next)
           f == Fillers(price, prev, next)
<1>0. /\ Bucket \in Nat /\ Bucket > 0 /\ TsMax \in Int /\ g \in Nat
      /\ prev \in Int /\ next \in Int /\ next <= TsMax
  BY GapCountType, TimeAssumption DEF Timestamps
<1>1. Len(f) = g
  BY FillersType
<1>2. ASSUME NEW i \in 1 .. g
      PROVE  /\ f[i] = Flat(price, prev + i * Bucket)
             /\ prev + i * Bucket \in Int
             /\ prev < prev + i * Bucket /\ prev + i * Bucket < next
  <2>1. f[i] = Flat(price, Lesser(prev + i * Bucket, TsMax))
    BY DEF Fillers
  <2>2. i * Bucket \in Nat /\ i * Bucket >= Bucket /\ prev + i * Bucket < next
    BY FillerBeforeNext
  <2> DEFINE x == i * Bucket
  <2>3. x \in Nat /\ x >= Bucket /\ prev + x < next
        /\ f[i] = Flat(price, Lesser(prev + x, TsMax))
    BY <2>1, <2>2
  <2> HIDE DEF x, f
  <2>4. Lesser(prev + x, TsMax) = prev + x /\ prev + x \in Int /\ prev < prev + x
    BY <1>0, <2>3 DEF Lesser
  <2> QED BY <2>3, <2>4 DEF x
<1> HIDE DEF g, f
<1>3. ASSUME NEW i \in 1 .. g, NEW j \in 1 .. g, i < j
      PROVE  prev + i * Bucket < prev + j * Bucket
  <2>1. i \in Int /\ j \in Int
    BY <1>0
  <2>2. Bucket * i + Bucket <= Bucket * j
    BY <1>0, <1>3, <2>1, Multiples
  <2>3. i * Bucket = Bucket * i /\ j * Bucket = Bucket * j
        /\ Bucket * i \in Int /\ Bucket * j \in Int
    BY <1>0, <2>1
  <2> QED BY <1>0, <2>2, <2>3
<1> QED BY <1>1, <1>2, <1>3 DEF g, f

LEMMA SoFarNext ==
    ASSUME NEW bar, NEW series, NEW cs, SoFar(bar, series, cs), NEW c \in Candle,
           bar.start < Floor(c.ts), Rolls(bar, Floor(c.ts)), FillGaps => CapBelowRange
    PROVE  SoFar(OpenBar(c, Floor(c.ts)), series \o RollOut(bar, Floor(c.ts)),
                 Append(cs, c))
<1> DEFINE n == Len(series)
           nx == Floor(c.ts)
           st == bar.start
           next == OpenBar(c, nx)
           more == Append(cs, c)
           d == Closed(bar)
           last == Closed(next)
           f == IF FillGaps THEN Fillers(bar.close, st, nx) ELSE <<>>
           m == Len(f)
           roll == RollOut(bar, nx)
           s == Append(series \o roll, last)
<1>1. /\ BarOf(bar, cs) /\ series \in Seq(Candle) /\ bar \in Bar /\ cs \in Seq(Candle)
      /\ Sorted(cs)
  BY DEF SoFar, BarOf
<1>2. /\ st \in Timestamps /\ st \in Int /\ bar.close \in Int
      /\ nx \in Timestamps /\ nx \in Int /\ st < nx
  BY <1>1, FloorFacts, TimeAssumption DEF Bar, Candle, Timestamps
<1>3. BarOf(next, more)
  <2>1. ASSUME NEW i \in DOMAIN cs PROVE Floor(cs[i].ts) < nx
    <3>1. Floor(cs[i].ts) <= st /\ Floor(cs[i].ts) \in Int
      <4>1. cs # <<>> /\ st = Floor(cs[Len(cs)].ts)
        BY DEF SoFar, BarOf
      <4>2. Floor(cs[i].ts) <= st
        BY <1>1, <4>1, LastInside
      <4>3. Floor(cs[i].ts) \in Int
        BY <1>1, InputTimes, TimeAssumption DEF Timestamps
      <4> QED BY <4>2, <4>3
    <3> QED BY <1>2, <3>1
  <2> QED BY <1>1, <2>1, BarOpens
<1>4. next.start = nx /\ next \in Bar
  BY <1>3 DEF OpenBar, BarOf
<1>5. last \in Candle /\ last.ts = nx /\ last = CandleOf(nx, more)
  <2> HIDE DEF next, nx, more
  <2> QED BY <1>3, <1>4, BarIsCandle, ClosedType DEF Closed
<1>6. /\ n \in Nat /\ d \in Candle /\ d.ts = st
      /\ {series[i].ts : i \in 1 .. n} \cup {st} = Grid(cs)
      /\ \A i \in 1 .. n :
             /\ series[i].ts \in Int /\ series[i].ts < st
             /\ series[i].ts \in Grid(cs)
             /\ series[i] = CandleOf(series[i].ts, cs)
      /\ \A i, j \in 1 .. n : i < j => series[i].ts < series[j].ts
  BY SeriesFacts
\* The buckets so far keep their candles.
<1>7. ASSUME NEW b \in Grid(cs) PROVE CandleOf(b, more) = CandleOf(b, cs)
  <2>1. b \in Int /\ b <= st /\ (Inside(b, cs) # {} \/ Before(b, cs) # {})
    BY <1>1, GridFacts
  <2>2. b < Floor(c.ts)
    BY <1>2, <2>1
  <2> QED BY <1>1, <2>1, <2>2, CandleOfAppend
<1>8. st \in Grid(cs) /\ d = CandleOf(st, more)
  <2>1. st \in Grid(cs)
    BY <1>6
  <2>2. d = CandleOf(st, cs)
    BY <1>1, BarIsCandle
  <2> QED BY <1>7, <2>1, <2>2
\* The placeholders are the candles of the buckets between.
<1>9. /\ m \in Nat /\ f \in Seq(Candle)
      /\ \A j \in 1 .. m :
             /\ f[j].ts \in Int /\ st < f[j].ts /\ f[j].ts < nx
             /\ f[j] = CandleOf(f[j].ts, more)
      /\ \A j, k \in 1 .. m : j < k => f[j].ts < f[k].ts
      /\ Grid(more) = Grid(cs) \cup {nx} \cup {f[j].ts : j \in 1 .. m}
  <2>0. FillGaps => CapBelowRange /\ Fillable(st, nx)
    BY DEF Rolls
  <2>1. Grid(more) =
            Grid(cs) \cup {nx}
                \cup (IF FillGaps
                      THEN {st + k * Bucket : k \in 1 .. GapCount(st, nx)}
                      ELSE {})
    BY <1>1, <1>2, <2>0, GridOfNext
  <2>2. CASE ~FillGaps
    <3>1. f = <<>> /\ m = 0 /\ <<>> \in Seq(Candle)
      BY <2>2
    <3> HIDE DEF f, m
    <3> QED BY <2>1, <2>2, <3>1
  <2>3. CASE FillGaps
    <3> DEFINE g == GapCount(st, nx)
    <3>1. f = Fillers(bar.close, st, nx)
      BY <2>3
    <3>2. /\ m = g
          /\ \A i \in 1 .. g :
                /\ f[i] = Flat(bar.close, st + i * Bucket)
                /\ st + i * Bucket \in Int
                /\ st < st + i * Bucket /\ st + i * Bucket < nx
          /\ \A i, j \in 1 .. g : i < j => st + i * Bucket < st + j * Bucket
      <4> HIDE DEF st, nx
      <4> QED BY <1>2, <3>1, FillerTimes
    <3>3. f \in Seq(Candle) /\ g \in Nat
      <4> HIDE DEF st, nx
      <4> QED BY <1>2, <3>1, FillersType, GapCountType
    <3>4. Grid(more) = Grid(cs) \cup {nx} \cup {st + k * Bucket : k \in 1 .. g}
      BY <2>1, <2>3
    <3>5. ASSUME NEW j \in 1 .. g
          PROVE  /\ f[j].ts = st + j * Bucket
                 /\ f[j] = CandleOf(st + j * Bucket, more)
      <4> DEFINE b == st + j * Bucket
      <4>1. f[j] = Flat(bar.close, b) /\ b \in Int /\ st < b /\ b < nx
        BY <3>2
      <4> HIDE DEF b
      <4>2. Before(b, cs) # {} /\ CandleOf(b, cs) = Flat(bar.close, b)
        BY <1>1, <4>1, GapCandle
      <4>3. CandleOf(b, more) = CandleOf(b, cs)
        BY <1>1, <4>1, <4>2, CandleOfAppend
      <4> QED BY <4>1, <4>2, <4>3 DEF Flat, b
    <3> HIDE DEF f, m, g, more, nx, st
    <3>6. {f[j].ts : j \in 1 .. g} = {st + k * Bucket : k \in 1 .. g}
      BY <3>5
    <3>7. ASSUME NEW j \in 1 .. g
          PROVE  /\ f[j].ts \in Int /\ st < f[j].ts /\ f[j].ts < nx
                 /\ f[j] = CandleOf(f[j].ts, more)
      BY <3>2, <3>5
    <3>8. ASSUME NEW j \in 1 .. g, NEW k \in 1 .. g, j < k
          PROVE  f[j].ts < f[k].ts
      BY <3>2, <3>5, <3>8
    <3> QED BY <3>2, <3>3, <3>4, <3>6, <3>7, <3>8
  <2> QED BY <2>2, <2>3
<1>10. roll = <<d>> \o f
  BY DEF RollOut
<1>11. roll \in Seq(Candle)
  BY <1>1, <1>2, RollOutType
<1> HIDE DEF d, last, f, roll, next, more, nx, st
<1>12. /\ Len(series \o roll) = n + 1 + m
       /\ \A i \in 1 .. n : s[i] = series[i]
       /\ s[n + 1] = d
       /\ \A j \in 1 .. m : s[n + 1 + j] = f[j]
       /\ s[n + 2 + m] = last
  BY <1>1, <1>5, <1>6, <1>9, <1>10, RolledSeries
<1>13. series \o roll \in Seq(Candle)
  BY <1>1, <1>11
<1>14. s \in Seq(Candle) /\ DOMAIN s = 1 .. n + 2 + m
  <2> DEFINE h == series \o roll
  <2> HIDE DEF h
  <2>1. /\ Append(h, last) \in Seq(Candle)
        /\ DOMAIN Append(h, last) = 1 .. Len(h) + 1
    BY <1>5, <1>13, Appended DEF h
  <2>2. Len(h) + 1 = n + 2 + m
    BY <1>6, <1>9, <1>12 DEF h
  <2> QED BY <2>1, <2>2 DEF h
<1> HIDE DEF n, m, s
\* The candles are those of the series, the closed bar, the placeholders, the new bar.
<1>15. ASSUME NEW i \in 1 .. n + 2 + m
       PROVE  \/ i \in 1 .. n /\ s[i] = series[i]
              \/ i = n + 1 /\ s[i] = d
              \/ i - (n + 1) \in 1 .. m /\ s[i] = f[i - (n + 1)]
              \/ i = n + 2 + m /\ s[i] = last
  <2>1. CASE i \in 1 .. n \/ i = n + 1 \/ i = n + 2 + m
    BY <1>12, <2>1
  <2>2. CASE ~(i \in 1 .. n \/ i = n + 1 \/ i = n + 2 + m)
    <3> DEFINE j == i - (n + 1)
    <3>1. j \in 1 .. m /\ n + 1 + j = i
      BY <1>6, <1>9, <2>2
    <3>2. s[n + 1 + j] = f[j]
      BY <1>12, <3>1
    <3> QED BY <3>1, <3>2
  <2> QED BY <2>1, <2>2
<1>16. ASSUME NEW i \in 1 .. n + 2 + m
       PROVE  s[i] = CandleOf(s[i].ts, more) /\ s[i].ts \in Grid(more)
  <2>1. CASE i \in 1 .. n /\ s[i] = series[i]
    BY <1>6, <1>7, <1>9, <2>1
  <2>2. CASE i = n + 1 /\ s[i] = d
    BY <1>6, <1>8, <1>9, <2>2
  <2>3. CASE i - (n + 1) \in 1 .. m /\ s[i] = f[i - (n + 1)]
    BY <1>9, <2>3
  <2>4. CASE i = n + 2 + m /\ s[i] = last
    BY <1>5, <1>9, <2>4
  <2> QED BY <1>15, <2>1, <2>2, <2>3, <2>4
<1>17. ASSUME NEW x \in Grid(more) PROVE \E i \in 1 .. n + 2 + m : x = s[i].ts
  <2>1. x \in {series[i].ts : i \in 1 .. n} \/ x = st \/ x = nx
        \/ x \in {f[j].ts : j \in 1 .. m}
    BY <1>6, <1>9
  <2>2. CASE x \in {series[i].ts : i \in 1 .. n}
    <3>1. PICK i \in 1 .. n : x = series[i].ts
      BY <2>2
    <3>2. i \in 1 .. n + 2 + m
      BY <1>6, <1>9
    <3> QED BY <1>12, <3>1, <3>2
  <2>3. CASE x = st
    <3>1. n + 1 \in 1 .. n + 2 + m
      BY <1>6, <1>9
    <3> QED BY <1>6, <1>12, <2>3, <3>1
  <2>4. CASE x = nx
    <3>1. n + 2 + m \in 1 .. n + 2 + m
      BY <1>6, <1>9
    <3> QED BY <1>5, <1>12, <2>4, <3>1
  <2>5. CASE x \in {f[j].ts : j \in 1 .. m}
    <3>1. PICK j \in 1 .. m : x = f[j].ts
      BY <2>5
    <3>2. n + 1 + j \in 1 .. n + 2 + m
      BY <1>6, <1>9
    <3> QED BY <1>12, <3>1, <3>2
  <2> QED BY <2>1, <2>2, <2>3, <2>4, <2>5
<1>18. ASSUME NEW i \in 1 .. n + 2 + m, NEW j \in 1 .. n + 2 + m, i < j
       PROVE  s[i].ts < s[j].ts
  <2>0. i \in Int /\ j \in Int /\ n \in Nat /\ m \in Nat /\ st \in Int /\ nx \in Int
        /\ st < nx /\ d.ts = st /\ last.ts = nx
    BY <1>2, <1>5, <1>6, <1>9
  <2>1. CASE i \in 1 .. n /\ s[i] = series[i]
    <3>0. s[i].ts \in Int /\ s[i].ts < st
      BY <1>6, <2>1
    <3>1. CASE j \in 1 .. n /\ s[j] = series[j]
      BY <1>6, <1>18, <2>1, <3>1
    <3>2. CASE j = n + 1 /\ s[j] = d
      BY <2>0, <3>0, <3>2
    <3>3. CASE j - (n + 1) \in 1 .. m /\ s[j] = f[j - (n + 1)]
      <4>1. s[j].ts \in Int /\ st < s[j].ts
        BY <1>9, <3>3
      <4> QED BY <2>0, <3>0, <4>1
    <3>4. CASE j = n + 2 + m /\ s[j] = last
      BY <2>0, <3>0, <3>4
    <3> QED BY <1>15, <3>1, <3>2, <3>3, <3>4
  <2>2. CASE i = n + 1 /\ s[i] = d
    <3>1. CASE j - (n + 1) \in 1 .. m /\ s[j] = f[j - (n + 1)]
      BY <1>9, <2>0, <2>2, <3>1
    <3>2. CASE j = n + 2 + m /\ s[j] = last
      BY <2>0, <2>2, <3>2
    <3>3. ~(j \in 1 .. n) /\ j # n + 1
      BY <1>18, <2>0, <2>2
    <3> QED BY <1>15, <3>1, <3>2, <3>3
  <2>3. CASE i - (n + 1) \in 1 .. m /\ s[i] = f[i - (n + 1)]
    <3>1. CASE j - (n + 1) \in 1 .. m /\ s[j] = f[j - (n + 1)]
      <4>1. i - (n + 1) < j - (n + 1)
        BY <1>18, <2>0
      <4> QED BY <1>9, <2>3, <3>1, <4>1
    <3>2. CASE j = n + 2 + m /\ s[j] = last
      BY <1>9, <2>0, <2>3, <3>2
    <3>3. ~(j \in 1 .. n) /\ j # n + 1
      BY <1>18, <2>0, <2>3
    <3> QED BY <1>15, <3>1, <3>2, <3>3
  <2>4. i # n + 2 + m
    BY <1>18, <2>0
  <2> QED BY <1>15, <2>1, <2>2, <2>3, <2>4
<1>19. {s[i].ts : i \in DOMAIN s} = Grid(more)
  BY <1>14, <1>16, <1>17
<1>20. IsBatch(s, more)
  BY <1>14, <1>16, <1>18, <1>19 DEF IsBatch
<1>21. SoFar(next, series \o roll, more)
  BY <1>3, <1>13, <1>20 DEF SoFar, s, last
<1> QED BY <1>21 DEF next, more, nx, roll

-----------------------------------------------------------------------------
(* There is one such list of candles, and Batch is it.                      *)

LEMMA IncreasingCount ==
    ASSUME NEW n \in Nat, NEW t, \A i \in 1 .. n : t[i] \in Int,
           \A i, j \in 1 .. n : i < j => t[i] < t[j],
           NEW k \in 0 .. n
    PROVE  Cardinality({t[i] : i \in 1 .. k}) = k
<1> DEFINE A == 1 .. k
           S == {t[i] : i \in A}
           f == [i \in A |-> t[i]]
<1>1. IsFiniteSet(A) /\ Cardinality(A) = k
  BY FS_Interval
<1>2. f \in [A -> S]
  OBVIOUS
<1>3. ASSUME NEW i \in A, NEW j \in A, f[i] = f[j] PROVE i = j
  <2>1. i \in 1 .. n /\ j \in 1 .. n /\ t[i] = t[j] /\ t[i] \in Int
    BY <1>3
  <2>2. ~(i < j) /\ ~(j < i)
    BY <2>1
  <2> QED BY <2>2
<1>4. \A y \in S : \E i \in A : f[i] = y
  OBVIOUS
<1> HIDE DEF A, S, f
<1>5. f \in Bijection(A, S)
  BY <1>2, <1>3, <1>4 DEF Bijection, Injection, IsInjective, Surjection
<1>6. Cardinality(S) = Cardinality(A)
  BY <1>1, <1>5, FS_Bijection DEF ExistsBijection
<1> QED BY <1>1, <1>6 DEF S, A

LEMMA AscendingIs ==
    ASSUME NEW n \in Nat, NEW t, t = [i \in 1 .. n |-> t[i]],
           \A i \in 1 .. n : t[i] \in Int,
           \A i, j \in 1 .. n : i < j => t[i] < t[j]
    PROVE  Ascending({t[i] : i \in 1 .. n}) = t
<1> DEFINE S == {t[i] : i \in 1 .. n}
           Below(x) == {y \in S : y < x}
           a == Ascending(S)
<1>1. Cardinality(S) = n
  <2>1. n \in 0 .. n
    OBVIOUS
  <2> QED BY <2>1, IncreasingCount
<1>2. a = [i \in 1 .. n |-> CHOOSE x \in S : Cardinality(Below(x)) = i - 1]
  BY <1>1 DEF Ascending
<1>3. ASSUME NEW i \in 1 .. n
      PROVE  Cardinality(Below(t[i])) = i - 1
  <2>1. i \in Int /\ i - 1 \in 0 .. n
    OBVIOUS
  <2>2. ASSUME NEW y \in Below(t[i]) PROVE y \in {t[j] : j \in 1 .. i - 1}
    <3>1. PICK j \in 1 .. n : y = t[j]
      OBVIOUS
    <3>2. t[j] < t[i] /\ t[j] \in Int /\ t[i] \in Int
      BY <3>1
    <3>3. ~(i < j) /\ i # j
      BY <3>2
    <3>4. j \in 1 .. i - 1
      BY <3>3
    <3> QED BY <3>1, <3>4
  <2>3. ASSUME NEW j \in 1 .. i - 1 PROVE t[j] \in Below(t[i])
    <3>1. j \in 1 .. n /\ j < i
      OBVIOUS
    <3> QED BY <3>1
  <2> HIDE DEF Below
  <2>4. Below(t[i]) = {t[j] : j \in 1 .. i - 1}
    BY <2>2, <2>3 DEF Below
  <2>5. Cardinality({t[j] : j \in 1 .. i - 1}) = i - 1
    BY <2>1, IncreasingCount
  <2> QED BY <2>4, <2>5
<1>4. ASSUME NEW i \in 1 .. n PROVE a[i] = t[i]
  <2> HIDE DEF Below
  <2> DEFINE x == a[i]
  <2>1. t[i] \in S /\ Cardinality(Below(t[i])) = i - 1
    BY <1>3
  <2>2. x = CHOOSE y \in S : Cardinality(Below(y)) = i - 1
    BY <1>2
  <2> HIDE DEF x
  <2>3. x \in S /\ Cardinality(Below(x)) = i - 1
    <3> HIDE DEF S
    <3> QED BY <2>1, <2>2
  <2>4. PICK j \in 1 .. n : x = t[j]
    BY <2>3
  <2>5. Cardinality(Below(t[j])) = j - 1
    BY <1>3
  <2>6. j - 1 = i - 1
    BY <2>3, <2>4, <2>5
  <2>7. j = i
    BY <2>6
  <2> QED BY <2>4, <2>7 DEF x
<1> HIDE DEF a, Below
<1>5. a = [i \in 1 .. n |-> a[i]]
  BY <1>2
<1>6. a = t
  BY <1>4, <1>5
<1> QED BY <1>6 DEF a

LEMMA BatchIs ==
    ASSUME NEW s, NEW cs, IsBatch(s, cs)
    PROVE  s = Batch(cs)
<1> DEFINE n == Len(s)
           t == [i \in 1 .. n |-> s[i].ts]
           a == Ascending(Grid(cs))
<1>1. /\ s \in Seq(Candle)
      /\ \A i, j \in DOMAIN s : i < j => s[i].ts < s[j].ts
      /\ {s[i].ts : i \in DOMAIN s} = Grid(cs)
      /\ \A i \in DOMAIN s : s[i] = CandleOf(s[i].ts, cs)
  BY DEF IsBatch
<1>2. n \in Nat /\ DOMAIN s = 1 .. n /\ s = [i \in 1 .. n |-> s[i]]
  <2>1. n \in Nat /\ DOMAIN s = 1 .. n
    BY <1>1, LenProperties
  <2>2. s = [i \in DOMAIN s |-> s[i]]
    BY <1>1
  <2> QED BY <2>1, <2>2
<1>3. ASSUME NEW i \in 1 .. n PROVE s[i].ts \in Int
  <2>1. s[i] \in Candle
    BY <1>1, ElementOfSeq
  <2> QED BY <2>1, TimeAssumption DEF Candle, Timestamps
<1> HIDE DEF n
<1>4. {t[i] : i \in 1 .. n} = Grid(cs)
  BY <1>1, <1>2
<1>5. t = [i \in 1 .. n |-> t[i]] /\ \A i \in 1 .. n : t[i] \in Int
  BY <1>3
<1>6. \A i, j \in 1 .. n : i < j => t[i] < t[j]
  BY <1>1, <1>2
<1>7. a = t
  <2> HIDE DEF t
  <2>1. Ascending({t[i] : i \in 1 .. n}) = t
    BY <1>2, <1>5, <1>6, AscendingIs
  <2> QED BY <1>4, <2>1
<1>8. Batch(cs) = [i \in DOMAIN a |-> CandleOf(a[i], cs)]
  BY DEF Batch
<1> HIDE DEF a
<1>9. Batch(cs) = [i \in 1 .. n |-> CandleOf(s[i].ts, cs)]
  BY <1>7, <1>8
<1>10. ASSUME NEW i \in 1 .. n PROVE CandleOf(s[i].ts, cs) = s[i]
  BY <1>1, <1>2
<1> QED BY <1>2, <1>9, <1>10

-----------------------------------------------------------------------------
(* A coarse stage fed an unbroken series of finer candles draws the outline *)
(* of the batch: its times, closes and volumes.                             *)

\* Behind the last of some inputs there is nothing but its close.
LEMMA NoneAfterLast ==
    ASSUME NEW cs \in Seq(Candle), cs # <<>>, Sorted(cs),
           NEW b \in Int, Floor(cs[Len(cs)].ts) < b
    PROVE  /\ Inside(b, cs) = {} /\ Before(b, cs) # {}
           /\ CandleOf(b, cs) = Flat(cs[Len(cs)].close, b)
<1> DEFINE n == Len(cs)
           last == Floor(cs[n].ts)
<1>1. n \in DOMAIN cs /\ last \in Int /\ \A i \in DOMAIN cs : Floor(cs[i].ts) <= last
  BY LastInside, TimeAssumption DEF Timestamps
<1>2. ASSUME NEW i \in DOMAIN cs PROVE StartOf(cs[i].ts) \in Int /\ StartOf(cs[i].ts) < b
  <2>1. StartOf(cs[i].ts) = Floor(cs[i].ts) /\ Floor(cs[i].ts) \in Int
    BY InputTimes, TimeAssumption DEF Timestamps
  <2> QED BY <1>1, <2>1
<1>3. Inside(b, cs) = {}
  <2> SUFFICES ASSUME NEW i \in DOMAIN cs, StartOf(cs[i].ts) = b PROVE FALSE
    BY DEF Inside
  <2>1. StartOf(cs[i].ts) \in Int /\ StartOf(cs[i].ts) < b
    BY <1>2
  <2> QED BY <2>1
<1>4. Before(b, cs) = DOMAIN cs
  BY <1>2 DEF Before
<1>5. \A i \in DOMAIN cs : i <= n
  BY LenProperties
<1>6. Newest(DOMAIN cs, cs) = cs[n]
  BY <1>1, <1>5, NewestIsLast
<1> QED BY <1>1, <1>3, <1>4, <1>6 DEF CandleOf

\* What an input does to the close and the volume of its bucket.
LEMMA CandleGrows ==
    ASSUME NEW cs \in Seq(Candle), cs # <<>>, NEW c \in Candle, Sorted(Append(cs, c))
    PROVE  LET b == Floor(c.ts)
               now == CandleOf(b, Append(cs, c))
           IN  /\ now.close = c.close
               /\ now.volume = AddVolume(CandleOf(b, cs).volume, c.volume)
<1> DEFINE b == Floor(c.ts)
           more == Append(cs, c)
           n == Len(cs)
           I == Inside(b, cs)
<1>1. /\ n \in Nat /\ DOMAIN cs = 1 .. n /\ Len(more) = n + 1 /\ DOMAIN more = 1 .. n + 1
      /\ more \in Seq(Candle) /\ more[n + 1] = c
      /\ \A i \in 1 .. n : more[i] = cs[i]
  BY Appended
<1>2. Sorted(cs) /\ \A i \in DOMAIN cs : cs[i].ts <= c.ts
  BY SortedPrefix
<1>3. Inside(b, more) = I \cup {n + 1} /\ I \in SUBSET (1 .. n)
  BY <1>1, InsideAppend DEF Inside
<1>4. b \in Timestamps /\ b \in Int
  BY FloorFacts, TimeAssumption DEF Candle, Timestamps
<1>5. VolumeSeen(b, more)[n + 1] = VolumeSeen(b, cs)[n] + c.volume
  BY VolumeAppend
<1>6. VolumeSeen(b, cs)[n] \in Nat /\ c.volume \in Nat
  <2>1. c.volume \in Nat
    BY CandleAssumption DEF Candle, Volumes
  <2>2. n \in 0 .. Len(cs)
    BY <1>1
  <2> QED BY <2>1, <2>2, VolumeSeenType
<1>7. Newest(Inside(b, more), more) = c
  <2>1. /\ Inside(b, more) \in SUBSET (DOMAIN more)
        /\ n + 1 \in Inside(b, more) /\ \A i \in Inside(b, more) : i <= n + 1
    <3> DEFINE J == Inside(b, more)
    <3>1. J = I \cup {n + 1} /\ I \in SUBSET (1 .. n) /\ n \in Nat
          /\ DOMAIN more = 1 .. n + 1
      BY <1>1, <1>3
    <3> HIDE DEF more, n, I, J
    <3>2. J \in SUBSET (DOMAIN more) /\ n + 1 \in J /\ \A i \in J : i <= n + 1
      BY <3>1
    <3> QED BY <3>2 DEF J
  <2> HIDE DEF more, n, b
  <2> QED BY <1>1, <2>1, NewestIsLast DEF more
<1>8. /\ CandleOf(b, more).close = c.close
      /\ CandleOf(b, more).volume = Lesser(VolumeSeen(b, cs)[n] + c.volume, Infinity)
  <2>1. CandleOf(b, more) = Reduce(b, more)
    BY <1>3 DEF CandleOf
  <2> HIDE DEF more
  <2> QED BY <1>1, <1>5, <1>7, <2>1 DEF Reduce
<1>9. CandleOf(b, cs).volume = Lesser(VolumeSeen(b, cs)[n], Infinity)
  <2>1. CASE I # {}
    BY <2>1 DEF CandleOf, Reduce
  <2>2. CASE I = {}
    <3>1. CandleOf(b, cs).volume = 0
      BY <2>2 DEF CandleOf, Flat
    <3>2. VolumeSeen(b, cs)[n] = 0
      BY <2>2, VolumeOfNone
    <3> QED BY <3>1, <3>2, CandleAssumption DEF Lesser
  <2> QED BY <2>1, <2>2
<1> HIDE DEF b, more, n
<1> QED BY <1>6, <1>8, <1>9, CandleAssumption DEF AddVolume, Lesser, b, more, n

\* A bar and the candles before it follow each other without a gap from the bucket of
\* the first input, to that of the last or beyond, and each has the close and the
\* volume of its bucket.
Agrees(d, cs) ==
    /\ d.close = CandleOf(d.ts, cs).close
    /\ d.volume = CandleOf(d.ts, cs).volume
Outline(bar, series, cs) ==
    /\ cs \in Seq(Candle) /\ cs # <<>> /\ Sorted(cs)
    /\ \A i \in DOMAIN cs : Uncut(cs[i].ts)
    /\ bar \in Bar /\ series \in Seq(Candle)
    /\ Floor(cs[Len(cs)].ts) <= bar.start
    /\ bar.start = Floor(cs[1].ts) + Len(series) * Bucket
    /\ \A i \in 1 .. Len(series) : series[i].ts = Floor(cs[1].ts) + (i - 1) * Bucket
    /\ \A i \in 1 .. Len(series) : Agrees(series[i], cs)
    /\ Agrees(Closed(bar), cs)

\* An outline rises in time and ends before the bar under way.
LEMMA OutlineTimes ==
    ASSUME NEW bar, NEW series, NEW cs, Outline(bar, series, cs)
    PROVE  /\ Len(series) \in Nat /\ Len(cs) \in Nat /\ Len(cs) >= 1
           /\ DOMAIN cs = 1 .. Len(cs) /\ DOMAIN series = 1 .. Len(series)
           /\ cs[1] \in Candle /\ Floor(cs[1].ts) \in Int
           /\ Floor(cs[Len(cs)].ts) \in Int /\ bar.start \in Int
           /\ \A i \in 1 .. Len(series) :
                 /\ series[i].ts \in Int /\ series[i].ts < bar.start
                 /\ Floor(cs[1].ts) <= series[i].ts
           /\ \A i, j \in 1 .. Len(series) : i < j => series[i].ts < series[j].ts
<1> DEFINE n == Len(series)
           low == Floor(cs[1].ts)
<1>1. /\ cs \in Seq(Candle) /\ cs # <<>> /\ series \in Seq(Candle) /\ bar \in Bar
      /\ bar.start = low + n * Bucket
      /\ \A i \in 1 .. n : series[i].ts = low + (i - 1) * Bucket
  BY DEF Outline
<1>2. n \in Nat /\ Len(cs) \in Nat /\ Len(cs) >= 1 /\ DOMAIN cs = 1 .. Len(cs)
      /\ DOMAIN series = 1 .. n
  BY <1>1, LenProperties, EmptySeq
<1>3. 1 \in DOMAIN cs /\ Len(cs) \in DOMAIN cs
  BY <1>2
<1>4. cs[1] \in Candle /\ low \in Int /\ Floor(cs[Len(cs)].ts) \in Int
  BY <1>1, <1>3, InputTimes, TimeAssumption DEF Timestamps
<1>5. Bucket \in Int /\ Bucket > 0
  BY TimeAssumption
<1> HIDE DEF n, low
<1>6. ASSUME NEW i \in Int, NEW j \in Int, i < j
      PROVE  low + i * Bucket \in Int /\ low + i * Bucket < low + j * Bucket
  <2> DEFINE x == Bucket * i
             y == Bucket * j
  <2>1. x \in Int /\ y \in Int /\ x + Bucket <= y
    BY <1>5, <1>6, Multiples
  <2>2. i * Bucket = x /\ j * Bucket = y
    BY <1>5
  <2> HIDE DEF x, y
  <2> QED BY <1>4, <1>5, <2>1, <2>2
<1>7. \A i \in 1 .. n : /\ series[i].ts \in Int /\ series[i].ts < bar.start
                        /\ low <= series[i].ts
  <2> SUFFICES ASSUME NEW i \in 1 .. n
               PROVE  /\ series[i].ts \in Int /\ series[i].ts < bar.start
                      /\ low <= series[i].ts
    OBVIOUS
  <2>1. i - 1 \in Int /\ n \in Int /\ i - 1 < n
    BY <1>2
  <2>2. series[i].ts \in Int /\ series[i].ts < bar.start
    BY <1>1, <1>6, <2>1
  <2>3. CASE i = 1
    <3>1. series[i].ts = low + 0 * Bucket
      BY <1>1, <2>3
    <3> QED BY <1>4, <1>5, <2>2, <3>1
  <2>4. CASE i # 1
    <3>1. 0 \in Int /\ 0 < i - 1
      BY <1>2, <2>4
    <3>2. low + 0 * Bucket = low
      BY <1>4, <1>5
    <3>3. low + 0 * Bucket < low + (i - 1) * Bucket
      BY <1>6, <2>1, <3>1
    <3> QED BY <1>1, <1>4, <2>2, <3>2, <3>3
  <2> QED BY <2>2, <2>3, <2>4
<1>8. \A i, j \in 1 .. n : i < j => series[i].ts < series[j].ts
  <2> SUFFICES ASSUME NEW i \in 1 .. n, NEW j \in 1 .. n, i < j
               PROVE  series[i].ts < series[j].ts
    OBVIOUS
  <2>1. i - 1 \in Int /\ j - 1 \in Int /\ i - 1 < j - 1
    BY <1>2
  <2> QED BY <1>1, <1>6, <2>1
<1>9. bar.start \in Int
  BY <1>1, TimeAssumption DEF Bar, Timestamps
<1> QED BY <1>2, <1>4, <1>7, <1>8, <1>9 DEF n, low

\* Nothing but the times, closes and volumes of the bar is looked at.
LEMMA OutlineFlat ==
    ASSUME NEW bar, NEW series, NEW cs, Outline(bar, series, cs), NEW next \in Bar,
           next.start = bar.start, next.close = bar.close, next.volume = bar.volume
    PROVE  Outline(next, series, cs)
  BY DEF Outline, Agrees, Closed

\* The first candle is an outline of itself.
LEMMA OutlineFirst ==
    ASSUME NEW c \in Candle, Uncut(c.ts), NEW bar \in Bar,
           bar.start = Floor(c.ts), bar.close = c.close, bar.volume = c.volume
    PROVE  Outline(bar, <<>>, Append(<<>>, c))
<1> DEFINE cs == Append(<<>>, c)
           b == Floor(c.ts)
<1>1. /\ cs \in Seq(Candle) /\ cs # <<>> /\ Len(cs) = 1 /\ DOMAIN cs = 1 .. 1 /\ cs[1] = c
      /\ Sorted(cs)
  <2>1. <<>> \in Seq(Candle) /\ Len(<<>>) = 0
    BY EmptySeq
  <2>2. cs \in Seq(Candle) /\ Len(cs) = 1 /\ DOMAIN cs = 1 .. 1 /\ cs[1] = c
    BY <2>1, Appended
  <2>3. Sorted(cs)
    BY <2>2 DEF Sorted
  <2> QED BY <2>2, <2>3
<1>2. b \in Timestamps /\ b \in Int
  BY FloorFacts, TimeAssumption DEF Candle, Timestamps
<1> HIDE DEF cs, b
<1>3. /\ CandleOf(b, cs).close = c.close /\ CandleOf(b, cs).volume = c.volume
  <2>1. SoFar(OpenBar(c, b), <<>>, cs)
    BY SoFarFirst DEF cs, b
  <2>2. BarOf(OpenBar(c, b), cs)
    BY <2>1 DEF SoFar
  <2>3. Closed(OpenBar(c, b)) = CandleOf(OpenBar(c, b).start, cs)
    BY <2>2, BarIsCandle
  <2> QED BY <2>3 DEF Closed, OpenBar
<1>4. <<>> \in Seq(Candle) /\ Len(<<>>) = 0 /\ 0 * Bucket = 0 /\ 1 .. 0 = {}
  BY EmptySeq, TimeAssumption
<1>5. Agrees(Closed(bar), cs)
  BY <1>3 DEF Agrees, Closed, b
<1>6. bar.start = Floor(cs[1].ts) + Len(<<>>) * Bucket
  BY <1>1, <1>2, <1>4 DEF b
<1>7. Floor(cs[Len(cs)].ts) <= bar.start
  BY <1>1, <1>2 DEF b
<1> QED BY <1>1, <1>4, <1>5, <1>6, <1>7 DEF Outline, cs

\* The bar has the close of the last input, be it of its bucket or of one before it.
LEMMA OutlineClose ==
    ASSUME NEW bar, NEW series, NEW cs, Outline(bar, series, cs)
    PROVE  bar.close = cs[Len(cs)].close
<1> DEFINE n == Len(cs)
           I == Inside(bar.start, cs)
<1>1. /\ cs \in Seq(Candle) /\ cs # <<>> /\ Sorted(cs) /\ bar \in Bar
      /\ Floor(cs[n].ts) <= bar.start
      /\ bar.close = CandleOf(bar.start, cs).close
  BY DEF Outline, Agrees, Closed
<1>2. bar.start \in Int /\ Floor(cs[n].ts) \in Int
  BY OutlineTimes
<1>3. CASE Floor(cs[n].ts) < bar.start
  BY <1>1, <1>2, <1>3, NoneAfterLast DEF Flat
<1>4. CASE Floor(cs[n].ts) = bar.start
  <2>1. n \in I /\ I \in SUBSET (DOMAIN cs) /\ \A i \in I : i <= n
    BY <1>1, <1>4, LastInside
  <2>2. Newest(I, cs) = cs[n]
    <3> HIDE DEF I, n
    <3> QED BY <1>1, <2>1, NewestIsLast
  <2>3. CandleOf(bar.start, cs) = Reduce(bar.start, cs)
    BY <2>1 DEF CandleOf
  <2> QED BY <1>1, <2>2, <2>3 DEF Reduce
<1> QED BY <1>1, <1>2, <1>3, <1>4

\* A placeholder of the next bucket.
LEMMA OutlineFlatNext ==
    ASSUME NEW bar, NEW series, NEW cs, Outline(bar, series, cs), NEW next \in Bar,
           next.start = bar.start + Bucket, next.close = bar.close, next.volume = 0
    PROVE  Outline(next, Append(series, Closed(bar)), cs)
<1> DEFINE n == Len(series)
           d == Closed(bar)
           more == Append(series, d)
           low == Floor(cs[1].ts)
           last == Floor(cs[Len(cs)].ts)
<1>1. /\ cs \in Seq(Candle) /\ cs # <<>> /\ Sorted(cs)
      /\ \A i \in DOMAIN cs : Uncut(cs[i].ts)
      /\ bar \in Bar /\ series \in Seq(Candle) /\ last <= bar.start
      /\ bar.start = low + n * Bucket
      /\ \A i \in 1 .. n : series[i].ts = low + (i - 1) * Bucket
      /\ \A i \in 1 .. n : Agrees(series[i], cs)
      /\ Agrees(d, cs)
  BY DEF Outline
<1>2. n \in Nat /\ low \in Int /\ last \in Int /\ bar.start \in Int
  BY OutlineTimes
<1>3. d \in Candle /\ d.ts = bar.start
  BY <1>1, ClosedType DEF Closed
<1> HIDE DEF d
<1>4. /\ more \in Seq(Candle) /\ Len(more) = n + 1
      /\ \A i \in 1 .. n : more[i] = series[i]
      /\ more[n + 1] = d
  BY <1>1, <1>3, Appended
<1>5. Bucket \in Int /\ Bucket > 0
  BY TimeAssumption
<1>6. last < next.start
  <2> HIDE DEF last
  <2> QED BY <1>1, <1>2, <1>5
<1>7. Agrees(Closed(next), cs)
  <2>1. CandleOf(next.start, cs) = Flat(cs[Len(cs)].close, next.start)
    <3>1. next.start \in Int
      BY <1>2, <1>5
    <3> QED BY <1>1, <1>6, <3>1, NoneAfterLast
  <2>2. bar.close = cs[Len(cs)].close
    BY OutlineClose
  <2> QED BY <2>1, <2>2 DEF Agrees, Closed, Flat
<1> HIDE DEF n, more, low, last
<1>8. next.start = low + (n + 1) * Bucket
  <2>1. (n + 1) * Bucket = n * Bucket + Bucket /\ n * Bucket \in Int
    BY <1>2, <1>5
  <2> QED BY <1>1, <1>2, <1>5, <2>1
<1>9. ASSUME NEW i \in 1 .. n + 1
      PROVE  more[i].ts = low + (i - 1) * Bucket /\ Agrees(more[i], cs)
  <2>1. CASE i \in 1 .. n
    BY <1>1, <1>4, <2>1
  <2>2. CASE i = n + 1
    <3>1. i - 1 = n
      BY <1>2, <2>2
    <3> QED BY <1>1, <1>3, <1>4, <2>2, <3>1
  <2> QED BY <1>2, <2>1, <2>2
<1>10. last <= next.start
  BY <1>2, <1>5, <1>6, <1>1
<1> QED BY <1>1, <1>4, <1>7, <1>8, <1>9, <1>10 DEF Outline, low, last, more, d

\* Another input: the buckets before its own stay as they are.
LEMMA AgreesStill ==
    ASSUME NEW cs \in Seq(Candle), cs # <<>>, Sorted(cs), NEW c \in Candle,
           NEW d, d.ts \in Int, Floor(cs[1].ts) <= d.ts, d.ts < Floor(c.ts), Agrees(d, cs)
    PROVE  Agrees(d, Append(cs, c))
<1> DEFINE b == d.ts
<1>1. 1 \in DOMAIN cs
  BY EmptySeq, LenProperties
<1>2. StartOf(cs[1].ts) = Floor(cs[1].ts) /\ Floor(cs[1].ts) \in Int
  BY <1>1, InputTimes, TimeAssumption DEF Timestamps
<1>3. Inside(b, cs) # {} \/ Before(b, cs) # {}
  <2>1. CASE Floor(cs[1].ts) = b
    <3>1. 1 \in Inside(b, cs)
      BY <1>1, <1>2, <2>1 DEF Inside
    <3> QED BY <3>1
  <2>2. CASE Floor(cs[1].ts) < b
    <3>1. 1 \in Before(b, cs)
      BY <1>1, <1>2, <2>2 DEF Before
    <3> QED BY <3>1
  <2> QED BY <1>2, <2>1, <2>2
<1>4. CandleOf(b, Append(cs, c)) = CandleOf(b, cs)
  BY <1>3, CandleOfAppend
<1> QED BY <1>4 DEF Agrees

\* An input of the bar's bucket ...
LEMMA OutlineSame ==
    ASSUME NEW bar, NEW series, NEW cs, Outline(bar, series, cs),
           NEW c \in Candle, Uncut(c.ts), cs[Len(cs)].ts <= c.ts,
           Floor(c.ts) = bar.start, NEW next \in Bar, next.start = bar.start,
           next.close = c.close, next.volume = AddVolume(bar.volume, c.volume)
    PROVE  Outline(next, series, Append(cs, c))
<1> DEFINE more == Append(cs, c)
           n == Len(series)
           m == Len(cs)
<1>1. /\ cs \in Seq(Candle) /\ cs # <<>> /\ Sorted(cs)
      /\ \A i \in DOMAIN cs : Uncut(cs[i].ts)
      /\ series \in Seq(Candle)
      /\ bar.start = Floor(cs[1].ts) + n * Bucket
      /\ \A i \in 1 .. n : series[i].ts = Floor(cs[1].ts) + (i - 1) * Bucket
      /\ \A i \in 1 .. n : Agrees(series[i], cs)
      /\ bar.volume = CandleOf(bar.start, cs).volume
  BY DEF Outline, Agrees, Closed
<1>2. /\ m \in Nat /\ m >= 1 /\ DOMAIN cs = 1 .. m /\ bar.start \in Int
      /\ \A i \in 1 .. n : /\ series[i].ts \in Int /\ series[i].ts < bar.start
                           /\ Floor(cs[1].ts) <= series[i].ts
  BY OutlineTimes
<1>3. /\ more \in Seq(Candle) /\ Len(more) = m + 1 /\ DOMAIN more = 1 .. m + 1
      /\ \A i \in 1 .. m : more[i] = cs[i]
      /\ more[m + 1] = c
  BY <1>1, Appended
<1>4. Sorted(more)
  <2>1. \A i \in DOMAIN cs : cs[i].ts <= c.ts
    <3> SUFFICES ASSUME NEW i \in DOMAIN cs PROVE cs[i].ts <= c.ts
      OBVIOUS
    <3>1. i <= m /\ m \in DOMAIN cs
      BY <1>2
    <3>2. cs[i].ts \in Int /\ cs[m].ts \in Int /\ cs[i].ts <= cs[m].ts
      BY <1>1, <3>1, SortedTimes
    <3>3. c.ts \in Int
      BY TimeAssumption DEF Candle, Timestamps
    <3> QED BY <3>2, <3>3
  <2> QED BY <1>1, <2>1, SortedAppend
<1>5. Agrees(Closed(next), more)
  BY <1>1, <1>4, CandleGrows DEF Agrees, Closed
<1>6. ASSUME NEW i \in 1 .. n PROVE Agrees(series[i], more)
  BY <1>1, <1>2, AgreesStill
<1> HIDE DEF more, n, m
<1>7. /\ more[1] = cs[1] /\ more[Len(more)] = c /\ more # <<>>
      /\ \A i \in DOMAIN more : Uncut(more[i].ts)
  <2>1. 1 \in 1 .. m /\ \A i \in 1 .. m + 1 : i \in 1 .. m \/ i = m + 1
    BY <1>2
  <2>2. more # <<>>
    BY <1>2, <1>3, EmptySeq
  <2> QED BY <1>1, <1>2, <1>3, <2>1, <2>2
<1>8. Floor(more[Len(more)].ts) <= next.start
  BY <1>2, <1>7
<1> QED BY <1>1, <1>3, <1>4, <1>5, <1>6, <1>7, <1>8 DEF Outline, n, more

\* ... and one of the next.
LEMMA OutlineNext ==
    ASSUME NEW bar, NEW series, NEW cs, Outline(bar, series, cs),
           NEW c \in Candle, Uncut(c.ts), cs[Len(cs)].ts <= c.ts,
           Floor(c.ts) = bar.start + Bucket, NEW next \in Bar, next.start = Floor(c.ts),
           next.close = c.close, next.volume = c.volume
    PROVE  Outline(next, Append(series, Closed(bar)), Append(cs, c))
<1> DEFINE flat == [next EXCEPT !.close = bar.close, !.volume = 0]
           more == Append(series, Closed(bar))
<1>1. bar \in Bar
  BY DEF Outline
<1>2. /\ flat \in Bar /\ flat.start = bar.start + Bucket /\ flat.close = bar.close
      /\ flat.volume = 0
  <2>1. 0 \in Volumes
    BY CandleAssumption DEF Volumes
  <2> QED BY <1>1, <2>1 DEF Bar
<1> HIDE DEF flat
<1>3. Outline(flat, more, cs)
  BY <1>2, OutlineFlatNext
<1>4. next.volume = AddVolume(flat.volume, c.volume)
  BY <1>2, CandleAssumption DEF AddVolume, Lesser, Candle, Volumes
<1> HIDE DEF more
<1>5. Outline(next, more, Append(cs, c))
  BY <1>2, <1>3, <1>4, OutlineSame
<1> QED BY <1>5 DEF more

\* A bucket of the grid is that of an input or behind the first.
LEMMA GridIsAligned ==
    ASSUME FillGaps, NEW cs \in Seq(Candle), cs # <<>>, Sorted(cs),
           \A i \in DOMAIN cs : Uncut(cs[i].ts)
    PROVE  /\ Grid(cs) = {b \in Floor(cs[1].ts) .. Floor(cs[Len(cs)].ts) : b % Bucket = 0}
           /\ Floor(cs[1].ts) % Bucket = 0
           /\ Floor(cs[Len(cs)].ts) % Bucket = 0
<1> DEFINE n == Len(cs)
           low == Floor(cs[1].ts)
           top == Floor(cs[n].ts)
           U == Used(cs)
<1>0. Bucket \in Int /\ Bucket > 0
  BY TimeAssumption
<1>1. n \in Nat /\ n >= 1 /\ DOMAIN cs = 1 .. n
  BY LenProperties, EmptySeq
<1>2. ASSUME NEW i \in DOMAIN cs
      PROVE  /\ StartOf(cs[i].ts) = Floor(cs[i].ts) /\ Floor(cs[i].ts) \in Int
             /\ low <= Floor(cs[i].ts) /\ Floor(cs[i].ts) <= top
             /\ Floor(cs[i].ts) % Bucket = 0
  <2>1. 1 \in DOMAIN cs /\ n \in DOMAIN cs /\ 1 <= i /\ i <= n
    BY <1>1
  <2>2. low <= Floor(cs[i].ts) /\ Floor(cs[i].ts) <= top
    BY <2>1, SortedTimes
  <2>3. StartOf(cs[i].ts) = Floor(cs[i].ts) /\ Floor(cs[i].ts) \in Int /\ cs[i].ts \in Int
    BY InputTimes, TimeAssumption DEF Timestamps
  <2>4. Floor(cs[i].ts) % Bucket = 0
    <3> DEFINE t == cs[i].ts
               q == t \div Bucket
    <3>1. q \in Int /\ t % Bucket \in 0 .. Bucket - 1 /\ t = Bucket * q + (t % Bucket)
      BY <1>0, <2>3, Euclid
    <3>2. Floor(t) = t - (t % Bucket)
      BY <1>0, <2>3, <3>1, TimeAssumption DEF Floor, Greater, Uncut
    <3> HIDE DEF q, t
    <3>3. t - (t % Bucket) = Bucket * q
      BY <1>0, <3>1
    <3>4. (Bucket * q) % Bucket = 0
      BY <1>0, <3>1, DivideMultiple
    <3> QED BY <3>2, <3>3, <3>4 DEF t
  <2> QED BY <2>2, <2>3, <2>4
<1>3. /\ U \in SUBSET Int /\ low \in U /\ top \in U
      /\ \A u \in U : low <= u /\ u <= top /\ u % Bucket = 0
  <2>1. 1 \in DOMAIN cs /\ n \in DOMAIN cs
    BY <1>1
  <2>2. U = {Floor(cs[i].ts) : i \in DOMAIN cs}
    BY <1>2 DEF Used
  <2> QED BY <1>2, <2>1, <2>2
<1> HIDE DEF U, low, top
<1>4. Min(U) = low /\ Max(U) = top
  BY <1>3, MaxIs, MinIs
<1>5. low \in Int /\ top \in Int
  BY <1>3
<1>6. ASSUME NEW b \in low .. top
      PROVE  (b - Max({u \in U : u <= b})) % Bucket = 0 <=> b % Bucket = 0
  <2> DEFINE S == {u \in U : u <= b}
  <2>1. b \in Int /\ low <= b
    BY <1>5
  <2>2. S \in SUBSET Int /\ S # {} /\ \A u \in S : u <= b
    BY <1>3, <2>1
  <2> HIDE DEF S
  <2>3. Max(S) \in S
    BY <2>1, <2>2, MaxOf
  <2>4. Max(S) \in Int /\ Max(S) % Bucket = 0
    <3>1. Max(S) \in U
      BY <2>3 DEF S
    <3> QED BY <1>3, <3>1
  <2> DEFINE m == Max(S)
             q == m \div Bucket
             p == b \div Bucket
             r == (b - m) \div Bucket
  <2>5. m \in Int /\ q \in Int /\ m = Bucket * q
    <3>1. m \in Int /\ m % Bucket = 0
      BY <2>4
    <3> HIDE DEF m
    <3>2. q \in Int /\ m = Bucket * q + (m % Bucket)
      BY <1>0, <3>1, Euclid
    <3> HIDE DEF q
    <3> QED BY <1>0, <3>1, <3>2
  <2> HIDE DEF m, q
  <2>6. ASSUME b % Bucket = 0 PROVE (b - m) % Bucket = 0
    <3>1. p \in Int /\ b = Bucket * p + (b % Bucket)
      BY <1>0, <2>1, Euclid
    <3> HIDE DEF p
    <3>2. b - m = Bucket * (p - q) /\ p - q \in Int
      BY <1>0, <2>1, <2>5, <2>6, <3>1
    <3> QED BY <1>0, <3>2, DivideMultiple
  <2>7. ASSUME (b - m) % Bucket = 0 PROVE b % Bucket = 0
    <3>1. b - m \in Int
      BY <2>1, <2>5
    <3>2. r \in Int /\ b - m = Bucket * r + ((b - m) % Bucket)
      BY <1>0, <3>1, Euclid
    <3> HIDE DEF r
    <3>3. b = Bucket * (r + q) /\ r + q \in Int
      BY <1>0, <2>1, <2>5, <2>7, <3>2
    <3> QED BY <1>0, <3>3, DivideMultiple
  <2> QED BY <2>6, <2>7 DEF m, S
<1>7. Grid(cs) = {b \in low .. top : (b - Max({u \in U : u <= b})) % Bucket = 0}
  BY <1>4 DEF Grid, U
<1>8. Grid(cs) = {b \in low .. top : b % Bucket = 0}
  BY <1>6, <1>7
<1> QED BY <1>3, <1>8 DEF low, top

\* When the last input is in the bar, the bar and those before it have the times, the
\* closes and the volumes of the batch.
LEMMA OutlineIsThatOfBatch ==
    ASSUME FillGaps, NEW bar, NEW series, NEW cs, Outline(bar, series, cs),
           bar.start = Floor(cs[Len(cs)].ts)
    PROVE  LET all == Append(series, Closed(bar))
           IN  /\ Len(all) = Len(Batch(cs))
               /\ \A i \in DOMAIN all :
                     /\ all[i].ts = Batch(cs)[i].ts
                     /\ all[i].close = Batch(cs)[i].close
                     /\ all[i].volume = Batch(cs)[i].volume
<1> DEFINE n == Len(series)
           all == Append(series, Closed(bar))
           low == Floor(cs[1].ts)
           t == [i \in 1 .. n + 1 |-> low + (i - 1) * Bucket]
<1>0. Bucket \in Int /\ Bucket > 0
  BY TimeAssumption
<1>1. /\ cs \in Seq(Candle) /\ cs # <<>> /\ Sorted(cs)
      /\ \A i \in DOMAIN cs : Uncut(cs[i].ts)
      /\ bar \in Bar /\ series \in Seq(Candle)
      /\ bar.start = low + n * Bucket
      /\ \A i \in 1 .. n : series[i].ts = low + (i - 1) * Bucket
      /\ \A i \in 1 .. n : Agrees(series[i], cs)
      /\ Agrees(Closed(bar), cs)
  BY DEF Outline
<1>2. n \in Nat /\ low \in Int /\ bar.start \in Int
  BY OutlineTimes
<1>3. Closed(bar) \in Candle /\ Closed(bar).ts = bar.start
  BY <1>1, ClosedType DEF Closed
<1>4. /\ all \in Seq(Candle) /\ Len(all) = n + 1 /\ DOMAIN all = 1 .. n + 1
      /\ \A i \in 1 .. n : all[i] = series[i]
      /\ all[n + 1] = Closed(bar)
  BY <1>1, <1>3, Appended
<1> HIDE DEF all, n
<1>5. ASSUME NEW i \in 1 .. n + 1
      PROVE  all[i].ts = t[i] /\ Agrees(all[i], cs)
  <2>1. CASE i \in 1 .. n
    BY <1>1, <1>4, <2>1
  <2>2. CASE i = n + 1
    <3>1. i - 1 = n
      BY <1>2, <2>2
    <3> QED BY <1>1, <1>3, <1>4, <2>2, <3>1
  <2> QED BY <1>2, <2>1, <2>2
<1>6. Grid(cs) = {b \in low .. bar.start : b % Bucket = 0} /\ low % Bucket = 0
  BY <1>1, GridIsAligned
<1> HIDE DEF low
<1>7. ASSUME NEW i \in Int, NEW j \in Int, i < j
      PROVE  low + i * Bucket \in Int /\ low + i * Bucket < low + j * Bucket
  <2> DEFINE x == Bucket * i
             y == Bucket * j
  <2>1. x \in Int /\ y \in Int /\ x + Bucket <= y
    BY <1>0, <1>7, Multiples
  <2>2. i * Bucket = x /\ j * Bucket = y
    BY <1>0
  <2> HIDE DEF x, y
  <2> QED BY <1>0, <1>2, <2>1, <2>2
<1>8. \A i \in 1 .. n + 1 : t[i] \in Int
  <2> SUFFICES ASSUME NEW i \in 1 .. n + 1 PROVE low + (i - 1) * Bucket \in Int
    OBVIOUS
  <2>1. i - 1 \in Int /\ i \in Int /\ i - 1 < i
    BY <1>2
  <2> QED BY <1>7, <2>1
<1>9. \A i, j \in 1 .. n + 1 : i < j => t[i] < t[j]
  <2> SUFFICES ASSUME NEW i \in 1 .. n + 1, NEW j \in 1 .. n + 1, i < j
               PROVE  low + (i - 1) * Bucket < low + (j - 1) * Bucket
    OBVIOUS
  <2>1. i - 1 \in Int /\ j - 1 \in Int /\ i - 1 < j - 1
    BY <1>2
  <2> QED BY <1>7, <2>1
<1>10. {t[i] : i \in 1 .. n + 1} = Grid(cs)
  <2>1. low = Bucket * (low \div Bucket) /\ low \div Bucket \in Int
    <3>1. low \div Bucket \in Int /\ low = Bucket * (low \div Bucket) + (low % Bucket)
      BY <1>0, <1>2, Euclid
    <3> DEFINE q == low \div Bucket
    <3> HIDE DEF q
    <3>2. q \in Int /\ low = Bucket * q
      BY <1>0, <1>2, <1>6, <3>1 DEF q
    <3> QED BY <3>2 DEF q
  <2> DEFINE q == low \div Bucket
  <2>2. low = Bucket * q /\ q \in Int
    BY <2>1
  <2> HIDE DEF q
  <2>3. ASSUME NEW i \in 1 .. n + 1 PROVE t[i] \in Grid(cs)
    <3>1. i - 1 \in Int /\ 0 <= i - 1 /\ i - 1 <= n
      BY <1>2
    <3> DEFINE k == i - 1
    <3>2. k \in Int /\ 0 <= k /\ k <= n
      BY <3>1
    <3>3. t[i] = low + k * Bucket
      OBVIOUS
    <3> HIDE DEF k, t
    <3>4. low <= low + k * Bucket
      <4>1. CASE k = 0
        BY <1>0, <1>2, <4>1
      <4>2. CASE 0 < k
        <5>1. low + 0 * Bucket < low + k * Bucket
          BY <1>7, <3>2, <4>2
        <5>2. low + 0 * Bucket = low /\ k * Bucket \in Int
          BY <1>0, <1>2, <3>2
        <5> QED BY <1>2, <5>1, <5>2
      <4> QED BY <3>2, <4>1, <4>2
    <3>5. low + k * Bucket <= bar.start
      <4>1. CASE k = n
        BY <1>1, <1>2, <4>1
      <4>2. CASE k < n
        <5>0. k \in Int /\ n \in Int /\ k < n
          BY <1>2, <3>2, <4>2
        <5>1. low + k * Bucket < low + n * Bucket /\ low + k * Bucket \in Int
          BY <1>7, <5>0
        <5> QED BY <1>1, <1>2, <5>1
      <4> QED BY <1>2, <3>2, <4>1, <4>2
    <3>6. low + k * Bucket = Bucket * (q + k) /\ q + k \in Int
      BY <1>0, <2>2, <3>2
    <3>7. (Bucket * (q + k)) % Bucket = 0 /\ Bucket * (q + k) \in Int
      BY <1>0, <3>6, DivideMultiple
    <3> DEFINE x == low + k * Bucket
    <3>8. x \in Int /\ low <= x /\ x <= bar.start /\ x % Bucket = 0
      BY <3>4, <3>5, <3>6, <3>7
    <3> HIDE DEF x
    <3>9. x \in Grid(cs)
      BY <1>2, <1>6, <3>8
    <3> QED BY <3>3, <3>9 DEF x
  <2>4. ASSUME NEW b \in Grid(cs) PROVE \E i \in 1 .. n + 1 : b = t[i]
    <3>1. b \in Int /\ low <= b /\ b <= bar.start /\ b % Bucket = 0
      BY <1>2, <1>6
    <3> DEFINE p == b \div Bucket
    <3>2. p \in Int /\ b = Bucket * p + (b % Bucket)
      BY <1>0, <3>1, Euclid
    <3> HIDE DEF p
    <3>3. b = Bucket * p
      BY <1>0, <3>1, <3>2
    <3>4. q <= p
      <4> SUFFICES ASSUME p < q PROVE FALSE
        BY <2>2, <3>2
      <4>1. Bucket * p + Bucket <= Bucket * q
        BY <1>0, <2>2, <3>2, Multiples
      <4> QED BY <1>0, <1>2, <2>2, <3>1, <3>3, <4>1
    <3>5. p <= q + n
      <4> SUFFICES ASSUME q + n < p PROVE FALSE
        BY <1>2, <2>2, <3>2
      <4>1. q + n \in Int
        BY <1>2, <2>2
      <4>2. Bucket * (q + n) + Bucket <= Bucket * p
        BY <1>0, <3>2, <4>1, Multiples
      <4>3. Bucket * (q + n) = low + n * Bucket
        BY <1>0, <1>2, <2>2
      <4> QED BY <1>0, <1>1, <1>2, <3>1, <3>3, <4>2, <4>3
    <3> DEFINE i == (p - q) + 1
    <3>6. i \in 1 .. n + 1 /\ i - 1 = p - q
      BY <1>2, <2>2, <3>2, <3>4, <3>5
    <3>7. low + (p - q) * Bucket = b
      BY <1>0, <2>2, <3>2, <3>3
    <3> HIDE DEF i
    <3> QED BY <3>6, <3>7
  <2> QED BY <2>3, <2>4
<1>11. Ascending(Grid(cs)) = t
  <2>1. t = [i \in 1 .. n + 1 |-> t[i]] /\ n + 1 \in Nat
    BY <1>2
  <2> HIDE DEF t
  <2> QED BY <1>8, <1>9, <1>10, <2>1, AscendingIs
<1>12. Batch(cs) = [i \in 1 .. n + 1 |-> CandleOf(t[i], cs)]
  <2>1. DOMAIN t = 1 .. n + 1
    OBVIOUS
  <2> HIDE DEF t
  <2> QED BY <1>11, <2>1 DEF Batch
<1>13. Len(Batch(cs)) = n + 1
  <2>1. n + 1 \in Nat
    BY <1>2
  <2> HIDE DEF t
  <2> QED BY <1>12, <2>1
<1>14. ASSUME NEW i \in 1 .. n + 1
       PROVE  CandleOf(t[i], cs).ts = t[i]
  BY DEF CandleOf, Reduce, Flat
<1> HIDE DEF t
<1>15. ASSUME NEW i \in DOMAIN all
       PROVE  /\ all[i].ts = Batch(cs)[i].ts
              /\ all[i].close = Batch(cs)[i].close
              /\ all[i].volume = Batch(cs)[i].volume
  BY <1>4, <1>5, <1>12, <1>14 DEF Agrees
<1> QED BY <1>4, <1>13, <1>15 DEF all

\* When the bar was last added to is not looked at.
LEMMA SoFarForgets ==
    ASSUME NEW bar, NEW series, NEW cs, SoFar(bar, series, cs), NEW next \in Bar,
           next = [bar EXCEPT !.last = next.last]
    PROVE  SoFar(next, series, cs)
<1>1. bar \in Bar
  BY DEF SoFar, BarOf
<1>2. /\ next.start = bar.start /\ next.open = bar.open /\ next.high = bar.high
      /\ next.low = bar.low /\ next.close = bar.close /\ next.volume = bar.volume
  BY <1>1 DEF Bar
<1>3. Closed(next) = Closed(bar)
  BY <1>2 DEF Closed
<1>4. BarOf(next, cs)
  BY <1>2 DEF SoFar, BarOf
<1> QED BY <1>3, <1>4 DEF SoFar

=============================================================================
