-------------------------- MODULE Indicators_proofs --------------------------
(***************************************************************************)
(* Proofs about single indicators.                                         *)
(*                                                                         *)
(* The simple moving average, for every window length, every reseed        *)
(* interval and every set of inputs.  That the batch is the replay and     *)
(* keeps the window holds for every arithmetic: nothing is used of Add,    *)
(* Sub and Div but that equal operands give equal results.  The bound of   *)
(* the drift is about rounding, for every precision and range.             *)
(*                                                                         *)
(* The trailing stops: their side and their ratchet.                       *)
(*                                                                         *)
(* The bar builders: what the bars of each cover, and that a gap is walked *)
(* like its parts.                                                         *)
(***************************************************************************)
EXTENDS Sma, BarBuilder, CandleIndicator, SequenceTheorems, FiniteSetTheorems,
        WellFoundedInduction, TLAPS

-----------------------------------------------------------------------------
(* Arithmetic of laps. *)

\* A whole number of laps short of the reseed leaves room for another lap.
LEMMA LapFits ==
    ASSUME NEW k \in Nat, NEW r \in Nat, NEW p \in Nat, k < r
    PROVE  k * p + p <= r * p
<1>1. r - k - 1 \in Nat OBVIOUS
<1>2. (r - k - 1) * p \in Nat BY <1>1, SMT
<1>3. (r - k - 1) * p = r * p - k * p - p BY SMT
<1>4. k * p \in Int /\ r * p \in Int BY SMT
<1> QED
  BY <1>2, <1>3, <1>4, SMT

\* After one more lap the sum is reseeded, or a whole number of laps has passed.
LEMMA LapCounts ==
    ASSUME NEW k \in Nat, NEW r \in Nat, NEW p \in Nat \ {0},
           k < r, k * p + p < r * p
    PROVE  k + 1 < r /\ (k + 1) * p = k * p + p
<1>1. (k + 1) * p = k * p + p BY SMT
<1>2. k + 1 # r BY <1>1
<1> QED
  BY <1>1, <1>2

-----------------------------------------------------------------------------
(* The fields of an indicator. *)

\* The record with these fields and the window length of this module.
Fields(buf, head, count, sum, since) ==
    [period |-> Period, buf |-> buf, head |-> head, count |-> count,
     sum |-> sum, since |-> since]

\* An indicator between two calls: while the window fills, the cursor is the
\* number of inputs in it, and the reseed is never overdue.
Shape(s) ==
    /\ s = Fields(s.buf, s.head, s.count, s.sum, s.since)
    /\ s.buf \in [0 .. Period - 1 -> Values \cup {0}]
    /\ s.head \in 0 .. Period - 1
    /\ s.count \in 0 .. Period
    /\ s.count < Period => s.head = s.count
    /\ s.since \in Nat
    /\ s.since < RecomputeEvery * Period

Cap == RecomputeEvery * Period

LEMMA CapIsPositive == Cap \in Nat /\ Period <= Cap
<1> USE SmaAssumption, InputAssumption
<1>1. (RecomputeEvery - 1) * Period \in Nat BY SMT
<1>2. (RecomputeEvery - 1) * Period = Cap - Period BY SMT DEF Cap
<1>3. Cap \in Int BY SMT DEF Cap
<1> QED
  BY <1>1, <1>2, <1>3, SMT

LEMMA NewShape == Shape(NewSma(Period))
<1>1. 0 < Cap BY CapIsPositive, InputAssumption
<1> QED
  BY <1>1, InputAssumption DEF Shape, Fields, NewSma, Cap

\* An input enters at the cursor.
LEMMA EnterFields ==
    ASSUME NEW s, Shape(s), NEW x
    PROVE  Enter(s, x) =
             Fields([s.buf EXCEPT ![s.head] = x],
                    IF s.head + 1 = Period THEN 0 ELSE s.head + 1,
                    IF s.count = Period THEN Period ELSE s.count + 1,
                    Add(IF s.count = Period THEN Sub(s.sum, s.buf[s.head])
                        ELSE s.sum, x),
                    s.since + 1)
<1>1. s.period = Period BY DEF Shape, Fields
<1>2. s = Fields(s.buf, s.head, s.count, s.sum, s.since) BY DEF Shape
<1> QED
  BY <1>1, <1>2 DEF Enter, Fields, Full, Wrap

\* A record is known by its fields.
LEMMA KnownByFields ==
    ASSUME NEW buf, NEW head, NEW count, NEW sum, NEW since,
           NEW t \in [period : {Period}, buf : {buf}, head : {head},
                      count : {count}, sum : {sum}, since : {since}]
    PROVE  t = Fields(buf, head, count, sum, since)
  BY DEF Fields

\* The reseed changes the sum and restarts the counter, if it is due.
LEMMA ReseedFields ==
    ASSUME NEW buf, NEW head, NEW count, NEW sum, NEW since, NEW first
    PROVE  LET s == Fields(buf, head, count, sum, since)
           IN  Reseed(s, first) =
                 IF since < Cap THEN s
                 ELSE Fields(buf, head, count, Total(Ring(s, first)), 0)
<1> DEFINE s == Fields(buf, head, count, sum, since)
<1>1. s.period = Period /\ s.since = since BY DEF Fields
<1>2. ASSUME NEW total
      PROVE  [s EXCEPT !.sum = total, !.since = 0]
               = Fields(buf, head, count, total, 0)
  <2>1. [s EXCEPT !.sum = total, !.since = 0]
          \in [period : {Period}, buf : {buf}, head : {head},
              count : {count}, sum : {total}, since : {0}]
    BY DEF Fields
  <2> HIDE DEF s
  <2> QED
    BY <2>1, KnownByFields
<1> QED
  BY <1>1, <1>2 DEF Reseed, Cap

\* update keeps the shape.
LEMMA UpdatedShape ==
    ASSUME NEW s, Shape(s), NEW x, IsFinite(x) => x \in Values
    PROVE  Shape(Updated(s, x))
<1>1. CASE ~IsFinite(x)
  BY <1>1 DEF Updated
<1>2. CASE IsFinite(x)
  <2> DEFINE buf == [s.buf EXCEPT ![s.head] = x]
             head == IF s.head + 1 = Period THEN 0 ELSE s.head + 1
             count == IF s.count = Period THEN Period ELSE s.count + 1
             sum == Add(IF s.count = Period THEN Sub(s.sum, s.buf[s.head])
                        ELSE s.sum, x)
             e == Fields(buf, head, count, sum, s.since + 1)
  <2>1. Enter(s, x) = e BY EnterFields
  <2>2. e.head = head BY DEF Fields
  <2>3. Updated(s, x) = IF s.since + 1 < Cap THEN e
                        ELSE Fields(buf, head, count, Total(Ring(e, head)), 0)
    BY <1>2, <2>1, <2>2, ReseedFields DEF Updated
  <2>4. /\ buf \in [0 .. Period - 1 -> Values \cup {0}]
        /\ head \in 0 .. Period - 1
        /\ count \in 0 .. Period
        /\ count < Period => head = count
        /\ s.since + 1 \in Nat
        /\ 0 < Cap
    BY <1>2, InputAssumption, CapIsPositive DEF Shape
  <2> HIDE DEF buf, head, count, sum
  <2>5. ASSUME NEW total, NEW since \in Nat, since < Cap
        PROVE  Shape(Fields(buf, head, count, total, since))
    BY <2>4, <2>5 DEF Shape, Fields, Cap
  <2> QED
    BY <2>3, <2>4, <2>5
<1> QED
  BY <1>1, <1>2

LEMMA ClearFields ==
    ASSUME NEW buf, NEW head, NEW count, NEW sum, NEW since, NEW s,
           s = Fields(buf, head, count, sum, since)
    PROVE  Clear(s) = Fields(buf, 0, 0, 0, 0)
<1>1. [s EXCEPT !.head = 0, !.count = 0] = Fields(buf, 0, 0, sum, since)
  <2>1. [s EXCEPT !.head = 0, !.count = 0]
          \in [period : {Period}, buf : {buf}, head : {0},
              count : {0}, sum : {sum}, since : {since}]
    BY DEF Fields
  <2> QED
    BY <2>1, KnownByFields
<1>2. ASSUME NEW t, t = Fields(buf, 0, 0, sum, since)
      PROVE  [t EXCEPT !.sum = 0, !.since = 0] = Fields(buf, 0, 0, 0, 0)
  <2>1. [t EXCEPT !.sum = 0, !.since = 0]
          \in [period : {Period}, buf : {buf}, head : {0},
              count : {0}, sum : {0}, since : {0}]
    BY <1>2 DEF Fields
  <2> QED
    BY <2>1, KnownByFields
<1> QED
  BY <1>1, <1>2 DEF Clear

\* reset keeps the shape.
LEMMA ClearShape == ASSUME NEW s, Shape(s) PROVE Shape(Clear(s))
<1>1. Clear(s) = Fields(s.buf, 0, 0, 0, 0) BY ClearFields DEF Shape
<1>2. 0 < Cap BY CapIsPositive, InputAssumption
<1> QED
  BY <1>1, <1>2, InputAssumption DEF Shape, Fields, Cap

-----------------------------------------------------------------------------
(* The invariant of the batch. *)

\* Within the batch's loop the cursor has not moved and the counter stands where
\* the lap began; the replay is ahead of it by the inputs of this lap, and by
\* the reseed when the lap is complete.
InLap ==
    /\ sma = Fields(sma.buf, 0, sma.count, sma.sum, sma.since)
    /\ sma.buf \in [0 .. Period - 1 -> Values \cup {0}]
    /\ pos \in 0 .. Period
    /\ sma.count = IF lap = "first" THEN pos ELSE Period
    /\ lap = "first" => sma.since = 0
    /\ \E k \in 0 .. RecomputeEvery - 1 : sma.since = k * Period
    /\ pos < Period =>
           /\ replay = Fields(sma.buf, pos, sma.count, sma.sum, sma.since + pos)
           /\ out = replayOut
    /\ pos = Period =>
           /\ replay = Reseed(Fields(sma.buf, 0, sma.count, sma.sum,
                                     sma.since + Period), 0)
           /\ out = Value(sma)
           /\ replayOut = Value(replay)

BetweenCalls ==
    /\ Shape(sma)
    /\ replay = sma
    /\ out = replayOut

IInv ==
    /\ mode \in {"streaming", "batch"}
    /\ mode = "streaming" => BetweenCalls
    /\ mode = "batch" => InLap

\* Room for the inputs of the current lap.
LEMMA LapRoom ==
    ASSUME InLap
    PROVE  /\ sma.since \in Nat
           /\ sma.since + Period <= Cap
<1>1. PICK k \in 0 .. RecomputeEvery - 1 : sma.since = k * Period BY DEF InLap
<1>2. k \in Nat /\ k < RecomputeEvery BY SmaAssumption
<1>3. k * Period + Period <= RecomputeEvery * Period
  BY <1>2, LapFits, SmaAssumption, InputAssumption
<1>4. k * Period \in Nat BY <1>2, InputAssumption, SMT
<1> QED
  BY <1>1, <1>3, <1>4 DEF Cap

\* The replay is a well-formed indicator while the lap is incomplete.
LEMMA ReplayShape == ASSUME InLap, pos < Period PROVE Shape(replay)
<1>1. replay = Fields(sma.buf, pos, sma.count, sma.sum, sma.since + pos) BY DEF InLap
<1>2. /\ sma.count \in 0 .. Period
      /\ sma.count < Period => pos = sma.count
      /\ pos \in 0 .. Period - 1
  BY InputAssumption DEF InLap
<1>3. sma.since + pos \in Nat /\ sma.since + pos < Cap
  BY <1>2, LapRoom, CapIsPositive, InputAssumption
<1>4. sma.buf \in [0 .. Period - 1 -> Values \cup {0}] BY DEF InLap
<1> QED
  BY <1>1, <1>2, <1>3, <1>4 DEF Shape, Fields, Cap

\* What a call of update computes, whoever calls it.
LEMMA UpdatedFields ==
    ASSUME NEW s, Shape(s), NEW x \in Values
    PROVE  LET head == IF s.head + 1 = Period THEN 0 ELSE s.head + 1
           IN  Updated(s, x) =
                 Reseed(Fields([s.buf EXCEPT ![s.head] = x], head,
                          IF s.count = Period THEN Period ELSE s.count + 1,
                          Add(IF s.count = Period
                              THEN Sub(s.sum, s.buf[s.head]) ELSE s.sum, x),
                          s.since + 1), head)
<1>1. IsFinite(x) BY InputAssumption
<1> QED
  BY <1>1, EnterFields DEF Updated, Fields

LEMMA InvInit == Init => IInv
  BY NewShape DEF Init, IInv, BetweenCalls

LEMMA StreamingStep ==
    ASSUME IInv,
           (\E x \in Values \cup {PosInf, NaN} : Update(x)) \/ Reset
    PROVE  IInv'
<1>1. ASSUME NEW x \in Values \cup {PosInf, NaN}, Update(x)
      PROVE  IInv'
  <2>1. IsFinite(x) => x \in Values BY FloatAssumption DEF IsFinite, Abs, PosInf, NaN
  <2>2. BetweenCalls BY <1>1 DEF Update, IInv
  <2>3. Shape(sma') /\ replay' = sma' /\ out' = replayOut'
    BY <1>1, <2>1, <2>2, UpdatedShape DEF Update, Replay, BetweenCalls
  <2> QED
    BY <1>1, <2>3 DEF Update, IInv, BetweenCalls, batchVars
<1>2. ASSUME Reset PROVE IInv' BY <1>2, ClearShape DEF Reset, IInv, BetweenCalls, batchVars
<1> QED
  BY <1>1, <1>2

LEMMA StartStep == ASSUME IInv, BatchStart PROVE IInv'
<1>1. BetweenCalls /\ sma.count = 0 /\ sma.since = 0 BY DEF BatchStart, Fresh, IInv
<1>2. sma.head = 0 BY <1>1, InputAssumption DEF BetweenCalls, Shape
<1>3. 0 = 0 * Period /\ 0 \in 0 .. RecomputeEvery - 1 BY SmaAssumption, InputAssumption
<1>4. InLap'
  BY <1>1, <1>2, <1>3, InputAssumption
     DEF BatchStart, BetweenCalls, Shape, InLap
<1> QED
  BY <1>4 DEF BatchStart, IInv

\* The state after one input of a lap.
LEMMA InputFields ==
    ASSUME InLap, NEW x \in Values, BatchInput(x)
    PROVE  sma' = Fields([sma.buf EXCEPT ![pos] = x], 0,
                         IF lap = "first" THEN pos + 1 ELSE Period,
                         Add(IF lap = "first" THEN sma.sum
                             ELSE Sub(sma.sum, sma.buf[pos]), x),
                         sma.since)
<1> DEFINE buf == [sma.buf EXCEPT ![pos] = x]
           count == IF lap = "first" THEN sma.count + 1 ELSE sma.count
           kept == IF lap = "first" THEN sma.sum ELSE Sub(sma.sum, sma.buf[pos])
<1>1. sma.head = 0 BY DEF InLap, Fields
<1>2. count = IF lap = "first" THEN pos + 1 ELSE Period BY DEF InLap
<1>3. sma' = Fields(buf, sma.head, count, Add(kept, x), sma.since) BY DEF BatchInput, Fields
<1> HIDE DEF buf, count
<1>4. sma' = Fields(buf, 0, IF lap = "first" THEN pos + 1 ELSE Period,
                    Add(kept, x), sma.since)
  BY <1>1, <1>2, <1>3
<1> QED
  BY <1>4 DEF buf

\* The value depends on the sum and the count alone.
LEMMA ValueOfFields ==
    ASSUME NEW buf, NEW head, NEW count, NEW sum, NEW since
    PROVE  Value(Fields(buf, head, count, sum, since)) =
               IF count = Period THEN Some(Div(sum, Period)) ELSE None
  BY DEF Value, Full, Fields

LEMMA InputStep ==
    ASSUME IInv, NEW x \in Values, BatchInput(x)
    PROVE  IInv'
<1> DEFINE buf == [sma.buf EXCEPT ![pos] = x]
           count == IF lap = "first" THEN pos + 1 ELSE Period
           sum == Add(IF lap = "first" THEN sma.sum
                      ELSE Sub(sma.sum, sma.buf[pos]), x)
           head == IF pos + 1 = Period THEN 0 ELSE pos + 1
           ahead == Fields(buf, head, count, sum, sma.since + pos + 1)
<1>1. InLap /\ mode = "batch" /\ pos < Period BY DEF BatchInput, IInv
<1>2. /\ pos \in 0 .. Period - 1
      /\ sma.buf \in [0 .. Period - 1 -> Values \cup {0}]
      /\ sma.count = IF lap = "first" THEN pos ELSE Period
  BY <1>1, InputAssumption DEF InLap
<1>3. sma' = Fields(buf, 0, count, sum, sma.since) BY <1>1, InputFields
<1>4. /\ replay.buf = sma.buf /\ replay.head = pos
      /\ replay.count = sma.count /\ replay.sum = sma.sum
      /\ replay.since = sma.since + pos
  BY <1>1 DEF InLap, Fields
<1>5. Updated(replay, x) = Reseed(ahead, head)
  <2>1. replay.count = Period <=> lap # "first" BY <1>2, <1>4, InputAssumption
  <2>2. (IF replay.count = Period THEN Period ELSE replay.count + 1) = count
    BY <1>2, <1>4, <2>1
  <2> QED
    BY <1>1, <1>4, <2>1, <2>2, ReplayShape, UpdatedFields
<1>6. replay' = Reseed(ahead, head) /\ replayOut' = Value(replay')
  BY <1>5, InputAssumption DEF BatchInput, Replay, Answer
<1>7. out' = Value(sma') /\ pos' = pos + 1 /\ mode' = mode /\ lap' = lap BY DEF BatchInput
<1>8. /\ sma'.buf = buf /\ sma'.count = count /\ sma'.sum = sum
      /\ sma'.since = sma.since
  BY <1>3 DEF Fields
<1>9. buf \in [0 .. Period - 1 -> Values \cup {0}] BY <1>2
<1>10. sma.since \in Nat /\ sma.since + Period <= Cap /\ Cap \in Nat
  BY <1>1, LapRoom, CapIsPositive
<1> HIDE DEF buf, count, sum, head, ahead
<1>11. /\ pos' \in 0 .. Period
       /\ sma'.count = IF lap' = "first" THEN pos' ELSE Period
  BY <1>2, <1>7, <1>8, InputAssumption DEF count
<1>12. CASE pos + 1 < Period
  <2>1. head = pos + 1 /\ sma.since + pos + 1 < Cap
    BY <1>2, <1>10, <1>12, InputAssumption DEF head
  <2>2. replay' = ahead BY <1>6, <2>1, ReseedFields DEF ahead
  <2>3. replayOut' = out' BY <1>3, <1>6, <1>7, <2>2, ValueOfFields DEF ahead
  <2>4. replay' = Fields(buf, pos', count, sum, sma.since + pos')
    <3>1. head = pos' /\ sma.since + pos + 1 = sma.since + pos' BY <1>2, <1>7, <1>10, <2>1
    <3> QED
      BY <2>2, <3>1 DEF ahead
  <2>5. pos' # Period BY <1>2, <1>7, <1>12, InputAssumption
  <2>6. InLap' BY <1>1, <1>3, <1>7, <1>8, <1>9, <1>11, <2>3, <2>4, <2>5 DEF InLap
  <2> QED
    BY <1>1, <1>7, <2>6 DEF IInv
<1>13. CASE pos + 1 = Period
  <2>1. head = 0 /\ sma.since + pos + 1 = sma.since + Period
    BY <1>2, <1>10, <1>13, InputAssumption DEF head
  <2>2. replay' = Reseed(Fields(buf, 0, count, sum, sma.since + Period), 0)
    BY <1>6, <2>1 DEF ahead
  <2>3. ~(pos' < Period) BY <1>7, <1>13, InputAssumption
  <2>4. InLap' BY <1>1, <1>3, <1>6, <1>7, <1>8, <1>9, <1>11, <2>2, <2>3 DEF InLap
  <2> QED
    BY <1>1, <1>7, <2>4 DEF IInv
<1> QED
  BY <1>2, <1>12, <1>13, InputAssumption

\* The state after a lap, before the cursor is set.
LEMMA LapDoneFields ==
    ASSUME InLap
    PROVE  LapDone(sma) = Reseed(Fields(sma.buf, 0, sma.count, sma.sum,
                                        sma.since + pos), 0)
<1>1. sma = Fields(sma.buf, 0, sma.count, sma.sum, sma.since) BY DEF InLap
<1>2. ASSUME NEW buf, NEW count, NEW sum, NEW since, NEW s, NEW after,
             s = Fields(buf, 0, count, sum, since)
      PROVE  [s EXCEPT !.since = after] = Fields(buf, 0, count, sum, after)
  BY <1>2 DEF Fields
<1>3. [sma EXCEPT !.since = sma.since + pos]
        = Fields(sma.buf, 0, sma.count, sma.sum, sma.since + pos)
  BY <1>1, <1>2
<1> QED
  BY <1>3 DEF LapDone

\* At the end of a whole lap the batch has caught up with the replay.
LEMMA LapOverStep == ASSUME IInv, LapOver PROVE IInv'
<1>1. InLap /\ mode = "batch" /\ pos = Period BY DEF LapOver, IInv
<1> DEFINE e == Fields(sma.buf, 0, Period, sma.sum, sma.since + Period)
<1>2. /\ sma.since \in Nat /\ sma.since + Period <= Cap /\ Cap \in Nat
      /\ sma.count = Period
      /\ sma.buf \in [0 .. Period - 1 -> Values \cup {0}]
  BY <1>1, LapRoom, CapIsPositive DEF InLap
<1>3. sma' = Reseed(e, 0) /\ replay = Reseed(e, 0)
  BY <1>1, <1>2, LapDoneFields DEF LapOver, InLap
<1>4. /\ out = Value(sma) /\ replayOut = Value(replay)
      /\ replay' = replay /\ replayOut' = replayOut
      /\ pos' = 0 /\ lap' = "later" /\ mode' = mode
      /\ out' = IF sma'.since = 0 THEN Value(sma') ELSE out
  BY <1>1 DEF LapOver, InLap
<1>5. Value(sma) = Some(Div(sma.sum, Period)) BY <1>1, <1>2, ValueOfFields DEF InLap
<1>6. CASE sma.since + Period < Cap
  <2>1. sma' = e BY <1>3, <1>6, ReseedFields
  <2>2. out' = replayOut' BY <1>3, <1>4, <1>5, <2>1, ValueOfFields
  <2>3. \E k \in 0 .. RecomputeEvery - 1 : sma'.since = k * Period
    <3>1. PICK k \in 0 .. RecomputeEvery - 1 : sma.since = k * Period BY <1>1 DEF InLap
    <3>2. k + 1 < RecomputeEvery /\ (k + 1) * Period = k * Period + Period
      BY <1>6, <3>1, LapCounts, SmaAssumption, InputAssumption DEF Cap
    <3> QED
      BY <2>1, <3>1, <3>2, SmaAssumption DEF Fields
  <2>4. replay' = Fields(sma.buf, 0, Period, sma.sum, sma'.since + 0)
    BY <1>2, <1>3, <1>4, <2>1, InputAssumption DEF Fields
  <2>5. /\ sma'.buf = sma.buf /\ sma'.count = Period /\ sma'.sum = sma.sum
        /\ sma' = Fields(sma'.buf, 0, sma'.count, sma'.sum, sma'.since)
    BY <2>1 DEF Fields
  <2>6. Period \in Nat \ {0} /\ 0 < Period /\ pos' = 0 /\ pos' \in 0 .. Period /\ lap' = "later"
    BY <1>4, InputAssumption
  <2>7. pos' < Period => /\ replay' = Fields(sma'.buf, pos', sma'.count, sma'.sum,
                                            sma'.since + pos')
                         /\ out' = replayOut'
    BY <2>2, <2>4, <2>5, <2>6
  <2>8. InLap' BY <1>2, <2>3, <2>5, <2>6, <2>7 DEF InLap
  <2> QED
    BY <1>1, <1>4, <2>8 DEF IInv
<1>7. CASE ~(sma.since + Period < Cap)
  <2> DEFINE total == Total(Ring(e, 0))
  <2>1. sma' = Fields(sma.buf, 0, Period, total, 0) BY <1>3, <1>7, ReseedFields
  <2> HIDE DEF total
  <2>2. out' = replayOut' BY <1>3, <1>4, <2>1 DEF Fields
  <2>3. sma'.since = 0 /\ 0 = 0 * Period /\ 0 \in 0 .. RecomputeEvery - 1
    BY <2>1, SmaAssumption, InputAssumption DEF Fields
  <2>4. replay' = sma' BY <1>3, <1>4
  <2>5. InLap' BY <1>2, <1>4, <2>1, <2>2, <2>3, <2>4, InputAssumption DEF InLap, Fields
  <2> QED
    BY <1>1, <1>4, <2>5 DEF IInv
<1> QED
  BY <1>6, <1>7

\* The end of the slice sets the cursor to where the replay's is.
LEMMA EndStep == ASSUME IInv, BatchEnd PROVE IInv'
<1>1. InLap /\ mode = "batch" /\ pos < Period BY DEF BatchEnd, IInv
<1> DEFINE e == Fields(sma.buf, 0, sma.count, sma.sum, sma.since + pos)
<1>2. sma.since + pos < Cap BY <1>1, LapRoom, CapIsPositive, InputAssumption DEF InLap
<1>3. LapDone(sma) = e BY <1>1, <1>2, LapDoneFields, ReseedFields
<1>4. [e EXCEPT !.head = pos]
        = Fields(sma.buf, pos, sma.count, sma.sum, sma.since + pos)
  <2>1. ASSUME NEW buf, NEW count, NEW sum, NEW since, NEW s, NEW head,
               s = Fields(buf, 0, count, sum, since)
        PROVE  [s EXCEPT !.head = head] = Fields(buf, head, count, sum, since)
    BY <2>1 DEF Fields
  <2> QED
    BY <2>1
<1>5. sma' = replay BY <1>1, <1>3, <1>4 DEF BatchEnd, InLap
<1>6. replay' = replay /\ out' = out /\ replayOut' = replayOut
      /\ mode' = "streaming"
  BY DEF BatchEnd
<1> QED
  BY <1>1, <1>5, <1>6, ReplayShape DEF IInv, BetweenCalls, InLap

\* What a fast batch leaves is some full ring of inputs and its fresh total.
LEMMA FastLeavesRing ==
    ASSUME FastBatch
    PROVE  \E buf \in [0 .. Period - 1 -> Values], head \in 0 .. Period - 1 :
               LET s == Fields(buf, head, Period, 0, 0)
               IN  sma' = [s EXCEPT !.sum = Total(Ring(s, head))]
<1>1. PICK last \in [1 .. Period -> {v \in Values : Abs(v) <= MaxAbs}],
           head \in 0 .. Period - 1 :
           LET s == Fields([i \in 0 .. Period - 1 |->
                               last[IF i >= head THEN i - head + 1
                                    ELSE i - head + 1 + Period]],
                           head, Period, 0, 0)
           IN  sma' = [s EXCEPT !.sum = Total(Ring(s, head))]
  BY DEF FastBatch, Fields
<1> DEFINE buf == [i \in 0 .. Period - 1 |->
                      last[IF i >= head THEN i - head + 1
                           ELSE i - head + 1 + Period]]
<1>2. buf \in [0 .. Period - 1 -> Values] BY InputAssumption
<1> HIDE DEF buf
<1> QED
  BY <1>1, <1>2 DEF buf

LEMMA FastStep == ASSUME IInv, FastBatch PROVE IInv'
<1>1. PICK buf \in [0 .. Period - 1 -> Values], head \in 0 .. Period - 1 :
           LET s == Fields(buf, head, Period, 0, 0)
           IN  sma' = [s EXCEPT !.sum = Total(Ring(s, head))]
  BY FastLeavesRing
<1> DEFINE total ==
             Total(Ring(Fields(buf, head, Period, 0, 0), head))
<1>2. buf \in [0 .. Period - 1 -> Values \cup {0}] BY InputAssumption
<1>3. sma' = Fields(buf, head, Period, total, 0)
  <2>1. ASSUME NEW s, NEW t, s = Fields(buf, head, Period, 0, 0)
        PROVE  [s EXCEPT !.sum = t] = Fields(buf, head, Period, t, 0)
    BY <2>1 DEF Fields
  <2> QED
    BY <1>1, <2>1
<1> HIDE DEF total
<1>4. 0 < Cap BY CapIsPositive, InputAssumption
<1>5. Shape(sma') BY <1>2, <1>3, <1>4, InputAssumption DEF Shape, Fields, Cap
<1>6. replay' = sma' /\ replayOut' = out' /\ mode' = "streaming" BY DEF FastBatch, batchVars
<1> QED
  BY <1>5, <1>6 DEF IInv, BetweenCalls

LEMMA InvNext == IInv /\ [Next]_smaVars => IInv'
<1> SUFFICES ASSUME IInv, [Next]_smaVars PROVE IInv'
  OBVIOUS
<1>1. CASE (\E x \in Values \cup {PosInf, NaN} : Update(x)) \/ Reset
  BY <1>1, StreamingStep
<1>2. CASE BatchStart
  BY <1>2, StartStep
<1>3. CASE \E x \in Values : BatchInput(x)
  BY <1>3, InputStep
<1>4. CASE LapOver
  BY <1>4, LapOverStep
<1>5. CASE BatchEnd
  BY <1>5, EndStep
<1>6. CASE FastBatch
  BY <1>6, FastStep
<1>7. CASE UNCHANGED smaVars
  BY <1>7 DEF smaVars, IInv, BetweenCalls, Shape, InLap
<1> QED
  BY <1>1, <1>2, <1>3, <1>4, <1>5, <1>6, <1>7 DEF Next

LEMMA SmaInvariant == Spec => []IInv
<1> QED
  BY InvInit, InvNext, PTL DEF Spec

\* batch_nan_into is bit-for-bit a replay of update, for every window length,
\* every reseed interval and every sequence of calls.
THEOREM SmaBatchIsReplay == Spec => []BatchIsReplay
<1>1. IInv => BatchIsReplay
  <2> SUFFICES ASSUME IInv PROVE BatchIsReplay
    OBVIOUS
  <2>1. CASE mode = "streaming"
    BY <2>1 DEF IInv, BetweenCalls, BatchIsReplay
  <2>2. CASE mode = "batch"
    BY <2>2, InputAssumption DEF IInv, InLap, BatchIsReplay
  <2> QED
    BY <2>1, <2>2 DEF IInv
<1> QED
  BY <1>1, SmaInvariant, PTL

-----------------------------------------------------------------------------
(* The contract of a sliding window. *)

Stored == Values \cup {0}

\* The window of an indicator between two calls.
WindowOf(s) == IF s.count = Period THEN Ring(s, s.head)
               ELSE [i \in 1 .. s.count |-> s.buf[i - 1]]

\* The contents of the buffer, read from the cursor, are a sequence.
LEMMA WindowType ==
    ASSUME NEW s, Shape(s)
    PROVE  /\ WindowOf(s) \in Seq(Stored)
           /\ Len(WindowOf(s)) = s.count
           /\ DOMAIN WindowOf(s) = 1 .. s.count
<1>1. s.period = Period BY DEF Shape, Fields
<1>2. CASE s.count = Period
  <2>1. Ring(s, s.head) \in [1 .. Period -> Stored]
    BY <1>1, InputAssumption DEF Shape, Ring, Stored
  <2> QED
    BY <1>2, <2>1, InputAssumption, LenProperties, IsASeq DEF WindowOf
<1>3. CASE s.count # Period
  <2>1. [i \in 1 .. s.count |-> s.buf[i - 1]] \in [1 .. s.count -> Stored]
    BY <1>3, InputAssumption DEF Shape, Stored
  <2>2. s.count \in Nat BY InputAssumption DEF Shape
  <2>3. WindowOf(s) = [i \in 1 .. s.count |-> s.buf[i - 1]] BY <1>3 DEF WindowOf
  <2>4. WindowOf(s) \in Seq(Stored)
    <3>1. WindowOf(s) \in [1 .. s.count -> Stored] BY <2>1, <2>3
    <3> HIDE DEF WindowOf
    <3> QED
      BY <2>2, <3>1, SeqDef
  <2>5. DOMAIN WindowOf(s) = 1 .. s.count BY <2>3
  <2> QED
    BY <2>2, <2>4, <2>5, LenProperties
<1> QED
  BY <1>2, <1>3

\* An input enters the window at its end and pushes the oldest out of a full one.
LEMMA WindowSlides ==
    ASSUME NEW s, Shape(s), NEW x \in Values
    PROVE  WindowOf(Updated(s, x)) =
             IF Len(WindowOf(s)) < Period THEN Append(WindowOf(s), x)
             ELSE Append(Tail(WindowOf(s)), x)
<1> DEFINE t == Updated(s, x)
           w == WindowOf(s)
           v == WindowOf(t)
           buf == [s.buf EXCEPT ![s.head] = x]
           head == IF s.head + 1 = Period THEN 0 ELSE s.head + 1
           count == IF s.count = Period THEN Period ELSE s.count + 1
<1>1. t.buf = buf /\ t.head = head /\ t.count = count /\ t.period = Period
  <2> DEFINE sum == Add(IF s.count = Period THEN Sub(s.sum, s.buf[s.head])
                        ELSE s.sum, x)
             e == Fields(buf, head, count, sum, s.since + 1)
  <2>1. t = Reseed(e, head) BY UpdatedFields
  <2> HIDE DEF t, buf, head, count, sum
  <2>2. t = e \/ t = Fields(buf, head, count, Total(Ring(e, head)), 0) BY <2>1, ReseedFields
  <2> QED
    BY <2>2 DEF Fields
<1>2. Shape(t) BY UpdatedShape
<1>3. /\ w \in Seq(Stored) /\ Len(w) = s.count /\ DOMAIN w = 1 .. s.count
      /\ v \in Seq(Stored) /\ Len(v) = count
  BY <1>1, <1>2, WindowType
<1>4. x \in Stored BY DEF Stored
<1>5. /\ Period \in Nat \ {0}
      /\ s.head \in 0 .. Period - 1
      /\ s.count \in 0 .. Period
      /\ s.count < Period => s.head = s.count
      /\ s.buf \in [0 .. Period - 1 -> Stored] /\ s.period = Period
  BY InputAssumption DEF Shape, Fields, Stored
<1>6. CASE s.count < Period
  <2>1. \A i \in 1 .. s.count : w[i] = s.buf[i - 1] BY <1>5, <1>6 DEF WindowOf
  <2>2. \A i \in 1 .. count : v[i] = buf[i - 1]
    <3>1. CASE s.count + 1 = Period
      <4>1. head = 0 /\ count = Period BY <1>5, <1>6, <3>1
      <4> QED
        BY <1>1, <1>5, <4>1 DEF WindowOf, Ring
    <3>2. CASE s.count + 1 # Period
      BY <1>1, <1>5, <1>6, <3>2 DEF WindowOf
    <3> QED
      BY <3>1, <3>2
  <2>3. count = s.count + 1 /\ s.head = s.count BY <1>5, <1>6
  <2> HIDE DEF w, v, t, head, count
  <2>4. \A i \in 1 .. count : v[i] = IF i <= s.count THEN w[i] ELSE x
    BY <1>5, <2>1, <2>2, <2>3
  <2>5. Append(w, x) \in Seq(Stored) /\ Len(Append(w, x)) = s.count + 1
    BY <1>3, <1>4, AppendProperties
  <2>6. \A i \in 1 .. count : Append(w, x)[i] = IF i <= s.count THEN w[i] ELSE x
    BY <1>3, <1>4, <2>3, AppendProperties
  <2>7. v = Append(w, x) BY <1>3, <2>3, <2>4, <2>5, <2>6, SeqEqual
  <2> QED
    BY <1>3, <1>6, <2>7 DEF v, t, w
<1>7. CASE s.count = Period
  <2>1. \A i \in 1 .. Period :
            w[i] = s.buf[IF s.head + i - 1 < Period THEN s.head + i - 1
                         ELSE s.head + i - 1 - Period]
    BY <1>5, <1>7 DEF WindowOf, Ring
  <2>2. \A i \in 1 .. Period :
            v[i] = buf[IF head + i - 1 < Period THEN head + i - 1
                       ELSE head + i - 1 - Period]
    BY <1>1, <1>5, <1>7 DEF WindowOf, Ring
  <2>3. count = Period BY <1>7
  <2> HIDE DEF w, v, t, count
  <2>4. \A i \in 1 .. Period - 1 : v[i] = w[i + 1]
    <3> SUFFICES ASSUME NEW i \in 1 .. Period - 1 PROVE v[i] = w[i + 1]
      OBVIOUS
    <3>1. w[i + 1] = s.buf[IF s.head + i < Period THEN s.head + i
                           ELSE s.head + i - Period]
      BY <1>5, <2>1
    <3>2. v[i] = buf[IF s.head + i < Period THEN s.head + i
                     ELSE s.head + i - Period]
      <4>1. CASE s.head + 1 = Period
        <5>1. head = 0 BY <4>1
        <5>2. v[i] = buf[i - 1] BY <1>5, <2>2, <5>1
        <5> QED
          BY <1>5, <4>1, <5>2
      <4>2. CASE s.head + 1 # Period
        <5>1. head = s.head + 1 BY <4>2
        <5>2. v[i] = buf[IF head + i - 1 < Period THEN head + i - 1
                         ELSE head + i - 1 - Period]
          BY <1>5, <2>2
        <5> HIDE DEF head
        <5>3. head + i - 1 = s.head + i /\ head + i - 1 - Period = s.head + i - Period
          BY <1>5, <5>1
        <5> QED
          BY <5>2, <5>3
      <4> QED
        BY <4>1, <4>2
    <3>3. (IF s.head + i < Period THEN s.head + i ELSE s.head + i - Period)
             \in (0 .. Period - 1) \ {s.head}
      BY <1>5
    <3> QED
      BY <1>5, <3>1, <3>2, <3>3
  <2>5. v[Period] = x
    <3>1. (IF head + Period - 1 < Period THEN head + Period - 1
           ELSE head + Period - 1 - Period) = s.head
      BY <1>5
    <3>2. v[Period] = buf[s.head] BY <1>5, <2>2, <3>1
    <3> QED
      BY <1>5, <3>2
  <2>6. /\ Tail(w) \in Seq(Stored) /\ Len(Tail(w)) = Period - 1
        /\ \A i \in 1 .. Period - 1 : Tail(w)[i] = w[i + 1]
    BY <1>3, <1>5, <1>7, HeadTailProperties
  <2>7. /\ Append(Tail(w), x) \in Seq(Stored)
        /\ Len(Append(Tail(w), x)) = Period
        /\ \A i \in 1 .. Period - 1 : Append(Tail(w), x)[i] = w[i + 1]
        /\ Append(Tail(w), x)[Period] = x
    BY <1>4, <1>5, <2>6, AppendProperties
  <2>8. v = Append(Tail(w), x) BY <1>3, <1>5, <2>3, <2>4, <2>5, <2>7, SeqEqual
  <2> QED
    BY <1>3, <1>5, <1>7, <2>8 DEF v, t, w
<1> QED
  BY <1>5, <1>6, <1>7

\* Whatever the batch is doing, the buffer read from Oldest is the window of the
\* replay, and both have answered the last input or neither has.
InTouch == /\ Contents = WindowOf(replay)
           /\ (out # None) = (replayOut # None)

LEMMA ContentsAreReplays == IInv => InTouch
<1> SUFFICES ASSUME IInv PROVE InTouch
  OBVIOUS
<1> USE DEF InTouch
<1>1. CASE mode = "streaming"
  <2>1. sma = replay /\ out = replayOut /\ sma.period = Period
    BY <1>1 DEF IInv, BetweenCalls, Shape, Fields
  <2>2. Oldest = sma.head BY <1>1 DEF Oldest
  <2> QED
    BY <2>1, <2>2 DEF Contents, WindowOf, Full
<1>2. CASE mode = "batch" /\ pos < Period
  <2>1. /\ InLap /\ pos # Period
        /\ replay = Fields(sma.buf, pos, sma.count, sma.sum, sma.since + pos)
        /\ out = replayOut
    BY <1>2, InputAssumption DEF IInv, InLap
  <2>2. /\ replay.buf = sma.buf /\ replay.head = pos /\ replay.count = sma.count
        /\ replay.period = Period /\ sma.period = Period
    BY <2>1 DEF InLap, Fields
  <2>3. Oldest = pos BY <1>2, <2>1 DEF Oldest
  <2> QED
    BY <2>1, <2>2, <2>3 DEF Contents, WindowOf, Full, Ring
<1>3. CASE mode = "batch" /\ pos = Period
  <2>1. /\ InLap
        /\ replay = Reseed(Fields(sma.buf, 0, sma.count, sma.sum,
                                  sma.since + Period), 0)
        /\ out = Value(sma) /\ replayOut = Value(replay)
        /\ sma.count = Period
    BY <1>3, InputAssumption DEF IInv, InLap
  <2>2. /\ replay.buf = sma.buf /\ replay.head = 0 /\ replay.count = sma.count
        /\ replay.period = Period /\ sma.period = Period
    <3> DEFINE e == Fields(sma.buf, 0, sma.count, sma.sum, sma.since + Period)
    <3>1. \/ replay = e
          \/ replay = Fields(sma.buf, 0, sma.count, Total(Ring(e, 0)), 0)
      BY <2>1, ReseedFields
    <3>2. sma.period = Period BY <2>1 DEF InLap, Fields
    <3> QED
      BY <3>1, <3>2 DEF Fields
  <2>3. Oldest = 0 BY <1>3 DEF Oldest
  <2>4. out # None /\ replayOut # None BY <2>1, <2>2 DEF Value, Full, Some, None
  <2> QED
    BY <2>1, <2>2, <2>3, <2>4 DEF Contents, WindowOf, Full, Ring
<1> QED
  BY <1>1, <1>2, <1>3, InputAssumption DEF IInv, InLap

LEMMA ContentsAreReplaysNext == IInv' => InTouch'
  BY ContentsAreReplays, PTL

\* One call of update, as the contract sees it.
LEMMA ReplayAccepts ==
    ASSUME NEW s, Shape(s), NEW x \in Values
    PROVE  /\ WindowOf(Updated(s, x)) =
                 IF Len(WindowOf(s)) < Period THEN Append(WindowOf(s), x)
                 ELSE Append(Tail(WindowOf(s)), x)
           /\ (Answer(s, x) # None) = (Len(WindowOf(Updated(s, x))) = Period)
<1>1. IsFinite(x) BY InputAssumption
<1>2. Shape(Updated(s, x)) BY UpdatedShape
<1>3. Len(WindowOf(Updated(s, x))) = Updated(s, x).count BY <1>2, WindowType
<1>4. Updated(s, x).period = Period BY <1>2 DEF Shape, Fields
<1> QED
  BY <1>1, <1>3, <1>4, WindowSlides DEF Answer, Value, Full, Some, None

\* The contract in terms of the replay.
LEMMA AcceptInput ==
    ASSUME IInv, IInv', Shape(replay), NEW x \in Values, Replay(x)
    PROVE  Abstract!Accept(x)
<1>1. /\ Contents = WindowOf(replay)
      /\ Contents' = WindowOf(replay')
      /\ (out' # None) = (replayOut' # None)
  BY ContentsAreReplays, ContentsAreReplaysNext DEF InTouch
<1>2. /\ replay' = Updated(replay, x)
      /\ replayOut' = Answer(replay, x)
  BY DEF Replay
<1> QED
  BY <1>1, <1>2, ReplayAccepts DEF Abstract!Accept

LEMMA WindowStutters ==
    ASSUME IInv, IInv', UNCHANGED <<replay, replayOut>>
    PROVE  UNCHANGED Abstract!windowVars
<1>1. Contents = WindowOf(replay) /\ Contents' = WindowOf(replay')
  BY ContentsAreReplays, ContentsAreReplaysNext DEF InTouch
<1>2. (out # None) = (replayOut # None) /\ (out' # None) = (replayOut' # None)
  BY ContentsAreReplays, ContentsAreReplaysNext DEF InTouch
<1> QED
  BY <1>1, <1>2 DEF Abstract!windowVars

LEMMA EmptyWindow == ASSUME NEW s, s.count = 0 PROVE WindowOf(s) = <<>>
  BY InputAssumption DEF WindowOf

\* The fast batch leaves the end of the slice in the window.
LEMMA FastFillsWindow ==
    ASSUME IInv, FastBatch
    PROVE  /\ Contents' \in [1 .. Period -> Values]
           /\ out' # None
           /\ sma.count = 0
<1>1. PICK buf \in [0 .. Period - 1 -> Values], head \in 0 .. Period - 1 :
           LET s == Fields(buf, head, Period, 0, 0)
           IN  sma' = [s EXCEPT !.sum = Total(Ring(s, head))]
  BY FastLeavesRing
<1>2. /\ sma'.buf = buf /\ sma'.head = head /\ sma'.count = Period
      /\ sma'.period = Period
  BY <1>1 DEF Fields
<1>3. Contents' = Ring(sma', head)
  <2>1. mode' = "streaming" BY DEF FastBatch, batchVars
  <2> QED
    BY <1>2, <2>1 DEF Contents, Full, Oldest
<1>4. \A i \in 0 .. Period - 1 : buf[i] \in Values OBVIOUS
<1>5. Ring(sma', head) \in [1 .. Period -> Values] BY <1>2, <1>4, InputAssumption DEF Ring
<1>6. out' # None BY <1>2 DEF FastBatch, Value, Full, Some, None
<1> QED
  BY <1>3, <1>5, <1>6 DEF FastBatch, Fresh

LEMMA WindowStep ==
    ASSUME IInv, IInv', [Next]_smaVars
    PROVE  [Abstract!WindowNext]_(Abstract!windowVars)
<1>1. ASSUME NEW x \in Values \cup {PosInf, NaN}, Update(x)
      PROVE  Abstract!WindowNext
  <2>1. mode = "streaming" /\ Shape(replay) /\ Replay(x)
    BY <1>1 DEF Update, IInv, BetweenCalls
  <2>2. CASE x \in Values
    BY <2>1, <2>2, AcceptInput DEF Abstract!WindowNext
  <2>3. CASE x \notin Values
    <3>1. ~IsFinite(x) BY <2>3, FloatAssumption DEF IsFinite, Abs, PosInf, NaN
    <3>2. replay' = replay /\ replayOut' = None BY <2>1, <3>1 DEF Replay, Updated, Answer
    <3>3. Contents' = Contents
      BY <3>2, ContentsAreReplays, ContentsAreReplaysNext DEF InTouch
    <3>4. (out' # None) = FALSE
      BY <3>2, ContentsAreReplays, ContentsAreReplaysNext DEF InTouch
    <3> QED
      BY <3>3, <3>4 DEF Abstract!WindowNext, Abstract!Reject
  <2> QED
    BY <2>2, <2>3
<1>2. ASSUME Reset PROVE Abstract!WindowNext
  <2>1. replay'.count = 0 BY <1>2, ClearFields DEF Reset, IInv, BetweenCalls, Shape, Fields
  <2>2. Contents' = <<>> BY <2>1, EmptyWindow, ContentsAreReplaysNext DEF InTouch
  <2>3. out' = out BY <1>2 DEF Reset
  <2> QED
    BY <2>2, <2>3 DEF Abstract!WindowNext, Abstract!Forget
<1>3. ASSUME NEW x \in Values, BatchInput(x) PROVE Abstract!WindowNext
  <2>1. InLap /\ pos < Period /\ Replay(x) BY <1>3 DEF BatchInput, IInv
  <2> QED
    BY <2>1, ReplayShape, AcceptInput DEF Abstract!WindowNext
<1>4. ASSUME FastBatch PROVE Abstract!WindowNext
  <2>1. replay.count = 0 BY <1>4, FastFillsWindow DEF FastBatch, IInv, BetweenCalls
  <2>2. Contents = <<>> BY <2>1, EmptyWindow, ContentsAreReplays DEF InTouch
  <2> QED
    BY <1>4, <2>2, FastFillsWindow DEF Abstract!WindowNext, Abstract!AcceptSlice
<1>5. CASE BatchStart \/ LapOver \/ BatchEnd \/ UNCHANGED smaVars
  BY <1>5, WindowStutters DEF BatchStart, LapOver, BatchEnd, smaVars
<1> QED
  BY <1>1, <1>2, <1>3, <1>4, <1>5 DEF Next

\* The indicator looks at the last Period inputs it accepted and answers if and
\* only if there are that many, however the calls of update, reset and the two
\* batches are mixed.
THEOREM SmaKeepsWindow == Spec => KeepsWindow
<1>1. Init => Abstract!WindowInit
  <2> SUFFICES ASSUME Init PROVE Abstract!WindowInit
    OBVIOUS
  <2>1. Contents = <<>>
    BY EmptyWindow, ContentsAreReplays, InvInit DEF InTouch, Init, NewSma
  <2>2. out = None BY DEF Init
  <2> QED
    BY <2>1, <2>2 DEF Abstract!WindowInit
<1>2. IInv /\ IInv' /\ [Next]_smaVars
        => [Abstract!WindowNext]_(Abstract!windowVars)
  BY WindowStep
<1> QED
  BY <1>1, <1>2, SmaInvariant, PTL DEF Spec, KeepsWindow, Abstract!WindowSpec

-----------------------------------------------------------------------------
(* Induction, with a set in place of a predicate, and powers of two.      *)

LEMMA SmallestOf ==
    ASSUME NEW S \in SUBSET Nat, S # {}
    PROVE  \E x \in S : \A y \in S : ~(y < x)
<1> DEFINE R == {ss \in Nat \X Nat : ss[1] < ss[2]}
<1>1. IsWellFoundedOn(R, Nat) BY NatLessThanWellFounded DEF OpToRel
<1>2. \A x, y \in Nat : y < x => <<y, x>> \in R OBVIOUS
<1> HIDE DEF R
<1>3. \E x \in S : \A y \in S : ~(<<y, x>> \in R) BY <1>1, WFMin
<1> QED BY <1>2, <1>3

LEMMA SetInduction ==
    ASSUME NEW S, 0 \in S, \A n \in Nat : n \in S => n + 1 \in S
    PROVE  \A n \in Nat : n \in S
<1> SUFFICES ASSUME NEW k \in Nat, k \notin S PROVE FALSE
  OBVIOUS
<1> DEFINE T == {n \in Nat : n \notin S}
<1>1. T \in SUBSET Nat /\ T # {} OBVIOUS
<1>2. PICK x \in T : \A y \in T : ~(y < x) BY <1>1, SmallestOf
<1>3. x # 0 /\ x - 1 \in Nat /\ x - 1 < x BY <1>2
<1>4. x - 1 \in S BY <1>2, <1>3
<1>5. (x - 1) + 1 = x BY <1>2
<1> QED BY <1>2, <1>3, <1>4, <1>5

LEMMA LargestOf ==
    ASSUME NEW k \in Nat, NEW s \in SUBSET (1 .. k), s # {}
    PROVE  Max(s) \in s /\ \A y \in s : Max(s) >= y
<1> DEFINE T == {k - y : y \in s}
<1>0. \A y \in s : k - y \in Nat OBVIOUS
<1>1. T \in SUBSET Nat /\ T # {} BY <1>0
<1>2. PICK t \in T : \A u \in T : ~(u < t) BY <1>1, SmallestOf
<1>3. PICK x \in s : t = k - x BY <1>2
<1>4. \A y \in s : x >= y
  <2> SUFFICES ASSUME NEW y \in s PROVE x >= y
    OBVIOUS
  <2>1. ~(k - y < k - x) BY <1>2, <1>3
  <2> QED BY <2>1
<1> QED BY <1>3, <1>4 DEF Max

\* A set with one member more has twice the subsets: that is what is known of 2^n.
LEMMA PowerDoubles ==
    ASSUME NEW n \in Nat
    PROVE  2^n \in Nat /\ 2^(n + 1) = 2 * 2^n
<1> DEFINE A == 1 .. n
           B == 1 .. n + 1
           P == SUBSET A
           Q == {x \in SUBSET B : n + 1 \in x}
           f == [x \in P |-> x \cup {n + 1}]
<1>1. IsFiniteSet(A) /\ Cardinality(A) = n BY FS_Interval
<1>2. IsFiniteSet(B) /\ Cardinality(B) = n + 1 BY FS_Interval
<1>3. IsFiniteSet(P) /\ Cardinality(P) = 2^n BY <1>1, FS_SUBSET
<1>4. Cardinality(SUBSET B) = 2^(n + 1) BY <1>2, FS_SUBSET
<1>5. f \in Bijection(P, Q)
  <2>1. f \in [P -> Q] OBVIOUS
  <2>2. ASSUME NEW x \in P, NEW y \in P, f[x] = f[y] PROVE x = y
    <3>1. n + 1 \notin x /\ n + 1 \notin y OBVIOUS
    <3> QED BY <2>2, <3>1
  <2>3. ASSUME NEW q \in Q PROVE \E x \in P : f[x] = q
    <3>1. q \ {n + 1} \in P /\ f[q \ {n + 1}] = q OBVIOUS
    <3> QED BY <3>1
  <2> QED BY <2>1, <2>2, <2>3 DEF Bijection, Injection, IsInjective, Surjection
<1>6. IsFiniteSet(Q) /\ Cardinality(Q) = Cardinality(P)
  BY <1>3, <1>5, FS_Bijection DEF ExistsBijection
<1>7. SUBSET B = P \cup Q /\ P \cap Q = {} OBVIOUS
<1> HIDE DEF A, B, P, Q, f
<1>8. Cardinality({}) = 0 BY FS_EmptySet
<1>9. Cardinality(P \cup Q) = Cardinality(P) + Cardinality(Q) - 0
  BY <1>3, <1>6, <1>7, <1>8, FS_Union
<1>10. Cardinality(P) \in Nat BY <1>3, FS_CardinalityType
<1>11. Cardinality(SUBSET B) = 2 * Cardinality(P)
  <2>1. Cardinality(SUBSET B) = Cardinality(P \cup Q) BY <1>7
  <2> DEFINE c == Cardinality(P)
             d == Cardinality(Q)
             e == Cardinality(P \cup Q)
  <2>2. c \in Nat /\ d = c /\ e = c + d - 0 BY <1>6, <1>9, <1>10
  <2> HIDE DEF c, d, e
  <2>3. e = 2 * c BY <2>2
  <2> QED BY <2>1, <2>3 DEF c, e
<1> QED BY <1>3, <1>4, <1>10, <1>11, Zenon

-----------------------------------------------------------------------------
(* The error of a rounding. *)

LEMMA PowersGrow ==
    ASSUME NEW n \in Nat
    PROVE  2^n \in Nat /\ n < 2^n /\ \A m \in 0 .. n : 2^m <= 2^n
<1> DEFINE S == {k \in Nat : 2^k \in Nat /\ k < 2^k /\ \A m \in 0 .. k : 2^m <= 2^k}
<1>1. 2^0 = 1 OBVIOUS
<1>2. 0 \in S
  <2>1. ASSUME NEW m \in 0 .. 0 PROVE 2^m <= 2^0
    <3>1. m = 0 OBVIOUS
    <3> QED BY <1>1, <3>1
  <2>2. 0 \in Nat /\ 2^0 \in Nat /\ 0 < 2^0 /\ \A m \in 0 .. 0 : 2^m <= 2^0 BY <1>1, <2>1
  <2> QED BY <2>2
<1>3. \A k \in Nat : k \in S => k + 1 \in S
  <2> SUFFICES ASSUME NEW k \in Nat, k \in S PROVE k + 1 \in S
    OBVIOUS
  <2>1. 2^k \in Nat /\ 2^(k + 1) = 2 * 2^k BY PowerDoubles
  <2>2. ASSUME NEW m \in 0 .. k + 1 PROVE 2^m <= 2^(k + 1)
    <3>1. CASE m = k + 1
      BY <2>1, <3>1
    <3>2. CASE m # k + 1
      <4>1. m \in 0 .. k BY <3>2
      <4>2. m \in Nat OBVIOUS
      <4>3. 2^m \in Nat /\ 2^m <= 2^k BY <4>1, <4>2, PowerDoubles
      <4> QED BY <2>1, <4>3
    <3> QED BY <3>1, <3>2
  <2> QED BY <2>1, <2>2
<1> HIDE DEF S
<1>4. n \in S BY <1>2, <1>3, SetInduction
<1> QED BY <1>4 DEF S

\* The binade of a natural number.
IsScale(k, a) == /\ a <= Exact * 2^k
                 /\ k = 0 \/ a > Exact * 2^(k - 1)

LEMMA UlpIsAPower ==
    ASSUME NEW a \in Nat
    PROVE  \E k \in Nat : Ulp(a) = 2^k /\ IsScale(k, a)
<1> DEFINE S == {k \in Nat : a <= Exact * 2^k}
<1>1. a \in S
  <2>1. 2^a \in Nat /\ a < 2^a BY PowersGrow
  <2>2. Exact \in Nat /\ Exact >= 1 BY FloatAssumption
  <2> DEFINE p == 2^a
  <2>3. p \in Nat /\ a < p BY <2>1
  <2> HIDE DEF p
  <2>4. (Exact - 1) * p >= 0 /\ Exact * p = (Exact - 1) * p + p BY <2>2, <2>3
  <2>5. a <= Exact * p BY <2>2, <2>3, <2>4
  <2> QED BY <2>5 DEF p
<1>2. PICK k \in S : \A y \in S : ~(y < k) BY <1>1, SmallestOf
<1>3. k \in 0 .. a BY <1>1, <1>2
<1>4. k = 0 \/ a > Exact * 2^(k - 1)
  <2> SUFFICES ASSUME k # 0 PROVE a > Exact * 2^(k - 1)
    OBVIOUS
  <2>1. k - 1 \in Nat /\ k - 1 < k BY <1>3
  <2>2. ~(a <= Exact * 2^(k - 1)) BY <1>2, <2>1
  <2>3. 2^(k - 1) \in Nat /\ Exact \in Nat BY <2>1, PowersGrow, FloatAssumption
  <2> DEFINE p == 2^(k - 1)
  <2>4. p \in Nat /\ ~(a <= Exact * p) BY <2>2, <2>3
  <2> HIDE DEF p
  <2>5. a > Exact * p BY <2>3, <2>4
  <2> QED BY <2>5 DEF p
<1>5. IsScale(k, a) BY <1>2, <1>4 DEF IsScale
<1>6. \E j \in 0 .. a : IsScale(j, a) BY <1>3, <1>5
<1> DEFINE c == CHOOSE j \in 0 .. a : IsScale(j, a)
<1>7. c \in 0 .. a /\ IsScale(c, a) BY <1>6
<1>8. Ulp(a) = 2^c BY DEF Ulp, IsScale
<1> HIDE DEF c
<1>9. c \in Nat BY <1>7
<1> QED BY <1>7, <1>8, <1>9

LEMMA UlpGrows ==
    ASSUME NEW a \in Nat, NEW b \in Nat, a <= b
    PROVE  Ulp(a) \in Nat /\ Ulp(a) > 0 /\ Ulp(b) \in Nat /\ Ulp(a) <= Ulp(b)
<1>1. PICK k \in Nat : Ulp(a) = 2^k /\ IsScale(k, a) BY UlpIsAPower
<1>2. PICK m \in Nat : Ulp(b) = 2^m /\ IsScale(m, b) BY UlpIsAPower
<1>3. 2^k \in Nat /\ 2^k > 0 /\ 2^m \in Nat BY PowersGrow
<1>4. k <= m
  <2> SUFFICES ASSUME m < k PROVE FALSE
    OBVIOUS
  <2>1. k - 1 \in Nat /\ m \in 0 .. k - 1 /\ k # 0 OBVIOUS
  <2>2. 2^(k - 1) \in Nat /\ 2^m <= 2^(k - 1) BY <2>1, PowersGrow
  <2>3. a > Exact * 2^(k - 1) /\ b <= Exact * 2^m BY <1>1, <1>2, <2>1 DEF IsScale
  <2> DEFINE p == 2^(k - 1)
             q == 2^m
  <2>4. p \in Nat /\ q \in Nat /\ q <= p /\ a > Exact * p /\ b <= Exact * q /\ Exact \in Nat
    BY <1>3, <2>2, <2>3, FloatAssumption
  <2> HIDE DEF p, q
  <2>5. Exact * (p - q) >= 0 /\ Exact * (p - q) = Exact * p - Exact * q
        /\ Exact * p \in Int /\ Exact * q \in Int
    BY <2>4
  <2> QED BY <2>4, <2>5
<1>5. k \in 0 .. m BY <1>4
<1>6. 2^k <= 2^m BY <1>5, PowersGrow
<1> QED BY <1>1, <1>2, <1>3, <1>6

\* A multiple of the spacing, half of it away at most.
IsNearest(f, u, a) == \E n \in Nat : f = n * u /\ 2 * (f - a) <= u /\ 2 * (a - f) <= u

LEMMA NearestIsNear ==
    ASSUME NEW a \in Nat
    PROVE  IsNearest(Nearest(a), Ulp(a), a)
<1> DEFINE u == Ulp(a)
           q == a \div u
           r == a % u
           up == 2 * r > u \/ (2 * r = u /\ q % 2 = 1)
<1>1. u \in Nat /\ u > 0 BY UlpGrows
<1>2. Nearest(a) = IF up THEN (q + 1) * u ELSE q * u BY DEF Nearest
<1> HIDE DEF u
<1>3. q \in Nat /\ r \in 0 .. u - 1 /\ a = q * u + r BY <1>1
<1>4. (q + 1) * u = q * u + u /\ q * u \in Nat /\ q + 1 \in Nat BY <1>1, <1>3
<1> DEFINE w == q * u
<1>5. w \in Nat /\ a = w + r /\ (q + 1) * u = w + u BY <1>3, <1>4
<1>6. up => 2 * r >= u BY <1>1, <1>3
<1>7. ~up => 2 * r <= u BY <1>1, <1>3
<1>8. CASE up
  <2>1. Nearest(a) = (q + 1) * u BY <1>2, <1>8
  <2> HIDE DEF w, q, r, up
  <2>2. q + 1 \in Nat /\ Nearest(a) = w + u BY <1>4, <1>5, <2>1
  <2> DEFINE f == Nearest(a)
  <2>4. 2 * (f - a) <= u /\ 2 * (a - f) <= u
    <3>1. f = w + u BY <2>2
    <3> HIDE DEF f
    <3> QED BY <1>1, <1>3, <1>5, <1>6, <1>8, <3>1
  <2>5. PICK n \in Nat : n = q + 1 BY <2>2
  <2>6. Nearest(a) = n * u BY <2>1, <2>5
  <2>7. IsNearest(Nearest(a), u, a) BY <2>4, <2>6 DEF IsNearest
  <2> QED BY <2>7 DEF u
<1>9. CASE ~up
  <2>1. Nearest(a) = q * u BY <1>2, <1>9
  <2>2. q * u = w OBVIOUS
  <2> HIDE DEF w, q, r, up
  <2>3. 2 * (w - a) <= u /\ 2 * (a - w) <= u BY <1>1, <1>3, <1>5, <1>7, <1>9
  <2> QED BY <1>3, <2>1, <2>2, <2>3 DEF IsNearest, u
<1> QED BY <1>8, <1>9

LEMMA MaxErrorIsNat == MaxError \in Nat
<1>1. Largest \in Nat BY FloatAssumption
<1> QED BY <1>1, UlpGrows DEF MaxError

\* A result that does not overflow is half the largest spacing off at most: what
\* has a larger one lies beyond the last float and is rounded to beyond it.
LEMMA NearestError ==
    ASSUME NEW a \in Nat, Nearest(a) <= Largest
    PROVE  /\ Nearest(a) \in Nat
           /\ 2 * (Nearest(a) - a) <= MaxError /\ 2 * (a - Nearest(a)) <= MaxError
<1> DEFINE U == Ulp(Largest)
           f == Nearest(a)
           u == Ulp(a)
<1>1. Largest \in Nat /\ U \in Nat /\ U > 0 /\ u \in Nat /\ u > 0 /\ Exact \in Nat
  BY FloatAssumption, UlpGrows
<1>2. PICK n \in Nat : f = n * u /\ 2 * (f - a) <= u /\ 2 * (a - f) <= u
  BY NearestIsNear DEF IsNearest
<1>3. f \in Nat BY <1>1, <1>2
<1>4. u <= U
  <2> SUFFICES ASSUME U < u PROVE FALSE
    BY <1>1
  <2>1. PICK k \in Nat : u = 2^k /\ IsScale(k, a) BY UlpIsAPower
  <2>2. Largest + U \in Nat BY <1>1
  <2>3. PICK m \in Nat : Ulp(Largest + U) = 2^m /\ IsScale(m, Largest + U)
    BY <2>2, UlpIsAPower
  <2>4. U = 2^m BY <2>3, FloatAssumption
  <2>5. m < k
    <3> SUFFICES ASSUME k <= m PROVE FALSE
      OBVIOUS
    <3>1. k \in 0 .. m OBVIOUS
    <3>2. 2^k <= 2^m BY <3>1, PowersGrow
    <3> QED BY <1>1, <2>1, <2>4, <3>2
  <2> DEFINE h == 2^(k - 1)
  <2>6. k - 1 \in Nat /\ m \in 0 .. k - 1 /\ k # 0 /\ (k - 1) + 1 = k BY <2>5
  <2>7. h \in Nat /\ U <= h BY <2>4, <2>6, PowersGrow
  <2>8. u = 2 * h BY <2>1, <2>6, PowerDoubles
  <2>9. a > Exact * h /\ Largest + U <= Exact * U BY <2>1, <2>3, <2>4, <2>6 DEF IsScale
  <2> HIDE DEF h, U, f, u
  <2>10. Exact * (h - U) >= 0 /\ Exact * (h - U) = Exact * h - Exact * U
         /\ Exact * h \in Int /\ Exact * U \in Int
    BY <1>1, <2>7
  <2>11. h > 0 /\ f > Exact * h - h BY <1>1, <1>2, <1>3, <2>7, <2>8, <2>9, <2>10
  <2>12. f = (2 * n) * h BY <1>2, <2>7, <2>8
  <2>13. 2 * n >= Exact
    <3> SUFFICES ASSUME 2 * n <= Exact - 1 PROVE FALSE
      BY <1>1
    <3>1. (Exact - 1 - 2 * n) * h >= 0 BY <1>1, <2>7
    <3>2. (Exact - 1 - 2 * n) * h = Exact * h - h - (2 * n) * h /\ (2 * n) * h \in Int
      BY <1>1, <2>7
    <3> QED BY <2>7, <2>10, <2>11, <2>12, <3>1, <3>2
  <2>14. f >= Exact * h
    <3>1. (2 * n - Exact) * h >= 0 BY <1>1, <2>7, <2>13
    <3>2. (2 * n - Exact) * h = (2 * n) * h - Exact * h /\ (2 * n) * h \in Int BY <1>1, <2>7
    <3> QED BY <2>10, <2>12, <3>1, <3>2
  <2>15. f <= Largest BY DEF f
  <2> QED BY <1>1, <1>3, <2>9, <2>10, <2>14, <2>15
<1> HIDE DEF f, u
<1>5. 2 * (f - a) <= U /\ 2 * (a - f) <= U BY <1>1, <1>2, <1>3, <1>4
<1> QED BY <1>3, <1>5 DEF MaxError, f

LEMMA RoundError ==
    ASSUME NEW x \in Int, IsFinite(Round(x))
    PROVE  /\ Round(x) \in Int
           /\ 2 * (Round(x) - x) <= MaxError /\ 2 * (x - Round(x)) <= MaxError
<1> DEFINE b == Abs(x)
           a == Nearest(b)
<1>1. b \in Nat /\ (x < 0 => b = -x) /\ (~(x < 0) => b = x) BY DEF Abs
<1>2. Largest \in Nat /\ MaxError \in Nat BY FloatAssumption, MaxErrorIsNat
<1>3. ~IsFinite(PosInf) /\ ~IsFinite(NegInf) BY <1>2 DEF IsFinite, Abs, PosInf, NegInf
<1>4. a \in Nat
  <2>1. Ulp(b) \in Nat BY <1>1, UlpGrows
  <2> QED BY <1>1, <2>1, NearestIsNear DEF IsNearest
<1>5. ~(a > Largest /\ x > 0) /\ ~(a > Largest /\ x < 0) BY <1>3 DEF Round
<1>6. Round(x) = IF x < 0 THEN -a ELSE a BY <1>5 DEF Round
<1>7. CASE a <= Largest
  <2>1. 2 * (a - b) <= MaxError /\ 2 * (b - a) <= MaxError BY <1>1, <1>7, NearestError
  <2> HIDE DEF a, b
  <2> QED BY <1>1, <1>2, <1>4, <1>6, <2>1
<1>8. CASE ~(a <= Largest)
  <2>1. x = 0 /\ b = 0 BY <1>1, <1>2, <1>4, <1>5, <1>8
  <2>2. Ulp(b) \in Nat /\ IsNearest(a, Ulp(b), b) BY <1>1, NearestIsNear, UlpGrows
  <2> HIDE DEF a
  <2>3. Ulp(b) <= MaxError
    <3>1. b <= Largest BY <1>2, <2>1
    <3> HIDE DEF b
    <3> QED BY <1>1, <1>2, <3>1, UlpGrows DEF MaxError
  <2>4. 2 * (a - b) <= MaxError /\ 2 * (b - a) <= MaxError
    <3> HIDE DEF b
    <3> QED BY <1>1, <1>2, <1>4, <2>2, <2>3 DEF IsNearest
  <2> QED BY <1>4, <1>6, <2>1, <2>4
<1> QED BY <1>7, <1>8

LEMMA RoundType == ASSUME NEW x \in Int PROVE Round(x) \in Int
<1>1. Abs(x) \in Nat BY DEF Abs
<1>2. Ulp(Abs(x)) \in Nat BY <1>1, UlpGrows
<1>3. Nearest(Abs(x)) \in Nat BY <1>1, <1>2, NearestIsNear DEF IsNearest
<1> HIDE DEF Abs
<1> QED BY <1>3, FloatAssumption DEF Round, PosInf, NegInf

-----------------------------------------------------------------------------
(* The error of a running sum. *)

\* A sum after n roundings, next to the exact one; an overflow says nothing.
Near(sum, exact, n) ==
    /\ sum \in Int
    /\ IsFinite(sum) => 2 * Abs(sum - exact) <= n * MaxError

LEMMA NearMore ==
    ASSUME NEW s, NEW e \in Int, NEW n \in Nat, NEW m \in Nat, n <= m, Near(s, e, n)
    PROVE  Near(s, e, m)
<1>1. MaxError \in Nat BY MaxErrorIsNat
<1>2. (m - n) * MaxError >= 0 /\ (m - n) * MaxError = m * MaxError - n * MaxError
      /\ m * MaxError \in Int /\ n * MaxError \in Int
  BY <1>1
<1>3. Abs(s - e) \in Int BY DEF Near, Abs
<1> QED BY <1>2, <1>3 DEF Near

LEMMA NearAdd ==
    ASSUME NEW s, NEW e \in Int, NEW n \in Nat, NEW y \in Int, IsFinite(y), Near(s, e, n)
    PROVE  Near(Add(s, y), e + y, n + 1)
<1>1. MaxError \in Nat /\ Largest \in Nat BY MaxErrorIsNat, FloatAssumption
<1>2. s \in Int /\ y # NaN BY <1>1 DEF Near, IsFinite, Abs, NaN
<1>0. ~IsFinite(PosInf) /\ ~IsFinite(NegInf) BY <1>1 DEF IsFinite, Abs, PosInf, NegInf
<1>3. CASE IsFinite(s)
  <2>1. Add(s, y) = Round(s + y) BY <1>0, <1>3, Zenon DEF Add
  <2>2. s + y \in Int BY <1>2
  <2>3. Round(s + y) \in Int BY <2>2, RoundType
  <2>4. ASSUME IsFinite(Add(s, y)) PROVE 2 * Abs(Add(s, y) - (e + y)) <= (n + 1) * MaxError
    <3> DEFINE r == Round(s + y)
               M == MaxError
               N == n * M
    <3>1. r \in Int /\ 2 * (r - (s + y)) <= M /\ 2 * ((s + y) - r) <= M
      BY <2>1, <2>2, <2>4, RoundError
    <3>2. 2 * Abs(s - e) <= N BY <1>3 DEF Near
    <3>3. N \in Int /\ (n + 1) * M = N + M BY <1>1
    <3> HIDE DEF r, M, N
    <3>4. 2 * (s - e) <= N /\ 2 * (e - s) <= N BY <1>2, <3>2, <3>3 DEF Abs
    <3>5. 2 * (r - (e + y)) <= N + M /\ 2 * ((e + y) - r) <= N + M
      BY <1>1, <1>2, <3>1, <3>3, <3>4 DEF M
    <3>6. 2 * Abs(r - (e + y)) <= N + M BY <3>1, <3>5 DEF Abs
    <3> QED BY <2>1, <3>3, <3>6 DEF r, M
  <2> QED BY <2>1, <2>3, <2>4 DEF Near
<1>4. CASE ~IsFinite(s)
  <2>1. ~IsFinite(NaN) /\ NaN \in Int BY <1>1 DEF IsFinite, Abs, NaN
  <2>2. Add(s, y) = NaN \/ Add(s, y) = s BY <1>0, <1>4 DEF Add
  <2>3. Add(s, y) \in Int /\ ~IsFinite(Add(s, y)) BY <1>2, <1>4, <2>1, <2>2
  <2> QED BY <2>3 DEF Near
<1> QED BY <1>3, <1>4

LEMMA NearSub ==
    ASSUME NEW s, NEW e \in Int, NEW n \in Nat, NEW y \in Int, IsFinite(y), Near(s, e, n)
    PROVE  Near(Sub(s, y), e - y, n + 1)
<1>1. -y \in Int /\ IsFinite(-y) /\ y # NaN BY FloatAssumption DEF IsFinite, Abs, NaN
<1>2. Sub(s, y) = Add(s, -y) /\ e + (-y) = e - y BY <1>1 DEF Sub
<1>3. Near(Add(s, -y), e + (-y), n + 1) BY <1>1, NearAdd
<1> QED BY <1>2, <1>3
-----------------------------------------------------------------------------
(* Sums. *)

\* The sum of a sequence, as the fold has it.
Added(q) == FoldLeft(LAMBDA a, b : a + b, 0, q)

\* What the fold has after each member.
AreAdded(V, q, N) ==
    /\ V[0] = 0 /\ V[N] = Added(q)
    /\ \A k \in 0 .. N : V[k] \in Int
    /\ \A k \in 1 .. N : V[k] = V[k - 1] + q[k]

LEMMA AddedExist ==
    ASSUME NEW N \in Nat, NEW q, DOMAIN q = 1 .. N, \A i \in 1 .. N : q[i] \in Int
    PROVE  \E V : AreAdded(V, q, N)
<1> DEFINE Next1(g, s) == IF s = {} THEN 0 ELSE g[s \ {Max(s)}] + q[Max(s)]
           Upto(g, k) == g = [s \in SUBSET (1 .. k) |-> Next1(g, s)]
           S == {k \in Nat : \E g : Upto(g, k)}
<1>1. 0 \in S
  <2> DEFINE g == [s \in SUBSET (1 .. 0) |-> 0]
  <2>1. g = [s \in SUBSET (1 .. 0) |-> g[s]] OBVIOUS
  <2>2. \A s \in SUBSET (1 .. 0) : s = {} /\ g[s] = 0 OBVIOUS
  <2> HIDE DEF g
  <2>3. Upto(g, 0) BY <2>1, <2>2, Zenon
  <2> HIDE DEF Upto
  <2> QED BY <2>3
<1>2. \A k \in Nat : k \in S => k + 1 \in S
  <2> SUFFICES ASSUME NEW k \in Nat, k \in S PROVE k + 1 \in S
    OBVIOUS
  <2>1. PICK g : Upto(g, k) OBVIOUS
  <2> DEFINE h == [s \in SUBSET (1 .. k + 1) |->
                      IF k + 1 \in s THEN g[s \ {k + 1}] + q[k + 1] ELSE g[s]]
  <2>2. h = [s \in SUBSET (1 .. k + 1) |-> h[s]] OBVIOUS
  <2>3. \A s \in SUBSET (1 .. k) : s \in SUBSET (1 .. k + 1) /\ ~(k + 1 \in s) OBVIOUS
  <2>4. \A s \in SUBSET (1 .. k) : h[s] = g[s] BY <2>3
  <2>5. \A s \in SUBSET (1 .. k + 1) : k + 1 \in s => h[s] = g[s \ {k + 1}] + q[k + 1]
    OBVIOUS
  <2> HIDE DEF h
  <2>6. ASSUME NEW s \in SUBSET (1 .. k + 1) PROVE h[s] = Next1(h, s)
    <3>1. CASE k + 1 \in s
      <4>1. Max(s) \in s /\ \A y \in s : Max(s) >= y
        <5>1. k + 1 \in Nat /\ s # {} BY <3>1
        <5> QED BY <5>1, LargestOf
      <4>2. Max(s) = k + 1
        <5>1. Max(s) \in 1 .. k + 1 /\ Max(s) >= k + 1 BY <3>1, <4>1
        <5> QED BY <5>1
      <4>3. s \ {k + 1} \in SUBSET (1 .. k) OBVIOUS
      <4>4. h[s] = h[s \ {k + 1}] + q[k + 1] BY <2>4, <2>5, <3>1, <4>3
      <4>5. s # {} BY <3>1
      <4> QED BY <4>2, <4>4, <4>5
    <3>2. CASE ~(k + 1 \in s)
      <4>1. s \in SUBSET (1 .. k) BY <3>2
      <4>2. h[s] = g[s] /\ g[s] = Next1(g, s) BY <2>1, <2>4, <4>1
      <4>3. CASE s = {}
        BY <4>2, <4>3
      <4>4. CASE s # {}
        <5>1. s \ {Max(s)} \in SUBSET (1 .. k) BY <4>1
        <5>2. h[s \ {Max(s)}] = g[s \ {Max(s)}] BY <2>4, <5>1
        <5> QED BY <4>2, <4>4, <5>2
      <4> QED BY <4>3, <4>4
    <3> QED BY <3>1, <3>2
  <2>7. Upto(h, k + 1)
    <3> HIDE DEF Next1
    <3> QED BY <2>2, <2>6, Zenon
  <2>8. k + 1 \in Nat OBVIOUS
  <2> HIDE DEF Upto
  <2> QED BY <2>7, <2>8
<1> HIDE DEF S
<1>3. N \in S BY <1>1, <1>2, SetInduction
<1> DEFINE Is(g) == g = [s \in SUBSET DOMAIN q |-> Next1(g, s)]
           iter == CHOOSE g : Is(g)
<1>4. \E g : Is(g)
  <2>1. PICK g : Upto(g, N)
    <3> HIDE DEF Upto
    <3> QED BY <1>3 DEF S
  <2>2. Is(g)
    <3> HIDE DEF Next1
    <3>1. g = [s \in SUBSET (1 .. N) |-> Next1(g, s)] BY <2>1
    <3> QED BY <3>1
  <2> HIDE DEF Is
  <2> QED BY <2>2
<1>5. Is(iter)
  <2> HIDE DEF Is
  <2> QED BY <1>4
<1>6. Added(q) = iter[1 .. N]
  <2>1. Added(q) = (CHOOSE g : g = [s \in SUBSET DOMAIN q |->
                      IF s = {} THEN 0 ELSE g[s \ {Max(s)}] + q[Max(s)]])[DOMAIN q]
    BY DEF Added, FoldLeft, MapThenFoldSet
  <2> QED BY <2>1
<1> HIDE DEF iter
<1>7. \A s \in SUBSET (1 .. N) : iter[s] = Next1(iter, s)
  <2> HIDE DEF Next1
  <2> QED BY <1>5
<1> DEFINE V == [k \in 0 .. N |-> iter[1 .. k]]
<1>8. V[0] = 0 /\ V[N] = Added(q)
  <2>1. 1 .. 0 = {} /\ {} \in SUBSET (1 .. N) /\ 0 \in 0 .. N /\ N \in 0 .. N OBVIOUS
  <2>2. iter[{}] = 0 BY <1>7, <2>1
  <2> QED BY <1>6, <2>1, <2>2
<1>9. \A k \in 1 .. N : V[k] = V[k - 1] + q[k]
  <2> SUFFICES ASSUME NEW k \in 1 .. N PROVE V[k] = V[k - 1] + q[k]
    OBVIOUS
  <2>1. /\ 1 .. k \in SUBSET (1 .. N) /\ 1 .. k # {} /\ k \in 1 .. k
        /\ (1 .. k) \ {k} = 1 .. k - 1 /\ k \in 0 .. N /\ k - 1 \in 0 .. N
    OBVIOUS
  <2>2. Max(1 .. k) \in 1 .. k /\ \A y \in 1 .. k : Max(1 .. k) >= y
    <3>1. k \in Nat OBVIOUS
    <3> QED BY <2>1, <3>1, LargestOf
  <2>3. Max(1 .. k) = k BY <2>1, <2>2
  <2>4. iter[1 .. k] = iter[1 .. k - 1] + q[k] BY <1>7, <2>1, <2>3
  <2> QED BY <2>1, <2>4
<1> HIDE DEF V
<1>10. \A k \in Nat : k \in {j \in Nat : j <= N => V[j] \in Int}
  <2> DEFINE P == {j \in Nat : j <= N => V[j] \in Int}
  <2>1. 0 \in P BY <1>8
  <2>2. \A k \in Nat : k \in P => k + 1 \in P
    <3> SUFFICES ASSUME NEW k \in Nat, k <= N => V[k] \in Int, k + 1 <= N
                 PROVE  V[k + 1] \in Int
      OBVIOUS
    <3>1. k + 1 \in 1 .. N /\ (k + 1) - 1 = k /\ k <= N OBVIOUS
    <3>2. V[k] \in Int /\ V[k + 1] = V[k] + q[k + 1] BY <1>9, <3>1
    <3>3. q[k + 1] \in Int BY <3>1
    <3> QED BY <3>2, <3>3
  <2> HIDE DEF P
  <2>3. \A k \in Nat : k \in P BY <2>1, <2>2, SetInduction
  <2> QED BY <2>3 DEF P
<1>11. AreAdded(V, q, N)
  <2>1. \A k \in 0 .. N : V[k] \in Int BY <1>10
  <2> QED BY <1>8, <1>9, <2>1 DEF AreAdded
<1> QED BY <1>11

\* One more member adds itself to the sum.
LEMMA AddedGrows ==
    ASSUME NEW N \in Nat, NEW q, DOMAIN q = 1 .. N, \A i \in 1 .. N : q[i] \in Int,
           NEW r, DOMAIN r = 1 .. N + 1, \A i \in 1 .. N + 1 : r[i] \in Int,
           \A i \in 1 .. N : r[i] = q[i]
    PROVE  Added(q) \in Int /\ Added(r) = Added(q) + r[N + 1]
<1>1. PICK V : AreAdded(V, q, N) BY AddedExist
<1>2. PICK W : AreAdded(W, r, N + 1) BY AddedExist
<1> DEFINE P == {j \in Nat : j <= N => W[j] = V[j]}
<1>3. 0 \in P BY <1>1, <1>2 DEF AreAdded
<1>4. \A k \in Nat : k \in P => k + 1 \in P
  <2> SUFFICES ASSUME NEW k \in Nat, k \in P, k + 1 <= N
               PROVE  W[k + 1] = V[k + 1]
    OBVIOUS
  <2>1. k + 1 \in 1 .. N /\ k + 1 \in 1 .. N + 1 /\ (k + 1) - 1 = k OBVIOUS
  <2>2. V[k + 1] = V[k] + q[k + 1] /\ W[k + 1] = W[k] + r[k + 1]
    BY <1>1, <1>2, <2>1 DEF AreAdded
  <2>3. W[k] = V[k] OBVIOUS
  <2> QED BY <2>1, <2>2, <2>3
<1> HIDE DEF P
<1>5. N \in P BY <1>3, <1>4, SetInduction
<1>6. W[N] = V[N] BY <1>5 DEF P
<1>7. /\ V[N] \in Int /\ V[N] = Added(q) /\ W[N + 1] = Added(r)
      /\ W[N + 1] = W[(N + 1) - 1] + r[N + 1]
  <2>1. N \in 0 .. N /\ N + 1 \in 1 .. N + 1 OBVIOUS
  <2> QED BY <1>1, <1>2, <2>1 DEF AreAdded
<1>8. (N + 1) - 1 = N OBVIOUS
<1> QED BY <1>6, <1>7, <1>8

LEMMA AddedOfNone ==
    ASSUME NEW q, DOMAIN q = {}
    PROVE  Added(q) = 0
<1>1. 1 .. 0 = {} /\ 0 \in Nat OBVIOUS
<1>2. PICK V : AreAdded(V, q, 0) BY <1>1, AddedExist
<1> QED BY <1>2 DEF AreAdded

\* What the floating-point sum is after each member.
AreTotals(V, q, N) ==
    /\ V[0] = 0 /\ V[N] = Total(q)
    /\ \A k \in 1 .. N : V[k] = Add(V[k - 1], q[k])

LEMMA TotalsExist ==
    ASSUME NEW N \in Nat, NEW q, DOMAIN q = 1 .. N
    PROVE  \E V : AreTotals(V, q, N)
<1> DEFINE Next1(g, s) == IF s = {} THEN 0 ELSE Add(g[s \ {Max(s)}], q[Max(s)])
           Upto(g, k) == g = [s \in SUBSET (1 .. k) |-> Next1(g, s)]
           S == {k \in Nat : \E g : Upto(g, k)}
<1>1. 0 \in S
  <2> DEFINE g == [s \in SUBSET (1 .. 0) |-> 0]
  <2>1. g = [s \in SUBSET (1 .. 0) |-> g[s]] OBVIOUS
  <2>2. \A s \in SUBSET (1 .. 0) : s = {} /\ g[s] = 0 OBVIOUS
  <2> HIDE DEF g
  <2>3. Upto(g, 0) BY <2>1, <2>2, Zenon
  <2> HIDE DEF Upto
  <2> QED BY <2>3
<1>2. \A k \in Nat : k \in S => k + 1 \in S
  <2> SUFFICES ASSUME NEW k \in Nat, k \in S PROVE k + 1 \in S
    OBVIOUS
  <2>1. PICK g : Upto(g, k) OBVIOUS
  <2> DEFINE h == [s \in SUBSET (1 .. k + 1) |->
                      IF k + 1 \in s THEN Add(g[s \ {k + 1}], q[k + 1]) ELSE g[s]]
  <2>2. h = [s \in SUBSET (1 .. k + 1) |-> h[s]] OBVIOUS
  <2>3. \A s \in SUBSET (1 .. k) : s \in SUBSET (1 .. k + 1) /\ ~(k + 1 \in s) OBVIOUS
  <2>4. \A s \in SUBSET (1 .. k) : h[s] = g[s] BY <2>3
  <2>5. \A s \in SUBSET (1 .. k + 1) : k + 1 \in s => h[s] = Add(g[s \ {k + 1}], q[k + 1])
    OBVIOUS
  <2> HIDE DEF h
  <2>6. ASSUME NEW s \in SUBSET (1 .. k + 1) PROVE h[s] = Next1(h, s)
    <3>1. CASE k + 1 \in s
      <4>1. Max(s) \in s /\ \A y \in s : Max(s) >= y
        <5>1. k + 1 \in Nat /\ s # {} BY <3>1
        <5> QED BY <5>1, LargestOf
      <4>2. Max(s) = k + 1
        <5>1. Max(s) \in 1 .. k + 1 /\ Max(s) >= k + 1 BY <3>1, <4>1
        <5> QED BY <5>1
      <4>3. s \ {k + 1} \in SUBSET (1 .. k) OBVIOUS
      <4>4. h[s] = Add(h[s \ {k + 1}], q[k + 1]) BY <2>4, <2>5, <3>1, <4>3
      <4>5. s # {} BY <3>1
      <4> QED BY <4>2, <4>4, <4>5
    <3>2. CASE ~(k + 1 \in s)
      <4>1. s \in SUBSET (1 .. k) BY <3>2
      <4>2. h[s] = g[s] /\ g[s] = Next1(g, s) BY <2>1, <2>4, <4>1
      <4>3. CASE s = {}
        BY <4>2, <4>3
      <4>4. CASE s # {}
        <5>1. s \ {Max(s)} \in SUBSET (1 .. k) BY <4>1
        <5>2. h[s \ {Max(s)}] = g[s \ {Max(s)}] BY <2>4, <5>1
        <5> QED BY <4>2, <4>4, <5>2
      <4> QED BY <4>3, <4>4
    <3> QED BY <3>1, <3>2
  <2>7. Upto(h, k + 1)
    <3> HIDE DEF Next1
    <3> QED BY <2>2, <2>6, Zenon
  <2>8. k + 1 \in Nat OBVIOUS
  <2> HIDE DEF Upto
  <2> QED BY <2>7, <2>8
<1> HIDE DEF S
<1>3. N \in S BY <1>1, <1>2, SetInduction
<1> DEFINE Is(g) == g = [s \in SUBSET DOMAIN q |-> Next1(g, s)]
           iter == CHOOSE g : Is(g)
<1>4. \E g : Is(g)
  <2>1. PICK g : Upto(g, N)
    <3> HIDE DEF Upto
    <3> QED BY <1>3 DEF S
  <2>2. Is(g)
    <3> HIDE DEF Next1
    <3>1. g = [s \in SUBSET (1 .. N) |-> Next1(g, s)] BY <2>1
    <3> QED BY <3>1
  <2> HIDE DEF Is
  <2> QED BY <2>2
<1>5. Is(iter)
  <2> HIDE DEF Is
  <2> QED BY <1>4
<1>6. Total(q) = iter[1 .. N]
  <2>1. Total(q) = (CHOOSE g : g = [s \in SUBSET DOMAIN q |->
                      IF s = {} THEN 0 ELSE Add(g[s \ {Max(s)}], q[Max(s)])])[DOMAIN q]
    BY DEF Total, FoldLeft, MapThenFoldSet
  <2> QED BY <2>1
<1> HIDE DEF iter
<1>7. \A s \in SUBSET (1 .. N) : iter[s] = Next1(iter, s)
  <2> HIDE DEF Next1
  <2> QED BY <1>5
<1> DEFINE V == [k \in 0 .. N |-> iter[1 .. k]]
<1>8. V[0] = 0 /\ V[N] = Total(q)
  <2>1. 1 .. 0 = {} /\ {} \in SUBSET (1 .. N) /\ 0 \in 0 .. N /\ N \in 0 .. N OBVIOUS
  <2>2. iter[{}] = 0 BY <1>7, <2>1
  <2> QED BY <1>6, <2>1, <2>2
<1>9. \A k \in 1 .. N : V[k] = Add(V[k - 1], q[k])
  <2> SUFFICES ASSUME NEW k \in 1 .. N PROVE V[k] = Add(V[k - 1], q[k])
    OBVIOUS
  <2>1. /\ 1 .. k \in SUBSET (1 .. N) /\ 1 .. k # {} /\ k \in 1 .. k
        /\ (1 .. k) \ {k} = 1 .. k - 1 /\ k \in 0 .. N /\ k - 1 \in 0 .. N
    OBVIOUS
  <2>2. Max(1 .. k) \in 1 .. k /\ \A y \in 1 .. k : Max(1 .. k) >= y
    <3>1. k \in Nat OBVIOUS
    <3> QED BY <2>1, <3>1, LargestOf
  <2>3. Max(1 .. k) = k BY <2>1, <2>2
  <2>4. iter[1 .. k] = Add(iter[1 .. k - 1], q[k]) BY <1>7, <2>1, <2>3
  <2> QED BY <2>1, <2>4
<1> HIDE DEF V
<1>10. AreTotals(V, q, N) BY <1>8, <1>9 DEF AreTotals
<1> QED BY <1>10

\* The first member leaves the sum, another enters it.
LEMMA AddedSlides ==
    ASSUME NEW N \in Nat \ {0}, NEW q, DOMAIN q = 1 .. N, \A i \in 1 .. N : q[i] \in Int,
           NEW r, DOMAIN r = 1 .. N, \A i \in 1 .. N : r[i] \in Int,
           \A i \in 1 .. N - 1 : r[i] = q[i + 1]
    PROVE  Added(q) \in Int /\ Added(r) = Added(q) - q[1] + r[N]
<1>1. PICK V : AreAdded(V, q, N) BY AddedExist
<1>2. PICK W : AreAdded(W, r, N) BY AddedExist
<1> DEFINE P == {j \in Nat : j <= N - 1 => W[j] = V[j + 1] - q[1]}
<1>3. 0 \in P
  <2>1. 1 \in 1 .. N /\ 1 - 1 = 0 /\ 0 + 1 = 1 /\ 0 \in 0 .. N OBVIOUS
  <2>2. V[1] = V[0] + q[1] /\ V[0] = 0 /\ W[0] = 0 /\ q[1] \in Int
    BY <1>1, <1>2, <2>1 DEF AreAdded
  <2>3. W[0] = V[0 + 1] - q[1] BY <2>1, <2>2
  <2> QED BY <2>3
<1>4. \A k \in Nat : k \in P => k + 1 \in P
  <2> SUFFICES ASSUME NEW k \in Nat, k <= N - 1 => W[k] = V[k + 1] - q[1], k + 1 <= N - 1
               PROVE  W[k + 1] = V[(k + 1) + 1] - q[1]
    OBVIOUS
  <2>1. /\ k + 1 \in 1 .. N /\ (k + 1) - 1 = k /\ k + 1 \in 1 .. N - 1 /\ k + 1 \in 0 .. N
        /\ (k + 1) + 1 \in 1 .. N /\ ((k + 1) + 1) - 1 = k + 1 /\ 1 \in 1 .. N
    OBVIOUS
  <2>2. W[k + 1] = W[k] + r[k + 1] BY <1>2, <2>1 DEF AreAdded
  <2>3. V[(k + 1) + 1] = V[k + 1] + q[(k + 1) + 1] BY <1>1, <2>1 DEF AreAdded
  <2>4. r[k + 1] = q[(k + 1) + 1] /\ q[(k + 1) + 1] \in Int /\ q[1] \in Int /\ V[k + 1] \in Int
    BY <1>1, <2>1 DEF AreAdded
  <2>5. W[k] = V[k + 1] - q[1] OBVIOUS
  <2> DEFINE a == V[k + 1]
             b == q[(k + 1) + 1]
             d == q[1]
             z == V[(k + 1) + 1]
  <2>6. W[k + 1] = (a - d) + b /\ z = a + b /\ a \in Int /\ b \in Int /\ d \in Int
    BY <2>2, <2>3, <2>4, <2>5
  <2> HIDE DEF a, b, d, z
  <2>7. W[k + 1] = z - d BY <2>6
  <2> QED BY <2>7 DEF z, d
<1> HIDE DEF P
<1>5. N - 1 \in Nat OBVIOUS
<1>6. N - 1 \in P BY <1>3, <1>4, <1>5, SetInduction
<1>7. (N - 1) + 1 = N /\ N \in 1 .. N /\ N \in 0 .. N /\ 1 \in 1 .. N OBVIOUS
<1>8. W[N - 1] = V[N] - q[1] BY <1>5, <1>6, <1>7 DEF P
<1>9. W[N] = W[N - 1] + r[N] BY <1>2, <1>7 DEF AreAdded
<1>10. V[N] \in Int /\ V[N] = Added(q) /\ W[N] = Added(r) BY <1>1, <1>2, <1>7 DEF AreAdded
<1> QED BY <1>8, <1>9, <1>10

\* Taken from the members themselves, the sum has as many roundings as they are.
LEMMA TotalIsNear ==
    ASSUME NEW N \in Nat, NEW q, DOMAIN q = 1 .. N,
           \A i \in 1 .. N : q[i] \in Int /\ IsFinite(q[i])
    PROVE  Added(q) \in Int /\ Near(Total(q), Added(q), N)
<1>1. PICK V : AreAdded(V, q, N) BY AddedExist
<1>2. PICK T : AreTotals(T, q, N) BY TotalsExist
<1> DEFINE P == {j \in Nat : j <= N => Near(T[j], V[j], j)}
<1>3. 0 \in P
  <2>1. MaxError \in Nat BY MaxErrorIsNat
  <2>2. T[0] = 0 /\ V[0] = 0 BY <1>1, <1>2 DEF AreAdded, AreTotals
  <2>3. Near(0, 0, 0) BY <2>1 DEF Near, Abs
  <2> QED BY <2>2, <2>3
<1>4. \A k \in Nat : k \in P => k + 1 \in P
  <2> SUFFICES ASSUME NEW k \in Nat, k <= N => Near(T[k], V[k], k), k + 1 <= N
               PROVE  Near(T[k + 1], V[k + 1], k + 1)
    OBVIOUS
  <2>1. k + 1 \in 1 .. N /\ (k + 1) - 1 = k /\ k \in 0 .. N /\ k <= N OBVIOUS
  <2>2. V[k + 1] = V[k] + q[k + 1] /\ V[k] \in Int BY <1>1, <2>1 DEF AreAdded
  <2>3. T[k + 1] = Add(T[k], q[k + 1]) BY <1>2, <2>1 DEF AreTotals
  <2>4. Near(Add(T[k], q[k + 1]), V[k] + q[k + 1], k + 1) BY <2>1, <2>2, NearAdd
  <2> QED BY <2>2, <2>3, <2>4
<1> HIDE DEF P
<1>5. N \in P BY <1>3, <1>4, SetInduction
<1>6. Near(T[N], V[N], N) BY <1>5 DEF P
<1>7. T[N] = Total(q) /\ V[N] = Added(q) /\ N \in 0 .. N /\ V[N] \in Int
  BY <1>1, <1>2 DEF AreAdded, AreTotals
<1> QED BY <1>6, <1>7

-----------------------------------------------------------------------------
(* The drift. *)

\* While the window fills, every input in it came since the sum was last cleared:
\* no reseed is due before the window is full.
Filling(s) == s.count < Period => s.since = s.count

LEMMA StoredAreNumbers == \A v \in Stored : v \in Int /\ IsFinite(v)
  BY InputAssumption, FloatAssumption DEF Stored, IsFinite, Abs

\* The window as a sum sees it.
IsNumbers(w, n) == /\ w \in Seq(Stored) /\ Len(w) = n /\ DOMAIN w = 1 .. n
                   /\ \A i \in 1 .. n : w[i] \in Int /\ IsFinite(w[i])

LEMMA WindowIsNumbers ==
    ASSUME NEW s, Shape(s)
    PROVE  s.count \in Nat /\ IsNumbers(WindowOf(s), s.count)
<1>1. /\ WindowOf(s) \in Seq(Stored) /\ Len(WindowOf(s)) = s.count
      /\ DOMAIN WindowOf(s) = 1 .. s.count
  BY WindowType
<1>2. s.count \in Nat BY InputAssumption DEF Shape
<1> HIDE DEF WindowOf
<1>3. \A i \in 1 .. s.count : WindowOf(s)[i] \in Stored BY <1>1, <1>2
<1> QED BY <1>1, <1>2, <1>3, StoredAreNumbers DEF IsNumbers

LEMMA OldestAtCursor ==
    ASSUME NEW s, Shape(s), s.count = Period
    PROVE  WindowOf(s)[1] = s.buf[s.head]
<1>1. s.period = Period /\ s.head \in 0 .. Period - 1 /\ Period \in Nat \ {0}
  BY InputAssumption DEF Shape, Fields
<1>2. 1 \in 1 .. Period /\ s.head + 1 - 1 = s.head /\ s.head < Period BY <1>1
<1> QED BY <1>1, <1>2 DEF WindowOf, Ring

\* One input: at most two roundings more, whatever the sum is that it is added to.
LEMMA InputIsNear ==
    ASSUME NEW s, Shape(s), NEW x \in Values, NEW sum, NEW n \in Nat,
           Near(sum, Added(WindowOf(s)), n)
    PROVE  Near(Add(IF s.count = Period THEN Sub(sum, s.buf[s.head]) ELSE sum, x),
                Added(WindowOf(Updated(s, x))), n + 2)
<1> DEFINE w == WindowOf(s)
           v == WindowOf(Updated(s, x))
           c == s.count
<1>1. c \in Nat /\ IsNumbers(w, c) /\ c <= Period /\ Period \in Nat \ {0}
  BY WindowIsNumbers, InputAssumption DEF Shape
<1>2. v = IF Len(w) < Period THEN Append(w, x) ELSE Append(Tail(w), x) BY WindowSlides
<1>3. x \in Stored /\ x \in Int /\ IsFinite(x) BY InputAssumption DEF Stored
<1>4. c = Period => w[1] = s.buf[s.head] BY OldestAtCursor
<1> HIDE DEF w, v, c
<1>5. CASE c < Period
  <2>1. v = Append(w, x) /\ Len(w) = c /\ w \in Seq(Stored)
    BY <1>1, <1>2, <1>5 DEF IsNumbers
  <2>2. v \in Seq(Stored) /\ Len(v) = c + 1 /\ \A i \in 1 .. c : v[i] = w[i]
    BY <1>1, <1>3, <2>1
  <2>3. v[c + 1] = x BY <1>1, <1>3, <2>1
  <2>4. DOMAIN v = 1 .. c + 1 /\ c + 1 \in Nat BY <1>1, <2>2
  <2>5. \A i \in 1 .. c + 1 : v[i] \in Int
    <3>1. \A i \in 1 .. c + 1 : v[i] \in Stored BY <2>2, <2>4
    <3> QED BY <3>1, StoredAreNumbers
  <2>6. Added(w) \in Int /\ Added(v) = Added(w) + x
    <3>1. Added(w) \in Int /\ Added(v) = Added(w) + v[c + 1]
      BY <1>1, <2>2, <2>4, <2>5, AddedGrows DEF IsNumbers
    <3> QED BY <2>3, <3>1
  <2>7. Near(sum, Added(w), n) BY DEF w
  <2>8. Near(Add(sum, x), Added(w) + x, n + 1) BY <1>3, <2>6, <2>7, NearAdd
  <2>9. n + 1 \in Nat /\ n + 2 \in Nat /\ n + 1 <= n + 2 /\ Added(w) + x \in Int
    BY <1>3, <2>6
  <2>10. Near(Add(sum, x), Added(w) + x, n + 2) BY <2>8, <2>9, NearMore
  <2>11. c # Period BY <1>1, <1>5
  <2> QED BY <2>6, <2>10, <2>11 DEF c, v
<1>6. CASE ~(c < Period)
  <2>1. c = Period BY <1>1, <1>6
  <2>2. v = Append(Tail(w), x) /\ Len(w) = Period /\ w \in Seq(Stored) /\ w # <<>>
    BY <1>1, <1>2, <2>1 DEF IsNumbers
  <2>3. /\ Tail(w) \in Seq(Stored) /\ Len(Tail(w)) = Period - 1
        /\ \A i \in 1 .. Period - 1 : Tail(w)[i] = w[i + 1]
    BY <1>1, <2>2
  <2> DEFINE tail == Tail(w)
  <2>4. v = Append(tail, x) /\ tail \in Seq(Stored) /\ Len(tail) = Period - 1 BY <2>2, <2>3
  <2> HIDE DEF tail
  <2>5. v \in Seq(Stored) /\ Len(v) = Period /\ v[Period] = x
        /\ \A i \in 1 .. Period - 1 : v[i] = tail[i]
    BY <1>1, <1>3, <2>4
  <2>6. \A i \in 1 .. Period - 1 : v[i] = w[i + 1] BY <2>3, <2>5 DEF tail
  <2>7. DOMAIN v = 1 .. Period BY <1>1, <2>5
  <2>8. \A i \in 1 .. Period : v[i] \in Int
    <3>1. \A i \in 1 .. Period : v[i] \in Stored BY <2>5, <2>7
    <3> QED BY <3>1, StoredAreNumbers
  <2>9. DOMAIN w = 1 .. Period /\ (\A i \in 1 .. Period : w[i] \in Int /\ IsFinite(w[i]))
        /\ 1 \in 1 .. Period
    BY <1>1, <2>1 DEF IsNumbers
  <2>10. Added(w) \in Int /\ Added(v) = Added(w) - w[1] + v[Period]
    BY <1>1, <2>6, <2>7, <2>8, <2>9, AddedSlides
  <2> DEFINE b == s.buf[s.head]
  <2>11. b = w[1] /\ b \in Int /\ IsFinite(b) BY <1>4, <2>1, <2>9
  <2> HIDE DEF b
  <2>12. Near(sum, Added(w), n) BY DEF w
  <2>13. Near(Sub(sum, b), Added(w) - b, n + 1) BY <2>10, <2>11, <2>12, NearSub
  <2>14. n + 1 \in Nat /\ Added(w) - b \in Int /\ (n + 1) + 1 = n + 2 BY <2>10, <2>11
  <2>15. Near(Add(Sub(sum, b), x), (Added(w) - b) + x, (n + 1) + 1)
    BY <1>3, <2>13, <2>14, NearAdd
  <2>16. Added(v) = (Added(w) - b) + x BY <2>5, <2>10, <2>11
  <2>17. Near(Add(Sub(sum, b), x), Added(v), n + 2) BY <2>14, <2>15, <2>16
  <2> QED BY <2>1, <2>17 DEF b, c, v
<1> QED BY <1>5, <1>6

\* A sum taken from a full window.
LEMMA SeededIsNear ==
    ASSUME NEW s, Shape(s), s.count = Period
    PROVE  Near(Total(WindowOf(s)), Added(WindowOf(s)), Period)
<1>1. s.count \in Nat /\ IsNumbers(WindowOf(s), s.count) BY WindowIsNumbers
<1> QED BY <1>1, TotalIsNear DEF IsNumbers

\* The drift of an indicator between two calls.
Drifted(s) == Near(s.sum, Added(WindowOf(s)), 2 * s.since + Period)

LEMMA UpdateDrifts ==
    ASSUME NEW s, Shape(s), Filling(s), NEW x \in Values, Drifted(s)
    PROVE  Filling(Updated(s, x)) /\ Drifted(Updated(s, x))
<1> DEFINE t == Updated(s, x)
           buf == [s.buf EXCEPT ![s.head] = x]
           head == IF s.head + 1 = Period THEN 0 ELSE s.head + 1
           count == IF s.count = Period THEN Period ELSE s.count + 1
           sum == Add(IF s.count = Period THEN Sub(s.sum, s.buf[s.head]) ELSE s.sum, x)
           e == Fields(buf, head, count, sum, s.since + 1)
<1>1. t = Reseed(e, head) BY UpdatedFields
<1>2. /\ Period \in Nat \ {0} /\ s.since \in Nat /\ s.since < Cap /\ Period <= Cap
      /\ s.count \in 0 .. Period /\ Cap \in Nat
  BY InputAssumption, CapIsPositive DEF Shape, Cap
<1>3. Shape(t) BY InputAssumption, UpdatedShape
<1>4. Near(sum, Added(WindowOf(t)), (2 * s.since + Period) + 2)
  <2>1. 2 * s.since + Period \in Nat BY <1>2
  <2> QED BY <2>1, InputIsNear DEF Drifted
<1>5. count < Period => s.since + 1 = count BY <1>2 DEF Filling
<1> HIDE DEF t, buf, head, sum, count
<1>6. CASE s.since + 1 < Cap
  <2>1. t = e BY <1>1, <1>6, ReseedFields
  <2>2. t.sum = sum /\ t.since = s.since + 1 /\ t.count = count BY <2>1 DEF Fields
  <2>3. 2 * (s.since + 1) + Period = (2 * s.since + Period) + 2 BY <1>2
  <2>4. Near(t.sum, Added(WindowOf(t)), 2 * t.since + Period) BY <1>4, <2>2, <2>3
  <2> QED BY <1>5, <2>2, <2>4 DEF Filling, Drifted, t
<1>7. CASE ~(s.since + 1 < Cap)
  <2>1. t = Fields(buf, head, count, Total(Ring(e, head)), 0) BY <1>1, <1>7, ReseedFields
  <2>2. /\ t.sum = Total(Ring(e, head)) /\ t.since = 0 /\ t.count = count
        /\ t.period = Period /\ t.head = head /\ t.buf = buf
        /\ e.period = Period /\ e.buf = buf
    BY <2>1 DEF Fields
  <2>3. count = Period BY <1>2, <1>5, <1>7 DEF count
  <2>4. WindowOf(t) = Ring(t, head) BY <2>2, <2>3 DEF WindowOf
  <2>5. Ring(t, head) = Ring(e, head) BY <2>2 DEF Ring
  <2>6. Near(Total(WindowOf(t)), Added(WindowOf(t)), Period)
    BY <1>3, <2>2, <2>3, SeededIsNear
  <2>7. t.sum = Total(WindowOf(t)) BY <2>2, <2>4, <2>5
  <2>8. 2 * t.since + Period = Period BY <1>2, <2>2
  <2>9. Drifted(t) BY <2>6, <2>7, <2>8 DEF Drifted
  <2> QED BY <1>2, <2>2, <2>3, <2>9 DEF Filling, t
<1> QED BY <1>6, <1>7

\* The drift, within a lap or between two calls.
Drifting ==
    /\ pos \in Nat
    /\ mode = "streaming" => pos = 0 /\ Filling(sma)
    /\ Near(sma.sum, Added(Contents), Roundings)

LEMMA StreamedDrift ==
    ASSUME IInv, mode = "streaming", pos = 0
    PROVE  Near(sma.sum, Added(Contents), Roundings) <=> Drifted(sma)
<1>1. Contents = WindowOf(sma) /\ sma.since \in Nat
  BY ContentsAreReplays DEF InTouch, IInv, BetweenCalls, Shape
<1>2. Roundings = 2 * sma.since + Period BY <1>1, InputAssumption DEF Roundings
<1> QED BY <1>1, <1>2 DEF Drifted

LEMMA EmptyDrifts ==
    ASSUME NEW s, s.sum = 0, s.count = 0, s.since = 0
    PROVE  Filling(s) /\ Drifted(s)
<1>1. WindowOf(s) = <<>> /\ DOMAIN <<>> = {} BY EmptyWindow
<1>2. Added(WindowOf(s)) = 0 BY <1>1, AddedOfNone
<1>3. MaxError \in Nat /\ 2 * s.since + Period = Period /\ Period \in Nat
  BY MaxErrorIsNat, InputAssumption
<1>4. Period * MaxError \in Nat /\ Abs(0 - 0) = 0 BY <1>3 DEF Abs
<1>5. Near(0, 0, Period) BY <1>4 DEF Near
<1> QED BY <1>2, <1>3, <1>5 DEF Filling, Drifted

\* A state between two calls in which the indicator has no more than its drift.
LEMMA DriftsBetween ==
    IInv' /\ (mode = "streaming" /\ pos = 0)' /\ Filling(sma)' /\ Drifted(sma)' => Drifting'
<1>1. IInv /\ (mode = "streaming" /\ pos = 0) /\ Filling(sma) /\ Drifted(sma) => Drifting
  BY StreamedDrift DEF Drifting
<1> QED BY <1>1, PTL

LEMMA DriftingNext ==
    ASSUME IInv, IInv', Drifting, [Next]_smaVars
    PROVE  Drifting'
<1>1. Contents = WindowOf(replay) /\ Contents' = WindowOf(replay')
  BY ContentsAreReplays, ContentsAreReplaysNext DEF InTouch
<1>2. ASSUME NEW x \in Values \cup {PosInf, NaN}, Update(x) PROVE Drifting'
  <2>1. /\ mode = "streaming" /\ mode' = "streaming" /\ pos = 0 /\ pos' = 0
        /\ sma' = Updated(sma, x) /\ Shape(sma) /\ Filling(sma)
    BY <1>2 DEF Update, batchVars, IInv, BetweenCalls, Drifting
  <2>2. Drifted(sma) BY <2>1, StreamedDrift DEF Drifting
  <2>3. Filling(Updated(sma, x)) /\ Drifted(Updated(sma, x))
    <3>1. CASE x \in Values
      BY <2>1, <2>2, <3>1, UpdateDrifts
    <3>2. CASE x \notin Values
      <4>1. ~IsFinite(x) BY <3>2, FloatAssumption DEF IsFinite, Abs, PosInf, NaN
      <4>2. Updated(sma, x) = sma BY <4>1 DEF Updated
      <4> QED BY <2>1, <2>2, <4>2
    <3> QED BY <3>1, <3>2
  <2>4. Filling(sma)' /\ Drifted(sma)' BY <2>1, <2>3 DEF Filling, Drifted, WindowOf, Ring
  <2> QED BY <2>1, <2>4, DriftsBetween
<1>3. ASSUME Reset PROVE Drifting'
  <2>1. mode' = "streaming" /\ pos' = 0 /\ sma' = Clear(sma) /\ Shape(sma)
    BY <1>3 DEF Reset, batchVars, IInv, BetweenCalls, Drifting
  <2>2. sma'.sum = 0 /\ sma'.count = 0 /\ sma'.since = 0
    BY <2>1, ClearFields DEF Shape, Fields
  <2>3. Filling(sma') /\ Drifted(sma') BY <2>2, EmptyDrifts
  <2>4. Filling(sma)' /\ Drifted(sma)' BY <2>3 DEF Filling, Drifted, WindowOf, Ring
  <2> QED BY <2>1, <2>4, DriftsBetween
<1>4. ASSUME BatchStart PROVE Drifting'
  <2>1. /\ pos = 0 /\ pos' = 0 /\ mode' = "batch" /\ sma' = sma /\ replay' = replay
    BY <1>4 DEF BatchStart, Drifting
  <2>2. Contents' = Contents /\ Roundings' = Roundings BY <1>1, <2>1 DEF Roundings
  <2> QED BY <2>1, <2>2 DEF Drifting, Near
<1>5. ASSUME NEW x \in Values, BatchInput(x) PROVE Drifting'
  <2>1. /\ InLap /\ pos < Period /\ pos' = pos + 1 /\ mode' = "batch"
        /\ replay' = Updated(replay, x) /\ pos \in Nat
    BY <1>5 DEF BatchInput, Replay, IInv, Drifting
  <2>2. /\ replay.buf = sma.buf /\ replay.head = pos /\ replay.count = sma.count
        /\ sma.count = IF lap = "first" THEN pos ELSE Period
    BY <2>1 DEF InLap, Fields
  <2>3. replay.count = Period <=> lap # "first" BY <2>1, <2>2, InputAssumption
  <2>4. Shape(replay) BY <2>1, ReplayShape
  <2>5. sma.since \in Nat /\ Period \in Nat BY <2>1, LapRoom, InputAssumption
  <2>6. Roundings \in Nat BY <2>1, <2>5 DEF Roundings
  <2>7. Near(sma.sum, Added(WindowOf(replay)), Roundings) BY <1>1 DEF Drifting
  <2>8. Near(Add(IF replay.count = Period THEN Sub(sma.sum, replay.buf[replay.head])
                 ELSE sma.sum, x),
             Added(WindowOf(Updated(replay, x))), Roundings + 2)
    BY <2>4, <2>6, <2>7, InputIsNear
  <2>9. /\ sma'.since = sma.since
        /\ sma'.sum = Add(IF lap = "first" THEN sma.sum ELSE Sub(sma.sum, sma.buf[pos]), x)
    BY <1>5, <2>1, InputFields DEF Fields
  <2>10. sma'.sum = Add(IF replay.count = Period THEN Sub(sma.sum, replay.buf[replay.head])
                        ELSE sma.sum, x)
    BY <2>2, <2>3, <2>9
  <2>11. Roundings' = Roundings + 2 /\ pos' \in Nat BY <2>1, <2>5, <2>9 DEF Roundings
  <2>12. Near(sma'.sum, Added(Contents'), Roundings') BY <1>1, <2>1, <2>8, <2>10, <2>11
  <2> QED BY <2>1, <2>11, <2>12 DEF Drifting, Near
<1>6. ASSUME LapOver PROVE Drifting'
  <2> DEFINE e == Fields(sma.buf, 0, Period, sma.sum, sma.since + Period)
  <2>1. /\ InLap /\ pos = Period /\ pos' = 0 /\ mode' = "batch" /\ replay' = replay
        /\ sma.count = Period /\ sma.since \in Nat /\ Period \in Nat
    <3>1. InLap /\ pos = Period BY <1>6 DEF LapOver, IInv
    <3> QED BY <1>6, <3>1, LapRoom, InputAssumption DEF LapOver, InLap
  <2>2. sma' = Reseed(e, 0) /\ replay = Reseed(e, 0)
    BY <1>6, <2>1, LapDoneFields DEF LapOver, InLap
  <2>3. Contents' = Contents BY <1>1, <2>1
  <2>4. CASE sma.since + Period < Cap
    <3>1. sma' = e BY <2>2, <2>4, ReseedFields
    <3>2. sma'.sum = sma.sum /\ sma'.since = sma.since + Period BY <3>1 DEF Fields
    <3>3. Roundings' = Roundings BY <2>1, <3>2 DEF Roundings
    <3> QED BY <2>1, <2>3, <3>2, <3>3 DEF Drifting, Near
  <2>5. CASE ~(sma.since + Period < Cap)
    <3>1. /\ sma' = Fields(sma.buf, 0, Period, Total(Ring(e, 0)), 0)
          /\ replay = Fields(sma.buf, 0, Period, Total(Ring(e, 0)), 0)
      BY <2>2, <2>5, ReseedFields
    <3>2. /\ sma'.sum = Total(Ring(e, 0)) /\ sma'.since = 0
          /\ replay.count = Period /\ replay.head = 0 /\ replay.buf = sma.buf
          /\ replay.period = Period /\ e.period = Period /\ e.buf = sma.buf
      BY <3>1 DEF Fields
    <3>3. WindowOf(replay) = Ring(replay, 0) /\ Ring(replay, 0) = Ring(e, 0)
      BY <3>2 DEF WindowOf, Ring
    <3>4. Shape(replay)
      <4>1. 0 < Cap /\ 0 \in 0 .. Period - 1 /\ Period \in 0 .. Period
        BY CapIsPositive, InputAssumption
      <4>2. sma.buf \in [0 .. Period - 1 -> Values \cup {0}] BY <2>1 DEF InLap
      <4> HIDE DEF e
      <4> QED BY <3>1, <4>1, <4>2 DEF Shape, Fields, Cap
    <3>5. Near(Total(WindowOf(replay)), Added(WindowOf(replay)), Period)
      BY <3>2, <3>4, SeededIsNear
    <3>6. Roundings' = Period BY <2>1, <3>2 DEF Roundings
    <3>7. Near(sma'.sum, Added(Contents'), Roundings') BY <1>1, <2>1, <3>2, <3>3, <3>5, <3>6
    <3> QED BY <2>1, <3>7 DEF Drifting, Near
  <2> QED BY <2>4, <2>5
<1>7. ASSUME BatchEnd PROVE Drifting'
  <2>1. /\ InLap /\ pos < Period /\ pos \in Nat /\ pos' = 0 /\ mode' = "streaming"
        /\ replay' = replay
    BY <1>7 DEF BatchEnd, IInv, Drifting
  <2>2. sma' = replay BY <2>1 DEF IInv, BetweenCalls
  <2>3. /\ replay.sum = sma.sum /\ replay.since = sma.since + pos
        /\ replay.count = IF lap = "first" THEN pos ELSE Period
        /\ lap = "first" => sma.since = 0
    BY <2>1 DEF InLap, Fields
  <2>4. Filling(replay)
    <3>1. CASE lap = "first"
      <4>1. replay.since = pos /\ replay.count = pos BY <2>1, <2>3, <3>1
      <4> QED BY <4>1 DEF Filling
    <3>2. CASE lap # "first"
      <4>1. ~(replay.count < Period) BY <2>3, <3>2, InputAssumption
      <4> QED BY <4>1 DEF Filling
    <3> QED BY <3>1, <3>2
  <2>5. sma.since \in Nat BY <2>1, LapRoom
  <2>6. Drifted(replay)
    <3>1. Roundings = 2 * replay.since + Period BY <2>3 DEF Roundings
    <3> QED BY <1>1, <2>3, <3>1 DEF Drifted, Drifting
  <2>7. Filling(sma)' /\ Drifted(sma)'
    BY <2>2, <2>4, <2>6 DEF Filling, Drifted, WindowOf, Ring
  <2> QED BY <2>1, <2>7, DriftsBetween
<1>8. ASSUME FastBatch PROVE Drifting'
  <2>1. PICK buf \in [0 .. Period - 1 -> Values], head \in 0 .. Period - 1 :
             LET s == Fields(buf, head, Period, 0, 0)
             IN  sma' = [s EXCEPT !.sum = Total(Ring(s, head))]
    BY <1>8, FastLeavesRing
  <2> DEFINE s == Fields(buf, head, Period, 0, 0)
  <2>2. sma' = [s EXCEPT !.sum = Total(Ring(s, head))] BY <2>1
  <2>3. /\ sma'.sum = Total(Ring(s, head)) /\ sma'.since = 0 /\ sma'.count = Period
        /\ sma'.head = head /\ sma'.buf = buf /\ sma'.period = Period
        /\ s.buf = buf /\ s.period = Period
    BY <2>2 DEF Fields
  <2> HIDE DEF s
  <2>4. /\ mode = "streaming" /\ mode' = "streaming" /\ pos = 0 /\ pos' = 0
    BY <1>8 DEF FastBatch, batchVars, Drifting
  <2>5. Shape(sma') BY <2>4 DEF IInv, BetweenCalls, Shape, Fields
  <2>6. WindowOf(sma') = Ring(sma', head) /\ Ring(sma', head) = Ring(s, head)
    BY <2>3 DEF WindowOf, Ring
  <2>7. Near(Total(WindowOf(sma')), Added(WindowOf(sma')), Period)
    BY <2>3, <2>5, SeededIsNear
  <2>8. 2 * sma'.since + Period = Period BY <2>3, InputAssumption
  <2>9. Filling(sma') /\ Drifted(sma')
    BY <2>3, <2>6, <2>7, <2>8, InputAssumption DEF Filling, Drifted
  <2>10. Filling(sma)' /\ Drifted(sma)' BY <2>9 DEF Filling, Drifted, WindowOf, Ring
  <2> QED BY <2>4, <2>10, DriftsBetween
<1>9. CASE UNCHANGED smaVars
  <2>1. pos' = pos /\ mode' = mode /\ sma' = sma /\ replay' = replay BY <1>9 DEF smaVars
  <2>2. Contents' = Contents BY <1>1, <2>1
  <2> QED BY <2>1, <2>2 DEF Drifting, Near, Roundings, Filling
<1> QED BY <1>2, <1>3, <1>4, <1>5, <1>6, <1>7, <1>8, <1>9 DEF Next

LEMMA DriftingInit == Init => Drifting
<1> SUFFICES ASSUME Init PROVE Drifting
  OBVIOUS
<1>1. mode = "streaming" /\ pos = 0 BY DEF Init
<1>2. sma.sum = 0 /\ sma.count = 0 /\ sma.since = 0 BY DEF Init, NewSma
<1>3. Filling(sma) /\ Drifted(sma) BY <1>2, EmptyDrifts
<1>4. IInv BY InvInit
<1> QED BY <1>1, <1>3, <1>4, StreamedDrift DEF Drifting

\* The running sum is off the exact sum of the window by no more than half the
\* largest spacing of floats for each rounding since it was last taken from the
\* window, whatever the format, however update, reset and the two batches are
\* mixed, unless it has overflowed.
THEOREM SmaDriftBounded == Spec => []DriftBounded
<1>1. Drifting => DriftBounded
  <2> SUFFICES ASSUME Drifting PROVE DriftBounded
    OBVIOUS
  <2>1. Near(sma.sum, Added(Contents), Roundings) BY DEF Drifting
  <2>2. IsFinite(sma.sum) => 2 * Abs(sma.sum - Added(Contents)) <= Roundings * MaxError
    BY <2>1 DEF Near
  <2> QED BY <2>2 DEF DriftBounded, Added
<1>2. IInv /\ IInv' /\ Drifting /\ [Next]_smaVars => Drifting' BY DriftingNext
<1> QED BY <1>1, <1>2, DriftingInit, SmaInvariant, PTL DEF Spec

-----------------------------------------------------------------------------
(* Types: what the values of the sums and of the answers may be. *)

LEMMA PowersDivide ==
    ASSUME NEW m \in Nat, NEW n \in Nat
    PROVE  \E d \in Nat : 2^(m + n) = d * 2^m
<1> DEFINE S == {i \in Nat : \E d \in Nat : 2^(m + i) = d * 2^m}
           p == 2^m
<1>1. p \in Nat BY PowersGrow
<1>2. 0 \in S
  <2>1. m + 0 = m /\ p = 1 * p BY <1>1
  <2>2. 2^(m + 0) = 1 * 2^m BY <2>1
  <2> QED BY <2>2
<1>3. \A i \in Nat : i \in S => i + 1 \in S
  <2> SUFFICES ASSUME NEW i \in Nat, i \in S PROVE i + 1 \in S
    OBVIOUS
  <2>1. PICK d \in Nat : 2^(m + i) = d * 2^m OBVIOUS
  <2>2. m + i \in Nat /\ (m + i) + 1 = m + (i + 1) OBVIOUS
  <2>3. 2^((m + i) + 1) = 2 * 2^(m + i) BY <2>2, PowerDoubles
  <2>4. 2^(m + (i + 1)) = 2 * (d * p) BY <2>1, <2>2, <2>3
  <2>5. 2 * (d * p) = (2 * d) * p /\ 2 * d \in Nat /\ i + 1 \in Nat BY <1>1
  <2>6. 2^(m + (i + 1)) = (2 * d) * 2^m BY <2>4, <2>5
  <2> QED BY <2>5, <2>6
<1> HIDE DEF S
<1>4. n \in S BY <1>2, <1>3, SetInduction
<1> QED BY <1>4 DEF S

\* The last float is a multiple of every spacing below it.
LEMMA LargestIsMultiple ==
    ASSUME NEW a \in Nat, a <= Largest
    PROVE  \E d \in Nat : Largest = d * Ulp(a)
<1> DEFINE U == Ulp(Largest)
           u == Ulp(a)
<1>1. Largest \in Nat /\ U \in Nat /\ U > 0 /\ u \in Nat /\ u > 0 /\ u <= U /\ Largest % U = 0
  BY FloatAssumption, UlpGrows
<1>2. PICK j \in Nat : u = 2^j BY UlpIsAPower
<1>3. PICK k \in Nat : U = 2^k BY <1>1, UlpIsAPower
<1>4. \E d \in Nat : U = d * u
  <2>1. CASE j <= k
    <3>1. k - j \in Nat /\ j + (k - j) = k BY <2>1
    <3>2. PICK d \in Nat : 2^(j + (k - j)) = d * 2^j BY <3>1, PowersDivide
    <3>3. U = d * u BY <1>2, <1>3, <3>1, <3>2
    <3> QED BY <3>3
  <2>2. CASE ~(j <= k)
    <3>1. k \in 0 .. j BY <2>2
    <3>2. 2^k <= 2^j BY <3>1, PowersGrow
    <3> HIDE DEF U, u
    <3>3. U = 1 * u BY <1>1, <1>2, <1>3, <3>2
    <3> QED BY <3>3
  <2> QED BY <2>1, <2>2
<1>5. PICK d \in Nat : U = d * u BY <1>4
<1> DEFINE m == Largest \div U
<1> HIDE DEF U, u
<1>6. m \in Nat /\ Largest = m * U BY <1>1
<1> HIDE DEF m
<1>7. m * d \in Nat /\ m * (d * u) = (m * d) * u BY <1>1, <1>6
<1>8. Largest = (m * d) * u BY <1>5, <1>6, <1>7
<1> QED BY <1>7, <1>8 DEF u

\* What does not lie beyond the last float is not rounded to beyond it.
LEMMA NearestFits ==
    ASSUME NEW a \in Nat, a <= Largest
    PROVE  Nearest(a) \in 0 .. Largest
<1> DEFINE u == Ulp(a)
           q == a \div u
           r == a % u
           up == 2 * r > u \/ (2 * r = u /\ q % 2 = 1)
<1>1. u \in Nat /\ u > 0 /\ Largest \in Nat BY UlpGrows, FloatAssumption
<1>2. Nearest(a) = IF up THEN (q + 1) * u ELSE q * u BY DEF Nearest
<1>3. PICK d \in Nat : Largest = d * u BY LargestIsMultiple
<1> HIDE DEF u
<1>4. q \in Nat /\ r \in 0 .. u - 1 /\ a = q * u + r BY <1>1
<1>5. up => r > 0 BY <1>1, <1>4
<1> HIDE DEF q, r, up
<1>6. q * u \in Nat /\ (q + 1) * u \in Nat BY <1>1, <1>4
<1>7. CASE up
  <2>1. q + 1 <= d
    <3> SUFFICES ASSUME d <= q PROVE FALSE
      BY <1>4
    <3>1. (q - d) * u >= 0 /\ (q - d) * u = q * u - d * u /\ d * u \in Int BY <1>1, <1>4
    <3> QED BY <1>1, <1>3, <1>4, <1>5, <1>6, <1>7, <3>1
  <2>2. (d - (q + 1)) * u >= 0 /\ (d - (q + 1)) * u = d * u - (q + 1) * u
    BY <1>1, <1>4, <2>1
  <2>3. (q + 1) * u <= Largest BY <1>1, <1>3, <1>6, <2>2
  <2> QED BY <1>1, <1>2, <1>6, <1>7, <2>3
<1>8. CASE ~up
  BY <1>1, <1>2, <1>4, <1>6, <1>8
<1> QED BY <1>7, <1>8

\* Everything but NaN.
Numbers == NegInf .. PosInf

LEMMA InfinitiesAreNumbers ==
    /\ Largest \in Nat /\ PosInf \in Numbers /\ NegInf \in Numbers
    /\ \A x \in Int : IsFinite(x) <=> x \in -Largest .. Largest
    /\ \A x \in Int : IsFinite(x) => x \in Numbers
    /\ \A x \in Numbers : x \in Int /\ (~IsFinite(x) => x = PosInf \/ x = NegInf)
    /\ ~IsFinite(PosInf) /\ ~IsFinite(NegInf)
  BY FloatAssumption DEF Numbers, IsFinite, Abs, PosInf, NegInf

LEMMA RoundIsNumber == ASSUME NEW x \in Int PROVE Round(x) \in Numbers
<1> DEFINE b == Abs(x)
           a == Nearest(b)
<1>1. b \in Nat /\ (x = 0 => b = 0) BY DEF Abs
<1>2. Ulp(b) \in Nat BY <1>1, UlpGrows
<1>3. a \in Nat BY <1>1, <1>2, NearestIsNear DEF IsNearest
<1>4. x = 0 => a <= Largest
  <2> HIDE DEF b
  <2> QED BY <1>1, NearestFits, InfinitiesAreNumbers
<1>5. Round(x) = IF a > Largest THEN IF x > 0 THEN PosInf ELSE NegInf
                 ELSE IF x < 0 THEN -a ELSE a
  <2>1. CASE a > Largest /\ x > 0
    BY <2>1 DEF Round
  <2>2. CASE a > Largest /\ x < 0
    BY <2>2 DEF Round
  <2>3. CASE ~(a > Largest)
    BY <2>3 DEF Round
  <2>4. a > Largest => x # 0
    <3> HIDE DEF a
    <3> QED BY <1>3, <1>4, InfinitiesAreNumbers
  <2> QED BY <2>1, <2>2, <2>3, <2>4
<1> HIDE DEF a
<1> QED BY <1>3, <1>5, InfinitiesAreNumbers

LEMMA AddIsNumber ==
    ASSUME NEW x \in Numbers, NEW y \in Int, IsFinite(y)
    PROVE  Add(x, y) \in Numbers
<1>1. x \in Int /\ ~IsFinite(PosInf) /\ ~IsFinite(NegInf) BY InfinitiesAreNumbers
<1>2. CASE IsFinite(x)
  <2>1. Add(x, y) = Round(x + y) BY <1>1, <1>2, Zenon DEF Add
  <2>2. x + y \in Int BY <1>1
  <2> QED BY <2>1, <2>2, RoundIsNumber
<1>3. CASE ~IsFinite(x)
  <2>1. x \in {PosInf, NegInf} BY <1>3, InfinitiesAreNumbers
  <2>2. Add(x, y) = x BY <1>1, <1>3, <2>1, Zenon DEF Add
  <2> QED BY <2>2
<1> QED BY <1>2, <1>3

LEMMA SubIsNumber ==
    ASSUME NEW x \in Numbers, NEW y \in Int, IsFinite(y)
    PROVE  Sub(x, y) \in Numbers
<1>1. -y \in Int /\ IsFinite(-y) /\ y # NaN BY FloatAssumption DEF IsFinite, Abs, NaN
<1> QED BY <1>1, AddIsNumber DEF Sub

\* An average is no larger than the largest float.
LEMMA DivIsNumber ==
    ASSUME NEW x \in Numbers, NEW n \in Nat \ {0}
    PROVE  Div(x, n) \in Numbers
<1>1. CASE ~IsFinite(x)
  BY <1>1 DEF Div
<1>2. CASE IsFinite(x)
  <2> DEFINE b == Abs(x)
             c == (2 * b + n) \div (2 * n)
             a == Nearest(c)
  <2>1. x \in Int /\ Largest \in Nat BY InfinitiesAreNumbers
  <2>2. b \in Nat /\ b <= Largest BY <1>2, <2>1 DEF IsFinite, Abs
  <2>3. Div(x, n) = IF x < 0 THEN -a ELSE a BY <1>2 DEF Div
  <2> HIDE DEF b
  <2>4. c \in Nat /\ (2 * n) * c <= 2 * b + n
    <3>1. 2 * n \in Nat \ {0} /\ 2 * b + n \in Nat BY <2>2
    <3> QED BY <3>1
  <2> HIDE DEF c
  <2>5. c <= b
    <3> SUFFICES ASSUME b + 1 <= c PROVE FALSE
      BY <2>2, <2>4
    <3>1. (2 * n) * (c - (b + 1)) >= 0 BY <2>2, <2>4
    <3>2. (2 * n) * (c - (b + 1)) = (2 * n) * c - 2 * (n * b) - 2 * n /\ (2 * n) * c \in Int
      BY <2>2, <2>4
    <3>3. (n - 1) * b >= 0 /\ (n - 1) * b = n * b - b /\ n * b \in Int BY <2>2
    <3> QED BY <2>2, <2>4, <3>1, <3>2, <3>3
  <2>6. a \in 0 .. Largest BY <2>1, <2>2, <2>4, <2>5, NearestFits
  <2> HIDE DEF a
  <2>7. Div(x, n) \in Int /\ Div(x, n) \in -Largest .. Largest BY <2>1, <2>3, <2>6
  <2> QED BY <2>7, InfinitiesAreNumbers
<1> QED BY <1>1, <1>2

LEMMA TotalIsNumber ==
    ASSUME NEW N \in Nat, NEW q, DOMAIN q = 1 .. N, \A i \in 1 .. N : q[i] \in Stored
    PROVE  Total(q) \in Numbers
<1>1. PICK T : AreTotals(T, q, N) BY TotalsExist
<1> DEFINE P == {j \in Nat : j <= N => T[j] \in Numbers}
<1>2. 0 \in P
  <2>1. T[0] = 0 BY <1>1 DEF AreTotals
  <2>2. 0 \in Numbers BY FloatAssumption DEF Numbers, PosInf, NegInf
  <2> QED BY <2>1, <2>2
<1>3. \A k \in Nat : k \in P => k + 1 \in P
  <2> SUFFICES ASSUME NEW k \in Nat, k \in P, k + 1 <= N PROVE T[k + 1] \in Numbers
    OBVIOUS
  <2>1. k + 1 \in 1 .. N /\ (k + 1) - 1 = k /\ k <= N OBVIOUS
  <2>2. T[k + 1] = Add(T[k], q[k + 1]) BY <1>1, <2>1 DEF AreTotals
  <2>3. T[k] \in Numbers BY <2>1
  <2>4. q[k + 1] \in Int /\ IsFinite(q[k + 1]) BY <2>1, StoredAreNumbers
  <2> HIDE DEF P
  <2> QED BY <2>2, <2>3, <2>4, AddIsNumber
<1> HIDE DEF P
<1>4. N \in P BY <1>2, <1>3, SetInduction
<1>5. T[N] = Total(q) BY <1>1 DEF AreTotals
<1> QED BY <1>4, <1>5 DEF P

\* The sum taken from a buffer, wherever the cursor is.
LEMMA SeedIsNumber ==
    ASSUME NEW s, s.period = Period, s.buf \in [0 .. Period - 1 -> Values \cup {0}],
           NEW head \in 0 .. Period - 1
    PROVE  Total(Ring(s, head)) \in Numbers
<1>1. Period \in Nat \ {0} BY InputAssumption
<1>2. DOMAIN Ring(s, head) = 1 .. Period BY DEF Ring
<1>3. \A i \in 1 .. Period : Ring(s, head)[i] \in Stored BY <1>1 DEF Ring, Stored
<1> HIDE DEF Ring
<1> QED BY <1>1, <1>2, <1>3, TotalIsNumber

Answers == {Some(v) : v \in Numbers} \cup {None}

LEMMA ValueIsAnswer ==
    ASSUME NEW s, s.period = Period, s.sum \in Numbers
    PROVE  Value(s) \in Answers
<1>1. Div(s.sum, Period) \in Numbers BY DivIsNumber, InputAssumption
<1> QED BY <1>1 DEF Value, Answers

\* The sum after an input is added.
LEMMA InputIsNumber ==
    ASSUME NEW sum \in Numbers, NEW b \in Stored, NEW x \in Values
    PROVE  Add(sum, x) \in Numbers /\ Add(Sub(sum, b), x) \in Numbers
<1>1. x \in Int /\ IsFinite(x) /\ b \in Int /\ IsFinite(b) BY StoredAreNumbers DEF Stored
<1> QED BY <1>1, AddIsNumber, SubIsNumber

LEMMA UpdateIsNumber ==
    ASSUME NEW s, Shape(s), s.sum \in Numbers, NEW x \in Values
    PROVE  Updated(s, x).sum \in Numbers /\ Updated(s, x).period = Period
<1> DEFINE buf == [s.buf EXCEPT ![s.head] = x]
           head == IF s.head + 1 = Period THEN 0 ELSE s.head + 1
           count == IF s.count = Period THEN Period ELSE s.count + 1
           sum == Add(IF s.count = Period THEN Sub(s.sum, s.buf[s.head]) ELSE s.sum, x)
           e == Fields(buf, head, count, sum, s.since + 1)
<1>1. Updated(s, x) = Reseed(e, head) BY UpdatedFields
<1>2. s.head \in 0 .. Period - 1 /\ s.buf \in [0 .. Period - 1 -> Values \cup {0}]
      /\ Period \in Nat \ {0}
  BY InputAssumption DEF Shape
<1>3. s.buf[s.head] \in Stored BY <1>2 DEF Stored
<1>4. sum \in Numbers BY <1>3, InputIsNumber
<1>5. buf \in [0 .. Period - 1 -> Values \cup {0}] /\ head \in 0 .. Period - 1 BY <1>2
<1> HIDE DEF buf, head, count, sum
<1>6. e.period = Period /\ e.buf = buf /\ e.sum = sum BY DEF Fields
<1>7. Total(Ring(e, head)) \in Numbers BY <1>5, <1>6, SeedIsNumber
<1>8. Reseed(e, head) = IF s.since + 1 < Cap THEN e
                        ELSE Fields(buf, head, count, Total(Ring(e, head)), 0)
  BY ReseedFields
<1> QED BY <1>1, <1>4, <1>6, <1>7, <1>8 DEF Fields

\* What the types need beside IInv and Drifting.
Ranged ==
    /\ sma.sum \in Numbers
    /\ out \in Answers
    /\ lap \in {"first", "later"}

LEMMA TypesHold == ASSUME IInv, Drifting, Ranged PROVE TypeOK
<1>1. Period \in Nat \ {0} /\ Cap \in Nat /\ Period <= Cap BY InputAssumption, CapIsPositive
<1>2. pos \in 0 .. Period BY <1>1 DEF Drifting, IInv, InLap
<1>3. ASSUME NEW s, Shape(s), s.sum \in Numbers PROVE s \in SmaStates
  <2>1. /\ s = Fields(s.buf, s.head, s.count, s.sum, s.since)
        /\ s.buf \in [0 .. Period - 1 -> Values \cup {0}]
        /\ s.head \in 0 .. Period - 1 /\ s.count \in 0 .. Period
        /\ s.since \in 0 .. RecomputeEvery * Period - 1
    BY <1>1, <1>3 DEF Shape, Cap
  <2>2. Fields(s.buf, s.head, s.count, s.sum, s.since) \in SmaStates
    BY <1>3, <2>1 DEF Fields, SmaStates, Numbers
  <2> QED BY <2>1, <2>2
<1>4. CASE mode = "streaming"
  <2>1. Shape(sma) /\ replay = sma /\ out = replayOut BY <1>4 DEF IInv, BetweenCalls
  <2> QED BY <1>2, <1>3, <1>4, <2>1 DEF Ranged, TypeOK, Answers, Numbers
<1>5. CASE mode = "batch"
  <2>1. InLap BY <1>5 DEF IInv
  <2>2. sma.since \in Nat /\ sma.since + Period <= Cap BY <2>1, LapRoom
  <2>3. /\ sma = Fields(sma.buf, 0, sma.count, sma.sum, sma.since)
        /\ sma.buf \in [0 .. Period - 1 -> Values \cup {0}]
        /\ sma.count \in 0 .. Period /\ 0 \in 0 .. Period - 1
        /\ sma.since \in 0 .. RecomputeEvery * Period - 1
    <3>1. /\ sma = Fields(sma.buf, 0, sma.count, sma.sum, sma.since)
          /\ sma.buf \in [0 .. Period - 1 -> Values \cup {0}]
      BY <2>1 DEF InLap
    <3>2. sma.count = IF lap = "first" THEN pos ELSE Period BY <2>1 DEF InLap
    <3>3. sma.count \in 0 .. Period /\ 0 \in 0 .. Period - 1 BY <1>1, <1>2, <3>2
    <3>4. sma.since \in 0 .. RecomputeEvery * Period - 1
      <4>1. Cap = RecomputeEvery * Period BY DEF Cap
      <4>2. sma.since \in 0 .. Cap - 1 BY <1>1, <2>2
      <4> QED BY <4>1, <4>2
    <3> QED BY <3>1, <3>3, <3>4
  <2>4. sma \in SmaStates
    <3>1. Fields(sma.buf, 0, sma.count, sma.sum, sma.since) \in SmaStates
      BY <2>3 DEF Ranged, Fields, SmaStates, Numbers
    <3> QED BY <2>3, <3>1
  <2>5. replay \in SmaStates /\ replayOut \in Answers
    <3>1. CASE pos < Period
      <4>1. Shape(replay) /\ replay.sum = sma.sum /\ replayOut = out
        BY <2>1, <3>1, ReplayShape DEF InLap, Fields
      <4> QED BY <1>3, <4>1 DEF Ranged
    <3>2. CASE ~(pos < Period)
      <4> DEFINE e == Fields(sma.buf, 0, sma.count, sma.sum, sma.since + Period)
                 total == Total(Ring(e, 0))
      <4>1. pos = Period /\ replay = Reseed(e, 0) /\ replayOut = Value(replay)
        <5>1. pos = Period BY <1>1, <1>2, <3>2
        <5> QED BY <2>1, <5>1 DEF InLap
      <4>2. total \in Numbers
        <5>1. e.period = Period /\ e.buf = sma.buf BY DEF Fields
        <5> HIDE DEF e
        <5> QED BY <2>3, <5>1, SeedIsNumber
      <4> HIDE DEF total
      <4>3. replay = IF sma.since + Period < Cap THEN e
                     ELSE Fields(sma.buf, 0, sma.count, total, 0)
        BY <4>1, ReseedFields DEF total
      <4>4. replay.sum \in Numbers /\ replay.period = Period
        BY <4>2, <4>3 DEF Ranged, Fields
      <4>5. replay \in SmaStates
        <5>1. CASE sma.since + Period < Cap
          <6>1. sma.since + Period \in 0 .. RecomputeEvery * Period - 1
            BY <1>1, <2>2, <5>1 DEF Cap
          <6>2. e \in SmaStates BY <2>3, <6>1 DEF Ranged, Fields, SmaStates, Numbers
          <6> QED BY <4>3, <5>1, <6>2
        <5>2. CASE ~(sma.since + Period < Cap)
          <6>1. 0 \in 0 .. RecomputeEvery * Period - 1 BY <1>1 DEF Cap
          <6>2. Fields(sma.buf, 0, sma.count, total, 0) \in SmaStates
            BY <2>3, <4>2, <6>1 DEF Fields, SmaStates, Numbers
          <6> QED BY <4>3, <5>2, <6>2
        <5> QED BY <5>1, <5>2
      <4> QED BY <4>1, <4>4, <4>5, ValueIsAnswer
    <3> QED BY <3>1, <3>2
  <2> QED BY <1>2, <1>5, <2>4, <2>5 DEF Ranged, TypeOK, Answers, Numbers
<1> QED BY <1>4, <1>5 DEF IInv

LEMMA RangedNext ==
    ASSUME IInv, Ranged, [Next]_smaVars
    PROVE  Ranged'
<1>1. ASSUME NEW x \in Values \cup {PosInf, NaN}, Update(x) PROVE Ranged'
  <2>1. Shape(sma) /\ sma' = Updated(sma, x) /\ out' = Answer(sma, x) /\ lap' = lap
    BY <1>1 DEF Update, batchVars, IInv, BetweenCalls
  <2>2. CASE x \in Values
    <3>1. sma'.sum \in Numbers /\ sma'.period = Period /\ IsFinite(x)
      BY <2>1, <2>2, UpdateIsNumber, InputAssumption DEF Ranged
    <3>2. out' = Value(sma') BY <2>1, <3>1 DEF Answer
    <3>3. out' \in Answers BY <3>1, <3>2, ValueIsAnswer
    <3> QED BY <2>1, <3>1, <3>3 DEF Ranged, Answers
  <2>3. CASE x \notin Values
    <3>1. ~IsFinite(x) BY <2>3, FloatAssumption DEF IsFinite, Abs, PosInf, NaN
    <3>2. sma' = sma /\ out' = None BY <2>1, <3>1 DEF Updated, Answer
    <3> QED BY <2>1, <3>2 DEF Ranged, Answers
  <2> QED BY <2>2, <2>3
<1>2. ASSUME Reset PROVE Ranged'
  <2>1. sma' = Clear(sma) /\ out' = out /\ lap' = lap /\ Shape(sma)
    BY <1>2 DEF Reset, batchVars, IInv, BetweenCalls
  <2>2. sma'.sum = 0 BY <2>1, ClearFields DEF Shape, Fields
  <2>3. 0 \in Numbers BY FloatAssumption DEF Numbers, PosInf, NegInf
  <2> QED BY <2>1, <2>2, <2>3 DEF Ranged, Answers
<1>3. ASSUME BatchStart PROVE Ranged' BY <1>3 DEF BatchStart, Ranged, Answers
<1>4. ASSUME NEW x \in Values, BatchInput(x) PROVE Ranged'
  <2>1. InLap /\ pos < Period /\ pos \in 0 .. Period - 1 /\ lap' = lap
        /\ sma.buf \in [0 .. Period - 1 -> Values \cup {0}]
    BY <1>4, InputAssumption DEF BatchInput, IInv, InLap
  <2>2. sma.buf[pos] \in Stored BY <2>1 DEF Stored
  <2>3. /\ sma'.period = Period
        /\ sma'.sum = Add(IF lap = "first" THEN sma.sum ELSE Sub(sma.sum, sma.buf[pos]), x)
    BY <1>4, <2>1, InputFields DEF Fields
  <2>4. sma'.sum \in Numbers BY <2>2, <2>3, InputIsNumber DEF Ranged
  <2>5. out' = Value(sma') BY <1>4 DEF BatchInput
  <2>6. out' \in Answers BY <2>3, <2>4, <2>5, ValueIsAnswer
  <2> QED BY <2>1, <2>4, <2>6 DEF Ranged, Answers
<1>5. ASSUME InLap, sma'.sum = LapDone(sma).sum, sma'.period = Period
      PROVE  sma'.sum \in Numbers /\ Value(sma') \in Answers
  <2> DEFINE e == Fields(sma.buf, 0, sma.count, sma.sum, sma.since + pos)
             total == Total(Ring(e, 0))
  <2>1. LapDone(sma) = Reseed(e, 0) BY <1>5, LapDoneFields
  <2>2. total \in Numbers
    <3>1. e.period = Period /\ e.buf = sma.buf BY DEF Fields
    <3>2. 0 \in 0 .. Period - 1 /\ sma.buf \in [0 .. Period - 1 -> Values \cup {0}]
      BY <1>5, InputAssumption DEF InLap
    <3> HIDE DEF e
    <3> QED BY <3>1, <3>2, SeedIsNumber
  <2> HIDE DEF total
  <2>3. LapDone(sma) = e \/ LapDone(sma) = Fields(sma.buf, 0, sma.count, total, 0)
    BY <2>1, ReseedFields DEF total
  <2>4. LapDone(sma).sum \in Numbers BY <2>2, <2>3 DEF Fields, Ranged
  <2> QED BY <1>5, <2>4, ValueIsAnswer
<1>6. ASSUME InLap PROVE LapDone(sma).period = Period
  <2> DEFINE e == Fields(sma.buf, 0, sma.count, sma.sum, sma.since + pos)
  <2>1. LapDone(sma) = Reseed(e, 0) BY <1>6, LapDoneFields
  <2>2. LapDone(sma) = e \/ LapDone(sma) = Fields(sma.buf, 0, sma.count, Total(Ring(e, 0)), 0)
    BY <2>1, ReseedFields
  <2> QED BY <2>2 DEF Fields
<1>7. ASSUME LapOver PROVE Ranged'
  <2>1. /\ InLap /\ sma' = LapDone(sma) /\ lap' = "later"
        /\ out' = IF sma'.since = 0 THEN Value(sma') ELSE out
    BY <1>7 DEF LapOver, IInv
  <2>2. sma'.sum \in Numbers /\ Value(sma') \in Answers BY <1>5, <1>6, <2>1
  <2> QED BY <2>1, <2>2 DEF Ranged, Answers
<1>8. ASSUME BatchEnd PROVE Ranged'
  <2>1. InLap /\ sma' = [LapDone(sma) EXCEPT !.head = pos] /\ lap' = lap /\ out' = out
    BY <1>8 DEF BatchEnd, IInv
  <2>2. sma'.sum = LapDone(sma).sum /\ sma'.period = LapDone(sma).period
    <3> DEFINE e == Fields(sma.buf, 0, sma.count, sma.sum, sma.since + pos)
    <3>1. LapDone(sma) = Reseed(e, 0) BY <2>1, LapDoneFields
    <3>2. LapDone(sma) = e \/ LapDone(sma) = Fields(sma.buf, 0, sma.count, Total(Ring(e, 0)), 0)
      BY <3>1, ReseedFields
    <3> QED BY <2>1, <3>2 DEF Fields
  <2>3. sma'.sum \in Numbers BY <1>5, <1>6, <2>1, <2>2
  <2> QED BY <2>1, <2>3 DEF Ranged, Answers
<1>9. ASSUME FastBatch PROVE Ranged'
  <2>1. PICK buf \in [0 .. Period - 1 -> Values], head \in 0 .. Period - 1 :
             LET s == Fields(buf, head, Period, 0, 0)
             IN  sma' = [s EXCEPT !.sum = Total(Ring(s, head))]
    BY <1>9, FastLeavesRing
  <2> DEFINE s == Fields(buf, head, Period, 0, 0)
  <2>2. sma' = [s EXCEPT !.sum = Total(Ring(s, head))] BY <2>1
  <2>3. buf \in [0 .. Period - 1 -> Values \cup {0}] OBVIOUS
  <2>4. /\ sma'.sum = Total(Ring(s, head)) /\ sma'.period = Period
        /\ s.buf = buf /\ s.period = Period
    BY <2>2 DEF Fields
  <2> HIDE DEF s
  <2>5. sma'.sum \in Numbers BY <2>3, <2>4, SeedIsNumber
  <2>6. out' = Value(sma') /\ lap' = lap BY <1>9 DEF FastBatch, batchVars
  <2>7. out' \in Answers BY <2>4, <2>5, <2>6, ValueIsAnswer
  <2> QED BY <2>5, <2>6, <2>7 DEF Ranged, Answers
<1>10. CASE UNCHANGED smaVars
  BY <1>10 DEF smaVars, Ranged, Answers
<1> QED BY <1>1, <1>2, <1>3, <1>4, <1>7, <1>8, <1>9, <1>10 DEF Next

\* The cursor, the counters and the buffer stay in their ranges, and neither the
\* sum nor an answer ever turns into a NaN, however large the inputs: an overflow
\* leaves an infinity, which nothing is taken from that could cancel it.
THEOREM SmaTypes == Spec => []TypeOK
<1>1. Init => Ranged
  <2> SUFFICES ASSUME Init PROVE Ranged
    OBVIOUS
  <2>1. sma.sum = 0 /\ out = None /\ lap = "first" BY DEF Init, NewSma
  <2>2. 0 \in Numbers BY FloatAssumption DEF Numbers, PosInf, NegInf
  <2> QED BY <2>1, <2>2 DEF Ranged, Answers
<1>2. IInv /\ Ranged /\ [Next]_smaVars => Ranged' BY RangedNext
<1>3. IInv /\ Drifting /\ Ranged => TypeOK BY TypesHold
<1>4. IInv /\ IInv' /\ Drifting /\ [Next]_smaVars => Drifting' BY DriftingNext
<1> QED BY <1>1, <1>2, <1>3, <1>4, DriftingInit, SmaInvariant, PTL DEF Spec

-----------------------------------------------------------------------------
(* Trailing stops: the step of each kind, from the stop held before to the *)
(* stop held after a close.                                                *)

Stop == [stop : Int, long : BOOLEAN]

\* The stop after a price, seen from the stop before.
Follows(before, now, price) ==
    /\ now.long # before.long <=> Through(before.long, price, before.stop)
    /\ now.long = before.long => now.stop = Tighter(now.long, now.stop, before.stop)

One(S) == {<<x>> : x \in S}

LEMMA ProductOfNats ==
    ASSUME NEW a \in Nat, NEW b \in Nat
    PROVE  a * b \in Nat
OBVIOUS

LEMMA ProductsCompare ==
    ASSUME NEW a \in Int, NEW b \in Int, NEW k \in Nat, a <= b
    PROVE  a * k \in Int /\ b * k \in Int /\ a * k <= b * k
<1>1. (b - a) * k \in Nat BY ProductOfNats
<1>2. (b - a) * k = b * k - a * k OBVIOUS
<1> QED BY <1>1, <1>2

LEMMA Divided ==
    ASSUME NEW n \in Int, NEW d \in Int, d > 0
    PROVE  n \div d \in Int /\ (n \div d) * d \in Int
           /\ (n \div d) * d <= n /\ n < (n \div d) * d + d
<1>1. n \div d \in Int OBVIOUS
<1>2. n % d \in 0 .. d - 1 OBVIOUS
<1>3. n = d * (n \div d) + (n % d) OBVIOUS
<1>4. d * (n \div d) = (n \div d) * d /\ (n \div d) * d \in Int BY <1>1
<1> QED BY <1>1, <1>2, <1>3, <1>4

\* Percentage and step.
TrailMemory == [kind : {"percentage", "step"}, size : Nat \ {0},
                stop : {<<>>} \cup One(Int), long : BOOLEAN]

LEMMA OffIsOff ==
    ASSUME NEW s \in TrailMemory, NEW long \in BOOLEAN, NEW close \in Int
    PROVE  /\ Price(s.kind, close) \in Int /\ Off(s, long, close) \in Int
           /\ ~Through(long, Price(s.kind, close), Off(s, long, close))
<1>1. s.size \in Nat /\ s.size > 0 /\ s.kind \in {"percentage", "step"} BY DEF TrailMemory
<1>2. CASE s.kind = "percentage"
  <2> DEFINE a == IF close < 0 THEN -close ELSE close
  <2>1. a \in Nat OBVIOUS
  <2> HIDE DEF a
  <2>2. a * s.size \in Nat BY <1>1, <2>1, ProductOfNats
  <2>3. close * Scale \in Int BY ScaleAssumption
  <2>4. Price(s.kind, close) = close * Scale BY <1>2 DEF Price
  <2>5. Off(s, long, close) = IF long THEN close * Scale - a * s.size ELSE close * Scale + a * s.size
    BY <1>2 DEF Off, PercentOff, a
  <2> QED BY <2>2, <2>3, <2>4, <2>5 DEF Through
<1>3. CASE s.kind = "step"
  <2> DEFINE q == ((close - s.size) \div s.size) * s.size
             r == ((-close - s.size) \div s.size) * s.size
  <2>1. q \in Int /\ r \in Int /\ q <= close - s.size /\ r <= -close - s.size
    BY <1>1, Divided
  <2>2. Price(s.kind, close) = close BY <1>3 DEF Price
  <2>3. Off(s, long, close) = IF long THEN q ELSE -r BY <1>3 DEF Off, Snap
  <2> HIDE DEF q, r
  <2> QED BY <1>1, <2>1, <2>2, <2>3 DEF Through
<1> QED BY <1>1, <1>2, <1>3

LEMMA TrailFollows ==
    ASSUME NEW s \in TrailMemory, NEW close \in Int, NEW t, t = TrailUpdated(s, close)
    PROVE  /\ t \in TrailMemory /\ t.stop \in One(Int) /\ t.kind = s.kind
           /\ s.stop # <<>> => s.stop[1] \in Int
                /\ Follows([stop |-> s.stop[1], long |-> s.long],
                           [stop |-> t.stop[1], long |-> t.long], Price(s.kind, close))
           /\ ~Through(t.long, Price(s.kind, close), t.stop[1])
<1> DEFINE price == Price(s.kind, close)
           flips == s.stop # <<>> /\ Through(s.long, price, s.stop[1])
           long == IF flips THEN ~s.long ELSE s.long
           off == Off(s, long, close)
           stop == IF flips \/ s.stop = <<>> THEN off ELSE Tighter(long, s.stop[1], off)
<1>1. s.long \in BOOLEAN /\ s.kind \in {"percentage", "step"} /\ s.size \in Nat \ {0}
      /\ s.stop \in {<<>>} \cup One(Int)
  BY DEF TrailMemory
<1>2. long \in BOOLEAN BY <1>1, Zenon
<1>3. price \in Int /\ off \in Int /\ ~Through(long, price, off) BY <1>2, OffIsOff
<1>4. s.stop # <<>> => s.stop[1] \in Int BY <1>1 DEF One
<1>5. t = [s EXCEPT !.long = long, !.stop = <<stop>>] BY DEF TrailUpdated
<1>6. t = [kind |-> s.kind, size |-> s.size, stop |-> <<stop>>, long |-> long]
  BY <1>5 DEF TrailMemory
<1>7. t.stop = <<stop>> /\ t.long = long /\ t.kind = s.kind BY <1>6
<1> DEFINE a == s.stop[1]
<1> HIDE DEF off, price
<1>8. stop \in Int BY <1>3, <1>4, <1>2 DEF Tighter, Larger, Smaller
<1>9. t \in TrailMemory /\ t.stop \in One(Int) /\ t.stop[1] = stop
  BY <1>1, <1>2, <1>6, <1>8 DEF TrailMemory, One
<1>10. ~Through(long, price, stop)
  BY <1>1, <1>2, <1>3, <1>4, <1>8 DEF Through, Tighter, Larger, Smaller
<1>11. ASSUME s.stop # <<>>
       PROVE  Follows([stop |-> s.stop[1], long |-> s.long], [stop |-> stop, long |-> long], price)
  <2>1. long # s.long <=> Through(s.long, price, s.stop[1]) BY <1>1, <1>11, Zenon
  <2>2. long = s.long => stop = Tighter(long, stop, s.stop[1])
    BY <1>1, <1>3, <1>4, <1>8, <1>11 DEF Tighter, Larger, Smaller
  <2> HIDE DEF long, stop
  <2> QED BY <2>1, <2>2 DEF Follows
<1> HIDE DEF long, stop
<1>12. ~Through(t.long, price, t.stop[1]) BY <1>7, <1>9, <1>10
<1>13. s.stop # <<>> => Follows([stop |-> s.stop[1], long |-> s.long], [stop |-> t.stop[1], long |-> t.long], price)
  BY <1>7, <1>9, <1>11
<1> QED BY <1>4, <1>7, <1>9, <1>12, <1>13 DEF price

\* RenkoTrailingStop.
RenkoMemory == [block : Nat \ {0}, anchor : {<<>>} \cup One(Int), long : BOOLEAN]

LEMMA RenkoFollows ==
    ASSUME NEW s \in RenkoMemory, NEW close \in Int, NEW t, t = RenkoStopUpdated(s, close)
    PROVE  /\ t \in RenkoMemory /\ t.anchor \in One(Int) /\ RenkoStop(t) \in Int
           /\ s.anchor # <<>> => RenkoStop(s) \in Int
                /\ Follows([stop |-> RenkoStop(s), long |-> s.long],
                           [stop |-> RenkoStop(t), long |-> t.long], close)
           /\ ~Through(t.long, close, RenkoStop(t))
<1>1. s.long \in BOOLEAN /\ s.block \in Nat /\ s.block > 0
      /\ s.anchor \in {<<>>} \cup One(Int)
      /\ s = [block |-> s.block, anchor |-> s.anchor, long |-> s.long]
  BY DEF RenkoMemory
<1>2. ASSUME NEW a \in Int, NEW long \in BOOLEAN,
             t = [block |-> s.block, anchor |-> <<a>>, long |-> long]
      PROVE  /\ t \in RenkoMemory /\ t.anchor \in One(Int) /\ t.long = long
             /\ RenkoStop(t) = (IF long THEN a - s.block ELSE a + s.block)
  BY <1>1, <1>2 DEF RenkoMemory, One, RenkoStop
<1>3. CASE s.anchor = <<>>
  <2>1. t = [s EXCEPT !.anchor = <<close>>] BY <1>3 DEF RenkoStopUpdated
  <2>2. t = [block |-> s.block, anchor |-> <<close>>, long |-> s.long] BY <1>1, <2>1
  <2> QED BY <1>1, <1>2, <1>3, <2>2 DEF Through
<1>4. ASSUME s.anchor # <<>>
      PROVE  s.anchor[1] \in Int /\ RenkoStop(s) \in Int
             /\ RenkoStop(s) = (IF s.long THEN s.anchor[1] - s.block ELSE s.anchor[1] + s.block)
  BY <1>1, <1>4 DEF One, RenkoStop
<1>5. CASE s.anchor # <<>> /\ Through(s.long, close, RenkoStop(s))
  <2>1. t = [s EXCEPT !.anchor = <<close>>, !.long = ~@] BY <1>5 DEF RenkoStopUpdated
  <2>2. t = [block |-> s.block, anchor |-> <<close>>, long |-> ~s.long] BY <1>1, <2>1
  <2>3. /\ t \in RenkoMemory /\ t.anchor \in One(Int) /\ t.long = ~s.long
        /\ RenkoStop(t) = (IF ~s.long THEN close - s.block ELSE close + s.block)
    BY <1>1, <1>2, <2>2
  <2>4. ~Through(t.long, close, RenkoStop(t)) /\ RenkoStop(t) \in Int
    <3>1. CASE s.long
      <4>1. ~t.long /\ RenkoStop(t) = close + s.block BY <2>3, <3>1
      <4> QED BY <1>1, <4>1 DEF Through
    <3>2. CASE ~s.long
      <4>1. t.long /\ RenkoStop(t) = close - s.block BY <2>3, <3>2
      <4> QED BY <1>1, <4>1 DEF Through
    <3> QED BY <3>1, <3>2
  <2>5. t.long # s.long BY <1>1, <2>3
  <2>6. Follows([stop |-> RenkoStop(s), long |-> s.long], [stop |-> RenkoStop(t), long |-> t.long], close)
    BY <1>5, <2>5 DEF Follows
  <2> QED BY <1>4, <1>5, <2>3, <2>4, <2>6
<1>6. CASE s.anchor # <<>> /\ ~Through(s.long, close, RenkoStop(s))
  <2> DEFINE anchor == s.anchor[1]
             ahead == IF s.long THEN close - anchor ELSE anchor - close
             blocks == Larger(ahead \div s.block, 0) * s.block
             a == IF s.long THEN anchor + blocks ELSE anchor - blocks
  <2>1. t = [s EXCEPT !.anchor = <<a>>] BY <1>6 DEF RenkoStopUpdated
  <2>2. anchor \in Int /\ ahead \in Int BY <1>4, <1>6
  <2>3. blocks \in Nat /\ (blocks = 0 \/ blocks <= ahead)
    <3> HIDE DEF ahead
    <3>1. /\ ahead \div s.block \in Int /\ (ahead \div s.block) * s.block \in Int
          /\ (ahead \div s.block) * s.block <= ahead
      BY <1>1, <2>2, Divided
    <3> DEFINE q == ahead \div s.block
    <3>2. CASE q >= 0
      <4>1. blocks = q * s.block /\ q \in Nat BY <3>1, <3>2 DEF Larger
      <4>2. q * s.block \in Nat BY <1>1, <4>1, ProductOfNats
      <4> QED BY <3>1, <4>1, <4>2
    <3>3. CASE q < 0
      BY <1>1, <3>1, <3>3 DEF Larger
    <3> QED BY <3>1, <3>2, <3>3
  <2> HIDE DEF blocks
  <2>4. a \in Int BY <2>2, <2>3
  <2>5. t = [block |-> s.block, anchor |-> <<a>>, long |-> s.long] BY <1>1, <2>1
  <2>6. /\ t \in RenkoMemory /\ t.anchor \in One(Int) /\ t.long = s.long
        /\ RenkoStop(t) = (IF s.long THEN a - s.block ELSE a + s.block)
    BY <1>1, <1>2, <2>4, <2>5
  <2>7. ~Through(t.long, close, RenkoStop(t)) /\ RenkoStop(t) \in Int
    BY <1>1, <1>4, <1>6, <2>2, <2>3, <2>6 DEF Through
  <2>8. RenkoStop(t) = Tighter(t.long, RenkoStop(t), RenkoStop(s))
    BY <1>1, <1>4, <1>6, <2>2, <2>3, <2>6 DEF Tighter, Larger, Smaller
  <2>9. Follows([stop |-> RenkoStop(s), long |-> s.long], [stop |-> RenkoStop(t), long |-> t.long], close)
    BY <1>6, <2>6, <2>8 DEF Follows
  <2> QED BY <1>4, <1>6, <2>6, <2>7, <2>9
<1> QED BY <1>3, <1>5, <1>6

\* Nrtr: the line is on its side of a close that is not negative.
NrtrMemory == {s \in [percent : 1 .. Scale - 1, direction : {-1, 0, 1}, water : Int] :
                  s.direction # 0 => s.water \in Nat}

LEMMA NrtrFollows ==
    ASSUME NEW s \in NrtrMemory, NEW close \in Nat, NEW t, t = NrtrUpdated(s, close)
    PROVE  /\ t \in NrtrMemory /\ t.direction # 0 /\ Line(t) \in Int
           /\ s.direction # 0 => Line(s) \in Int
                /\ Follows([stop |-> Line(s), long |-> s.direction > 0],
                           [stop |-> Line(t), long |-> t.direction > 0], close * Scale)
           /\ ~Through(t.direction > 0, close * Scale, Line(t))
<1> DEFINE p == s.percent
           lineOf(d, w) == w * (IF d > 0 THEN Scale - p ELSE Scale + p)
<1>1. /\ s.direction \in {-1, 0, 1} /\ s.water \in Int /\ p \in Nat /\ Scale - p \in Nat
      /\ Scale \in Nat /\ Scale + p \in Nat
      /\ s.direction # 0 => s.water \in Nat
      /\ s = [percent |-> p, direction |-> s.direction, water |-> s.water]
  BY ScaleAssumption DEF NrtrMemory
<1>2. ASSUME NEW d \in {-1, 1}, NEW w \in Nat,
             t = [percent |-> p, direction |-> d, water |-> w]
      PROVE  /\ t \in NrtrMemory /\ t.direction = d /\ t.water = w
             /\ Line(t) = lineOf(d, w) /\ Line(t) \in Nat
  <2>1. t \in NrtrMemory /\ t.direction = d /\ t.water = w /\ t.percent = p
    BY <1>1, <1>2 DEF NrtrMemory
  <2>2. Line(t) = lineOf(d, w) BY <2>1 DEF Line
  <2>3. w * (Scale - p) \in Nat /\ w * (Scale + p) \in Nat BY <1>1, ProductOfNats
  <2> QED BY <2>1, <2>2, <2>3
<1>3. ASSUME NEW d \in {-1, 1}
      PROVE  ~Through(d > 0, close * Scale, lineOf(d, close))
  <2>1. close * (Scale - p) \in Int /\ close * Scale \in Int /\ close * (Scale + p) \in Int
    BY <1>1
  <2>2. close * p \in Nat /\ close * (Scale - p) = close * Scale - close * p
        /\ close * (Scale + p) = close * Scale + close * p
    BY <1>1, ProductOfNats
  <2> QED BY <2>1, <2>2 DEF Through
<1>4. CASE s.direction = 0
  <2>1. t = [s EXCEPT !.direction = 1, !.water = close] BY <1>4 DEF NrtrUpdated
  <2>2. t = [percent |-> p, direction |-> 1, water |-> close] BY <1>1, <2>1
  <2>3. /\ t \in NrtrMemory /\ t.direction = 1
        /\ Line(t) = lineOf(1, close) /\ Line(t) \in Nat
    BY <1>2, <2>2
  <2> HIDE DEF lineOf
  <2> QED BY <1>3, <1>4, <2>3
<1>5. CASE s.direction # 0
  <2> DEFINE long == s.direction > 0
             water == Tighter(long, s.water, close)
             best == [s EXCEPT !.water = Tighter(s.direction > 0, @, close)]
  <2>1. s.direction \in {-1, 1} /\ s.water \in Nat /\ water \in Nat /\ long \in BOOLEAN
    BY <1>1, <1>5 DEF Tighter, Larger, Smaller
  <2>2. best = [percent |-> p, direction |-> s.direction, water |-> water] BY <1>1
  <2>3. Line(best) = lineOf(s.direction, water) /\ Line(s) = lineOf(s.direction, s.water)
    BY <2>2 DEF Line
  <2> DEFINE k == IF s.direction > 0 THEN Scale - p ELSE Scale + p
  <2>4. k \in Nat /\ Line(best) = water * k /\ Line(s) = s.water * k BY <1>1, <2>1, <2>3
  <2>5. /\ s.water * k \in Int /\ water * k \in Int
        /\ long => s.water * k <= water * k
        /\ ~long => water * k <= s.water * k
    <3> HIDE DEF k
    <3>1. CASE long
      <4>1. s.water <= water BY <2>1, <3>1 DEF Tighter, Larger
      <4> QED BY <2>1, <2>4, <3>1, <4>1, ProductsCompare
    <3>2. CASE ~long
      <4>1. water <= s.water BY <2>1, <3>2 DEF Tighter, Smaller
      <4> QED BY <2>1, <2>4, <3>2, <4>1, ProductsCompare
    <3> QED BY <2>1, <3>1, <3>2
  \* The line goes through the price if and only if the line before did: a price
  \* that moves the water is on the right side of either.
  <2>6. Through(long, close * Scale, Line(best)) <=> Through(long, close * Scale, Line(s))
    <3>1. CASE water = s.water
      BY <2>4, <3>1
    <3>2. CASE water # s.water
      <4>1. water = close BY <3>2 DEF Tighter, Larger, Smaller
      <4>2. ~Through(long, close * Scale, Line(best)) BY <1>3, <2>1, <2>3, <4>1
      <4>3. close * Scale \in Int BY <1>1
      <4> HIDE DEF k, water, long, best
      <4>4. long => s.water * k <= water * k BY <2>5
      <4>5. ~long => water * k <= s.water * k BY <2>5
      <4> QED BY <2>1, <2>4, <2>5, <4>2, <4>3, <4>4, <4>5 DEF Through
    <3> QED BY <3>1, <3>2
  <2>7. CASE Through(long, close * Scale, Line(best))
    <3>1. t = [s EXCEPT !.direction = -@, !.water = close] BY <1>5, <2>7 DEF NrtrUpdated
    <3>2. t = [percent |-> p, direction |-> -s.direction, water |-> close] BY <1>1, <3>1
    <3>3. -s.direction \in {-1, 1} /\ (-s.direction > 0) = ~long BY <2>1
    <3>4. /\ t \in NrtrMemory /\ t.direction = -s.direction
          /\ Line(t) = lineOf(-s.direction, close) /\ Line(t) \in Nat
      BY <1>2, <3>2, <3>3
    <3>5. ~Through(t.direction > 0, close * Scale, Line(t)) BY <1>3, <3>3, <3>4
    <3> DEFINE turned == t.direction > 0
    <3>6. turned = ~long BY <3>3, <3>4
    <3> HIDE DEF lineOf, long, turned, best
    <3>7. Follows([stop |-> Line(s), long |-> long], [stop |-> Line(t), long |-> turned], close * Scale)
      BY <2>1, <2>6, <2>7, <3>6 DEF Follows
    <3>8. Line(s) \in Int BY <2>4, <2>5
    <3>9. t.direction # 0 BY <2>1, <3>4
    <3> QED BY <3>4, <3>5, <3>7, <3>8, <3>9 DEF long, turned
  <2>8. CASE ~Through(long, close * Scale, Line(best))
    <3>1. t = best BY <1>5, <2>8 DEF NrtrUpdated
    <3>2. /\ t \in NrtrMemory /\ t.direction = s.direction /\ Line(t) \in Nat
      BY <1>2, <2>1, <2>2, <3>1
    <3>3. Line(t) = water * k BY <2>4, <3>1
    <3> HIDE DEF water, k, best
    <3>4. Line(t) = Tighter(long, Line(t), Line(s))
      BY <2>1, <2>4, <2>5, <3>3 DEF Tighter, Larger, Smaller
    <3>5. t.direction > 0 <=> long BY <3>2
    <3> DEFINE still == t.direction > 0
    <3>6. still = long BY <3>5
    <3>7. ~Through(long, close * Scale, Line(s)) /\ ~Through(long, close * Scale, Line(t))
      BY <2>6, <2>8, <3>1
    <3> HIDE DEF still, long, lineOf
    <3>8. Follows([stop |-> Line(s), long |-> long], [stop |-> Line(t), long |-> still], close * Scale)
      BY <3>4, <3>6, <3>7 DEF Follows
    <3>9. Line(s) \in Int /\ t.direction # 0 BY <2>1, <2>4, <2>5, <3>2
    <3>10. ~Through(still, close * Scale, Line(t)) BY <3>6, <3>7
    <3> QED BY <3>2, <3>8, <3>9, <3>10 DEF long, still
  <2> QED BY <2>7, <2>8
<1> QED BY <1>1, <1>4, <1>5

\* Psar.
BarRange == [high : Int, low : Int]
PsarMemory ==
    [start : Nat, step : Nat, max : Nat, af : Nat, initialised : BOOLEAN, hasEmitted : BOOLEAN,
     long : BOOLEAN, sar : Int, ep : Int, prev : BarRange, prev2 : BarRange]

IsCandle(c) ==
    /\ c.high \in Int /\ c.low \in Int /\ c.close \in Int
    /\ c.low <= c.close /\ c.close <= c.high

\* The stop is outside the two candles before, and the extreme point beyond the
\* last of them: a factor above one takes the stop past the point, the clamp back.
PsarSound(s) ==
    IF s.long THEN s.sar <= s.prev.low /\ s.sar <= s.prev2.low /\ s.prev.low <= s.ep
    ELSE s.sar >= s.prev.high /\ s.sar >= s.prev2.high /\ s.prev.high >= s.ep

\* The second half of update: the record m, moved, meets the candle.
Reverses(m, c) == IF m.long THEN c.low <= m.sar ELSE c.high >= m.sar
PsarSettled(m, c) ==
    [IF Reverses(m, c) THEN Reversed(m, c) ELSE Extended(m, c)
        EXCEPT !.prev2 = m.prev, !.prev = Bounds(c), !.hasEmitted = TRUE]

LEMMA PsarFields ==
    ASSUME NEW m \in PsarMemory
    PROVE  /\ m.start \in Nat /\ m.step \in Nat /\ m.max \in Nat /\ m.af \in Nat
           /\ m.initialised \in BOOLEAN /\ m.hasEmitted \in BOOLEAN /\ m.long \in BOOLEAN
           /\ m.sar \in Int /\ m.ep \in Int /\ m.prev \in BarRange /\ m.prev2 \in BarRange
           /\ m.prev.low \in Int /\ m.prev.high \in Int
           /\ m.prev2.low \in Int /\ m.prev2.high \in Int
  BY DEF PsarMemory, BarRange

LEMMA PsarSettles ==
    ASSUME NEW m \in PsarMemory, NEW c, IsCandle(c), NEW t, t = PsarSettled(m, c),
           ~Reverses(m, c) => IF m.long THEN m.sar <= m.prev.low ELSE m.sar >= m.prev.high
    PROVE  /\ t \in PsarMemory /\ t.prev = Bounds(c) /\ t.prev2 = m.prev
           /\ t.hasEmitted /\ t.initialised = m.initialised
           /\ PsarSound(t)
           /\ t.long # m.long <=> Reverses(m, c)
           /\ ~Reverses(m, c) => t.sar = m.sar
           /\ ~Through(t.long, c.close, t.sar)
<1>1. /\ c.high \in Int /\ c.low \in Int /\ c.close \in Int
      /\ c.low <= c.close /\ c.close <= c.high
      /\ Bounds(c) \in BarRange /\ Bounds(c).low = c.low /\ Bounds(c).high = c.high
  BY DEF IsCandle, Bounds, BarRange
<1>2. ASSUME NEW r \in PsarMemory, t = [r EXCEPT !.prev2 = m.prev, !.prev = Bounds(c), !.hasEmitted = TRUE]
      PROVE  /\ t \in PsarMemory /\ t.prev = Bounds(c) /\ t.prev2 = m.prev
             /\ t.hasEmitted /\ t.initialised = r.initialised
             /\ t.long = r.long /\ t.sar = r.sar /\ t.ep = r.ep
  BY <1>1, <1>2, PsarFields DEF PsarMemory
<1>3. CASE Reverses(m, c)
  <2> DEFINE r == Reversed(m, c)
             sar == IF m.long THEN Larger(Larger(m.ep, m.prev.high), c.high)
                    ELSE Smaller(Smaller(m.ep, m.prev.low), c.low)
             ep == IF m.long THEN c.low ELSE c.high
  <2>1. r = [m EXCEPT !.sar = sar, !.long = ~@, !.ep = ep, !.af = m.start] BY DEF Reversed
  <2>2. sar \in Int /\ ep \in Int BY <1>1, PsarFields DEF Larger, Smaller
  <2> HIDE DEF sar, ep
  <2>3. r \in PsarMemory /\ r.sar = sar /\ r.ep = ep /\ r.long = ~m.long
        /\ r.initialised = m.initialised
    BY <2>1, <2>2, PsarFields DEF PsarMemory
  <2>4. t = [r EXCEPT !.prev2 = m.prev, !.prev = Bounds(c), !.hasEmitted = TRUE]
    BY <1>3 DEF PsarSettled
  <2> HIDE DEF r
  <2>5. /\ t \in PsarMemory /\ t.prev = Bounds(c) /\ t.prev2 = m.prev
        /\ t.hasEmitted /\ t.initialised = m.initialised
        /\ t.long = ~m.long /\ t.sar = sar /\ t.ep = ep
    BY <1>2, <2>3, <2>4
  <2>6. t.prev.low = c.low /\ t.prev.high = c.high BY <1>1, <2>5
  <2>7. CASE m.long
    <3>1. ~t.long /\ sar >= m.prev.high /\ sar >= c.high /\ ep = c.low
      BY <1>1, <2>5, <2>7, PsarFields DEF sar, ep, Larger
    <3>2. PsarSound(t) BY <1>1, <2>2, <2>5, <2>6, <3>1, PsarFields DEF PsarSound
    <3>3. ~Through(t.long, c.close, t.sar) BY <1>1, <2>2, <2>5, <3>1 DEF Through
    <3> QED BY <1>3, <2>5, <2>7, <3>1, <3>2, <3>3
  <2>8. CASE ~m.long
    <3>1. t.long /\ sar <= m.prev.low /\ sar <= c.low /\ ep = c.high
      BY <1>1, <2>5, <2>8, PsarFields DEF sar, ep, Smaller
    <3>2. PsarSound(t) BY <1>1, <2>2, <2>5, <2>6, <3>1, PsarFields DEF PsarSound
    <3>3. ~Through(t.long, c.close, t.sar) BY <1>1, <2>2, <2>5, <3>1 DEF Through
    <3> QED BY <1>3, <2>5, <2>8, <3>1, <3>2, <3>3
  <2> QED BY <2>7, <2>8
<1>4. CASE ~Reverses(m, c)
  <2> DEFINE r == Extended(m, c)
  <2>1. PICK ep \in Int, af \in Nat :
            /\ r = [m EXCEPT !.ep = ep, !.af = af]
            /\ IF m.long THEN ep >= c.high ELSE ep <= c.low
    <3>1. CASE (m.long /\ c.high > m.ep) \/ (~m.long /\ c.low < m.ep)
      <4> DEFINE ep == IF m.long THEN c.high ELSE c.low
                 af == Smaller(m.af + m.step, m.max)
      <4>1. ep \in Int /\ af \in Nat /\ IF m.long THEN ep >= c.high ELSE ep <= c.low
        BY <1>1, <3>1, PsarFields DEF Smaller
      <4>2. r = [m EXCEPT !.ep = ep, !.af = af] BY <3>1 DEF Extended
      <4> HIDE DEF ep, af
      <4> QED BY <4>1, <4>2
    <3>2. CASE ~((m.long /\ c.high > m.ep) \/ (~m.long /\ c.low < m.ep))
      <4>1. r = m BY <3>2 DEF Extended
      <4>2. r = [m EXCEPT !.ep = m.ep, !.af = m.af] BY <4>1 DEF PsarMemory
      <4>3. m.ep \in Int /\ m.af \in Nat /\ IF m.long THEN m.ep >= c.high ELSE m.ep <= c.low
        BY <1>1, <3>2, PsarFields
      <4> HIDE DEF r
      <4> QED BY <4>2, <4>3
    <3> QED BY <3>1, <3>2
  <2> HIDE DEF r
  <2>2. r \in PsarMemory /\ r.sar = m.sar /\ r.ep = ep /\ r.long = m.long
        /\ r.initialised = m.initialised
    BY <2>1, PsarFields DEF PsarMemory
  <2>3. t = [r EXCEPT !.prev2 = m.prev, !.prev = Bounds(c), !.hasEmitted = TRUE]
    BY <1>4 DEF PsarSettled, r
  <2>4. /\ t \in PsarMemory /\ t.prev = Bounds(c) /\ t.prev2 = m.prev
        /\ t.hasEmitted /\ t.initialised = m.initialised
        /\ t.long = m.long /\ t.sar = m.sar /\ t.ep = ep
    BY <1>2, <2>2, <2>3
  <2>5. t.prev.low = c.low /\ t.prev.high = c.high BY <1>1, <2>4
  <2>6. CASE m.long
    <3>1. m.sar < c.low /\ m.sar <= m.prev.low /\ ep >= c.low
      BY <1>1, <1>4, <2>1, <2>6, PsarFields DEF Reverses
    <3>2. PsarSound(t) BY <1>1, <2>1, <2>4, <2>5, <2>6, <3>1, PsarFields DEF PsarSound
    <3>3. ~Through(t.long, c.close, t.sar) BY <1>1, <2>4, <2>6, <3>1, PsarFields DEF Through
    <3> QED BY <1>4, <2>4, <3>2, <3>3
  <2>7. CASE ~m.long
    <3>1. m.sar > c.high /\ m.sar >= m.prev.high /\ ep <= c.high
      BY <1>1, <1>4, <2>1, <2>7, PsarFields DEF Reverses
    <3>2. PsarSound(t) BY <1>1, <2>1, <2>4, <2>5, <2>7, <3>1, PsarFields DEF PsarSound
    <3>3. ~Through(t.long, c.close, t.sar) BY <1>1, <2>4, <2>7, <3>1, PsarFields DEF Through
    <3> QED BY <1>4, <2>4, <3>2, <3>3
  <2> QED BY <2>6, <2>7
<1> QED BY <1>3, <1>4

\* The first candle is remembered; the second picks the side.
LEMMA PsarStarts ==
    ASSUME NEW s \in PsarMemory, NEW c, IsCandle(c), NEW t, t = PsarUpdated(s, c), ~s.initialised
    PROVE  /\ t \in PsarMemory /\ t.initialised /\ t.hasEmitted = s.hasEmitted
           /\ t.prev = Bounds(c)
<1>1. t = [s EXCEPT !.initialised = TRUE, !.prev = Bounds(c)] BY DEF PsarUpdated
<1>2. Bounds(c) \in BarRange BY DEF IsCandle, Bounds, BarRange
<1> QED BY <1>1, <1>2, PsarFields DEF PsarMemory

LEMMA PsarSeeds ==
    ASSUME NEW s \in PsarMemory, NEW c, IsCandle(c), NEW t, t = PsarUpdated(s, c),
           s.initialised, ~s.hasEmitted
    PROVE  /\ t \in PsarMemory /\ t.initialised /\ t.hasEmitted
           /\ t.prev = Bounds(c) /\ PsarSound(t)
<1> DEFINE m == SeedPsar(s, c)
           down == s.prev.low - c.low > Larger(c.high - s.prev.high, 0)
           sar == IF down THEN s.prev.high ELSE s.prev.low
           ep == IF down THEN c.low ELSE c.high
<1>1. /\ c.high \in Int /\ c.low \in Int /\ c.low <= c.high
      /\ Bounds(c) \in BarRange /\ Bounds(c).low = c.low /\ Bounds(c).high = c.high
  BY DEF IsCandle, Bounds, BarRange
<1>2. t = PsarSettled(m, c) BY DEF PsarUpdated, PsarSettled, Reverses
<1>3. m = [s EXCEPT !.long = ~down, !.sar = sar, !.ep = ep, !.prev = Bounds(c)]
  BY DEF SeedPsar
<1>4. sar \in Int /\ ep \in Int /\ down \in BOOLEAN /\ (down => ep = c.low) /\ (~down => ep = c.high)
  BY <1>1, PsarFields
<1> HIDE DEF down, sar, ep, m
<1>5. /\ m \in PsarMemory /\ m.prev = Bounds(c) /\ m.long = ~down /\ m.sar = sar /\ m.ep = ep
      /\ m.initialised = s.initialised
  BY <1>1, <1>3, <1>4, PsarFields DEF PsarMemory
<1>6. ~Reverses(m, c) => IF m.long THEN m.sar <= m.prev.low ELSE m.sar >= m.prev.high
  <2>1. m.prev.low = c.low /\ m.prev.high = c.high BY <1>1, <1>5
  <2> QED BY <1>1, <1>4, <1>5, <2>1 DEF Reverses
<1>7. /\ t \in PsarMemory /\ t.prev = Bounds(c) /\ t.hasEmitted /\ t.initialised = m.initialised
      /\ PsarSound(t)
  <2>1. m \in PsarMemory BY <1>5
  <2> HIDE DEF m
  <2>2. CASE Reverses(m, c)
    BY <1>2, <2>1, <2>2, PsarSettles
  <2>3. CASE ~Reverses(m, c)
    <3>1. IF m.long THEN m.sar <= m.prev.low ELSE m.sar >= m.prev.high BY <1>6, <2>3
    <3> QED BY <1>2, <2>1, <3>1, PsarSettles
  <2> QED BY <2>2, <2>3
<1> QED BY <1>5, <1>7

\* From then on the stop follows the candles.
LEMMA PsarFollows ==
    ASSUME NEW s \in PsarMemory, NEW c, IsCandle(c), NEW t, t = PsarUpdated(s, c),
           s.initialised, s.hasEmitted, PsarSound(s)
    PROVE  /\ t \in PsarMemory /\ t.initialised /\ t.hasEmitted
           /\ t.prev = Bounds(c) /\ t.prev2 = s.prev /\ PsarSound(t)
           /\ (IF s.long THEN c.low <= s.sar ELSE c.high >= s.sar) => t.long # s.long
           /\ t.long = s.long =>
                /\ t.sar = Tighter(t.long, t.sar, s.sar)
                /\ IF t.long THEN t.sar <= s.prev.low /\ t.sar <= s.prev2.low
                   ELSE t.sar >= s.prev.high /\ t.sar >= s.prev2.high
           /\ ~Through(t.long, c.close, t.sar)
<1> DEFINE m == [s EXCEPT !.sar = Predicted(s)]
           next == s.sar + (s.af * (s.ep - s.sar)) \div Scale
           sar == Predicted(s)
<1>1. c.high \in Int /\ c.low \in Int BY DEF IsCandle
<1>2. t = PsarSettled(m, c) BY DEF PsarUpdated, PsarSettled, Reverses
<1>3. next \in Int /\ IF s.long THEN next >= s.sar ELSE next <= s.sar
  <2> DEFINE way == s.af * (s.ep - s.sar)
             q == way \div Scale
  <2>1. s.af \in Nat /\ s.ep - s.sar \in Int /\ s.sar \in Int /\ Scale \in Int /\ Scale > 0
    BY PsarFields, ScaleAssumption
  <2>2. way \in Int /\ IF s.long THEN way >= 0 ELSE way <= 0
    <3>1. way \in Int BY <2>1
    <3>2. CASE s.long
      <4>1. s.ep - s.sar \in Nat BY <2>1, <3>2, PsarFields DEF PsarSound
      <4> QED BY <2>1, <3>1, <3>2, <4>1, ProductOfNats
    <3>3. CASE ~s.long
      <4>1. s.sar - s.ep \in Nat BY <2>1, <3>3, PsarFields DEF PsarSound
      <4>2. s.af * (s.sar - s.ep) \in Nat BY <2>1, <4>1, ProductOfNats
      <4>3. s.af * (s.sar - s.ep) = -way BY <2>1, PsarFields
      <4> HIDE DEF way
      <4> QED BY <3>1, <3>3, <4>2, <4>3
    <3> QED BY <3>2, <3>3
  <2> HIDE DEF way
  <2>3. q \in Int /\ q * Scale \in Int /\ q * Scale <= way /\ way < q * Scale + Scale
    BY <2>1, <2>2, Divided
  <2>4. way >= 0 => q >= 0
    <3> SUFFICES ASSUME way >= 0, q < 0 PROVE FALSE
      BY <2>3
    <3>1. q + 1 <= 0 /\ Scale \in Nat BY <2>1, <2>3
    <3>2. (q + 1) * Scale <= 0 * Scale BY <2>3, <3>1, ProductsCompare
    <3>3. (q + 1) * Scale = q * Scale + Scale /\ 0 * Scale = 0 BY <2>1, <2>3
    <3> HIDE DEF q
    <3> QED BY <2>1, <2>2, <2>3, <3>2, <3>3
  <2>5. way <= 0 => q <= 0
    <3> SUFFICES ASSUME way <= 0, q > 0 PROVE FALSE
      BY <2>3
    <3>1. 1 <= q /\ Scale \in Nat BY <2>1, <2>3
    <3>2. 1 * Scale <= q * Scale BY <2>3, <3>1, ProductsCompare
    <3> HIDE DEF q
    <3> QED BY <2>1, <2>2, <2>3, <3>2
  <2>6. next = s.sar + q BY DEF way
  <2> HIDE DEF q, next
  <2> QED BY <2>1, <2>2, <2>3, <2>4, <2>5, <2>6
<1>4. sar = IF s.long THEN Smaller(Smaller(next, s.prev.low), s.prev2.low)
            ELSE Larger(Larger(next, s.prev.high), s.prev2.high)
  BY DEF Predicted
<1> HIDE DEF next, sar
<1>5. /\ sar \in Int
      /\ s.long => sar >= s.sar /\ sar <= s.prev.low /\ sar <= s.prev2.low /\ sar <= next
      /\ ~s.long => sar <= s.sar /\ sar >= s.prev.high /\ sar >= s.prev2.high /\ sar >= next
  BY <1>3, <1>4, PsarFields DEF PsarSound, Larger, Smaller
<1>6. /\ m \in PsarMemory /\ m.sar = sar /\ m.prev = s.prev /\ m.ep = s.ep
      /\ m.long = s.long /\ m.initialised = s.initialised
  BY <1>5, PsarFields DEF PsarMemory, sar
<1>7. IF m.long THEN m.sar <= m.prev.low ELSE m.sar >= m.prev.high BY <1>5, <1>6, PsarFields
<1>8. /\ t \in PsarMemory /\ t.prev = Bounds(c) /\ t.prev2 = m.prev
      /\ t.hasEmitted /\ t.initialised = m.initialised
      /\ PsarSound(t)
      /\ t.long # m.long <=> Reverses(m, c)
      /\ ~Reverses(m, c) => t.sar = m.sar
      /\ ~Through(t.long, c.close, t.sar)
  BY <1>2, <1>6, <1>7, PsarSettles
<1> HIDE DEF m
<1>9. (IF s.long THEN c.low <= s.sar ELSE c.high >= s.sar) => Reverses(m, c)
  BY <1>1, <1>5, <1>6, PsarFields DEF Reverses
<1>10. ASSUME t.long = s.long
       PROVE  /\ t.sar = Tighter(t.long, t.sar, s.sar)
              /\ IF t.long THEN t.sar <= s.prev.low /\ t.sar <= s.prev2.low
                 ELSE t.sar >= s.prev.high /\ t.sar >= s.prev2.high
  <2>1. t.sar = sar BY <1>6, <1>8, <1>10
  <2> QED BY <1>5, <1>10, <2>1, PsarFields DEF Tighter, Larger, Smaller
<1> QED BY <1>6, <1>8, <1>9, <1>10


-----------------------------------------------------------------------------
(* The indicator around the stops: its memory is of the kind it was made   *)
(* for, and its last answer is what the memory says.                       *)

WatchSpec == WatchInit /\ [][WatchNext]_watchVars

\* NRTR's line is on its side of prices that are not negative only.
NrtrPricesAssumption ==
    \A w \in Watchers : w.kind = "nrtr" => \A c \in Shown(w) : c.close >= 0

MemoryOf(kind) ==
    CASE kind \in {"percentage", "step"} -> {s \in TrailMemory : s.kind = kind}
      [] kind = "renko_stop" -> RenkoMemory
      [] kind = "nrtr" -> NrtrMemory
      [] kind = "psar" -> PsarMemory

\* Is there a stop?
Stopped(kind, s) ==
    CASE kind \in {"percentage", "step"} -> s.stop # <<>>
      [] kind = "renko_stop" -> s.anchor # <<>>
      [] kind = "nrtr" -> s.direction # 0
      [] kind = "psar" -> s.hasEmitted

StopOf(kind, s) ==
    CASE kind \in {"percentage", "step"} -> [stop |-> s.stop[1], long |-> s.long]
      [] kind = "renko_stop" -> [stop |-> RenkoStop(s), long |-> s.long]
      [] kind = "nrtr" -> [stop |-> Line(s), long |-> s.direction > 0]
      [] kind = "psar" -> [stop |-> s.sar, long |-> s.long]

\* What a Psar remembers of the candles shown.
PsarRemembers ==
    LET n == Len(shown)
    IN  /\ memory.initialised <=> n > 0
        /\ memory.hasEmitted <=> n > 1
        /\ n > 0 => memory.prev = Bounds(shown[n])
        /\ n > 2 => memory.prev2 = Bounds(shown[n - 1])
        /\ n > 1 => PsarSound(memory)

StopInv ==
    /\ watcher \in Watchers
    /\ watcher.kind \in Trailing =>
          /\ shown \in Seq(Shown(watcher))
          /\ answers \in Seq(Stop \cup {<<>>})
          /\ Len(answers) = Len(shown)
          /\ memory \in MemoryOf(watcher.kind)
          /\ watcher.kind = "psar" => PsarRemembers
          /\ watcher.kind # "psar" /\ shown # <<>> => Stopped(watcher.kind, memory)
          /\ Stopped(watcher.kind, memory) =>
                /\ shown # <<>>
                /\ answers[Len(answers)] = StopOf(watcher.kind, memory)
    /\ StopHolds

\* What the answer to a price that was not the first says.
Trails(before, now, price) ==
    Follows(before, now, price) /\ ~Through(now.long, price, now.stop)

LEMMA TrailingCases ==
    ASSUME watcher.kind \in Trailing
    PROVE  \/ watcher.kind \in {"percentage", "step"} \/ watcher.kind = "renko_stop"
           \/ watcher.kind = "nrtr" \/ watcher.kind = "psar"
  BY DEF Trailing

LEMMA NewStops ==
    ASSUME watcher \in Watchers, watcher.kind \in Trailing, NEW s, s = NewWatcher(watcher)
    PROVE  /\ s \in MemoryOf(watcher.kind) /\ ~Stopped(watcher.kind, s)
           /\ watcher.kind = "psar" => ~s.initialised /\ ~s.hasEmitted
<1>1. watcher.size \in Nat \ {0} /\ watcher.span \in Nat \ {0}
      /\ (watcher.kind = "nrtr" => watcher.size < Scale)
  BY CandleIndicatorAssumption
<1>2. CASE watcher.kind \in {"percentage", "step"}
  <2>1. s = NewTrail(watcher.kind, watcher.size) BY <1>2 DEF NewWatcher
  <2>2. s \in TrailMemory /\ s.kind = watcher.kind /\ s.stop = <<>>
    BY <1>1, <1>2, <2>1 DEF NewTrail, TrailMemory
  <2> QED BY <1>2, <2>2 DEF MemoryOf, Stopped
<1>3. CASE watcher.kind = "renko_stop"
  <2>1. s = NewRenkoStop(watcher.size) BY <1>3 DEF NewWatcher
  <2> QED BY <1>1, <1>3, <2>1 DEF NewRenkoStop, MemoryOf, RenkoMemory, Stopped
<1>4. CASE watcher.kind = "nrtr"
  <2>1. s = NewNrtr(watcher.size) BY <1>4 DEF NewWatcher
  <2>2. watcher.size \in 1 .. Scale - 1 BY <1>1, <1>4, ScaleAssumption
  <2> QED BY <1>4, <2>1, <2>2 DEF NewNrtr, MemoryOf, NrtrMemory, Stopped
<1>5. CASE watcher.kind = "psar"
  <2>1. s = NewPsar(watcher.size, watcher.span, 2 * watcher.size + watcher.span)
    BY <1>5 DEF NewWatcher
  <2>2. 2 * watcher.size + watcher.span \in Nat BY <1>1
  <2> QED BY <1>1, <1>5, <2>1, <2>2 DEF NewPsar, MemoryOf, PsarMemory, BarRange, Stopped
<1> QED BY <1>2, <1>3, <1>4, <1>5, TrailingCases

\* The four kinds that answer the first candle.
LEMMA StopStep ==
    ASSUME NrtrPricesAssumption, watcher \in Watchers,
           watcher.kind \in Trailing, watcher.kind # "psar",
           NEW s \in MemoryOf(watcher.kind), NEW c \in Shown(watcher),
           NEW t, t = Watched(watcher.kind, s, c)
    PROVE  /\ t \in MemoryOf(watcher.kind) /\ Stopped(watcher.kind, t)
           /\ StopOf(watcher.kind, t) \in Stop
           /\ AnswerOf(watcher.kind, s, t, c) = StopOf(watcher.kind, t)
           /\ Stopped(watcher.kind, s) =>
                Trails(StopOf(watcher.kind, s), StopOf(watcher.kind, t), Price(watcher.kind, c.close))
<1> DEFINE kind == watcher.kind
           close == c.close
<1>1. close \in Int /\ (kind = "nrtr" => close \in Nat)
  BY CandleIndicatorAssumption DEF NrtrPricesAssumption
<1>2. CASE kind \in {"percentage", "step"}
  <2>1. s \in TrailMemory /\ s.kind = kind BY <1>2 DEF MemoryOf
  <2>2. t = TrailUpdated(s, close) BY <1>2 DEF Watched
  <2>3. /\ t \in TrailMemory /\ t.stop \in One(Int) /\ t.kind = s.kind
        /\ s.stop # <<>> => s.stop[1] \in Int
             /\ Follows([stop |-> s.stop[1], long |-> s.long],
                        [stop |-> t.stop[1], long |-> t.long], Price(s.kind, close))
        /\ ~Through(t.long, Price(s.kind, close), t.stop[1])
    BY <1>1, <2>1, <2>2, TrailFollows
  <2>4. t.stop # <<>> /\ t.stop[1] \in Int /\ t.long \in BOOLEAN
    BY <2>3 DEF One, TrailMemory
  <2>5. /\ StopOf(kind, s) = [stop |-> s.stop[1], long |-> s.long]
        /\ StopOf(kind, t) = [stop |-> t.stop[1], long |-> t.long]
        /\ (Stopped(kind, s) <=> s.stop # <<>>) /\ (Stopped(kind, t) <=> t.stop # <<>>)
    BY <1>2 DEF StopOf, Stopped
  <2>6. AnswerOf(kind, s, t, c) = [stop |-> t.stop[1], long |-> t.long] BY <1>2 DEF AnswerOf
  <2>7. t \in MemoryOf(kind) BY <1>2, <2>1, <2>3 DEF MemoryOf
  <2>8. ASSUME Stopped(kind, s)
        PROVE  Trails(StopOf(kind, s), StopOf(kind, t), Price(kind, close))
    BY <2>1, <2>3, <2>5, <2>8 DEF Trails
  <2> QED BY <2>3, <2>4, <2>5, <2>6, <2>7, <2>8 DEF Stop
<1>3. CASE kind = "renko_stop"
  <2>1. s \in RenkoMemory BY <1>3 DEF MemoryOf
  <2>2. t = RenkoStopUpdated(s, close) BY <1>3 DEF Watched
  <2>3. /\ t \in RenkoMemory /\ t.anchor \in One(Int) /\ RenkoStop(t) \in Int
        /\ s.anchor # <<>> => RenkoStop(s) \in Int
             /\ Follows([stop |-> RenkoStop(s), long |-> s.long],
                        [stop |-> RenkoStop(t), long |-> t.long], close)
        /\ ~Through(t.long, close, RenkoStop(t))
    BY <1>1, <2>1, <2>2, RenkoFollows
  <2>4. t.anchor # <<>> /\ t.long \in BOOLEAN
    <3>1. t.anchor # <<>> BY <2>3 DEF One
    <3>2. t.long \in BOOLEAN BY <2>3 DEF RenkoMemory
    <3> QED BY <3>1, <3>2
  <2>5. /\ StopOf(kind, s) = [stop |-> RenkoStop(s), long |-> s.long]
        /\ StopOf(kind, t) = [stop |-> RenkoStop(t), long |-> t.long]
        /\ (Stopped(kind, s) <=> s.anchor # <<>>) /\ (Stopped(kind, t) <=> t.anchor # <<>>)
        /\ Price(kind, close) = close
    BY <1>3 DEF StopOf, Stopped, Price
  <2>6. AnswerOf(kind, s, t, c) = [stop |-> RenkoStop(t), long |-> t.long]
    BY <1>3 DEF AnswerOf
  <2>7. t \in MemoryOf(kind) BY <1>3, <2>3 DEF MemoryOf
  <2>8. ASSUME Stopped(kind, s)
        PROVE  Trails(StopOf(kind, s), StopOf(kind, t), Price(kind, close))
    BY <2>3, <2>5, <2>8 DEF Trails
  <2> QED BY <2>3, <2>4, <2>5, <2>6, <2>7, <2>8 DEF Stop
<1>4. CASE kind = "nrtr"
  <2>1. s \in NrtrMemory BY <1>4 DEF MemoryOf
  <2>2. t = NrtrUpdated(s, close) BY <1>4 DEF Watched
  <2>3. /\ t \in NrtrMemory /\ t.direction # 0 /\ Line(t) \in Int
        /\ s.direction # 0 => Line(s) \in Int
             /\ Follows([stop |-> Line(s), long |-> s.direction > 0],
                        [stop |-> Line(t), long |-> t.direction > 0], close * Scale)
        /\ ~Through(t.direction > 0, close * Scale, Line(t))
    BY <1>1, <1>4, <2>1, <2>2, NrtrFollows
  <2>5. /\ StopOf(kind, s) = [stop |-> Line(s), long |-> s.direction > 0]
        /\ StopOf(kind, t) = [stop |-> Line(t), long |-> t.direction > 0]
        /\ (Stopped(kind, s) <=> s.direction # 0) /\ (Stopped(kind, t) <=> t.direction # 0)
        /\ Price(kind, close) = close * Scale
    BY <1>4 DEF StopOf, Stopped, Price
  <2>6. AnswerOf(kind, s, t, c) = [stop |-> Line(t), long |-> t.direction > 0]
    BY <1>4 DEF AnswerOf
  <2>7. t \in MemoryOf(kind) BY <1>4, <2>3 DEF MemoryOf
  <2>8. ASSUME Stopped(kind, s)
        PROVE  Trails(StopOf(kind, s), StopOf(kind, t), Price(kind, close))
    BY <2>3, <2>5, <2>8 DEF Trails
  <2> QED BY <2>3, <2>5, <2>6, <2>7, <2>8 DEF Stop
<1> QED BY <1>2, <1>3, <1>4, TrailingCases

LEMMA PsarStep ==
    ASSUME NEW s \in PsarMemory, NEW c, IsCandle(c), NEW t, t = PsarUpdated(s, c),
           watcher.kind = "psar",
           NEW n \in Nat, s.initialised <=> n > 0, s.hasEmitted <=> n > 1,
           n > 1 => PsarSound(s)
    PROVE  /\ t \in PsarMemory /\ t.initialised /\ (t.hasEmitted <=> n > 0)
           /\ t.prev = Bounds(c) /\ (n > 1 => t.prev2 = s.prev)
           /\ n > 0 => PsarSound(t)
           /\ AnswerOf("psar", s, t, c) = IF n > 0 THEN StopOf("psar", t) ELSE <<>>
           /\ StopOf("psar", t) \in Stop
<1>1. CASE n = 0
  <2>1. t \in PsarMemory /\ t.initialised /\ t.hasEmitted = s.hasEmitted /\ t.prev = Bounds(c)
    BY <1>1, PsarStarts
  <2>2. ~t.hasEmitted BY <1>1, <2>1
  <2>3. AnswerOf("psar", s, t, c) = <<>> BY <2>2 DEF AnswerOf
  <2>4. StopOf("psar", t) \in Stop BY <2>1, PsarFields DEF StopOf, Stop
  <2> QED BY <1>1, <2>1, <2>2, <2>3, <2>4
<1>2. CASE n # 0
  <2>1. /\ t \in PsarMemory /\ t.initialised /\ t.hasEmitted /\ t.prev = Bounds(c)
        /\ PsarSound(t) /\ (n > 1 => t.prev2 = s.prev)
    <3>1. CASE n = 1
      BY <3>1, PsarSeeds
    <3>2. CASE n > 1
      BY <3>2, PsarFollows
    <3> QED BY <1>2, <3>1, <3>2
  <2>3. AnswerOf("psar", s, t, c) = StopOf("psar", t) BY <2>1 DEF AnswerOf, StopOf
  <2>4. StopOf("psar", t) \in Stop BY <2>1, PsarFields DEF StopOf, Stop
  <2> QED BY <1>2, <2>1, <2>3, <2>4
<1> QED BY <1>1, <1>2

\* What Show appends.
LEMMA Showing ==
    ASSUME StopInv, watcher.kind \in Trailing, NEW c \in Shown(watcher), Show(c)
    PROVE  LET n == Len(shown)
           IN  /\ n \in Nat /\ Len(shown') = n + 1 /\ Len(answers') = n + 1
               /\ shown' \in Seq(Shown(watcher))
               /\ shown'[n + 1] = c
               /\ answers'[n + 1] = AnswerOf(watcher.kind, memory, memory', c)
               /\ \A i \in 1 .. n : shown'[i] = shown[i] /\ answers'[i] = answers[i]
               /\ \A x \in Stop \cup {<<>>} : answers'[n + 1] = x => answers' \in Seq(Stop \cup {<<>>})
<1> DEFINE n == Len(shown)
           a == AnswerOf(watcher.kind, memory, memory', c)
<1>1. /\ shown \in Seq(Shown(watcher)) /\ answers \in Seq(Stop \cup {<<>>})
      /\ Len(answers) = n
  BY DEF StopInv
<1>2. shown' = Append(shown, c) /\ answers' = Append(answers, a) BY DEF Show
<1> HIDE DEF a
<1>3. /\ shown' \in Seq(Shown(watcher)) /\ Len(shown') = n + 1 /\ n \in Nat
      /\ shown'[n + 1] = c /\ \A i \in 1 .. n : shown'[i] = shown[i]
  BY <1>1, <1>2, AppendProperties, LenProperties
<1>4. /\ Len(answers') = n + 1
      /\ answers'[n + 1] = a /\ \A i \in 1 .. n : answers'[i] = answers[i]
  BY <1>1, <1>2
<1>5. ASSUME NEW x \in Stop \cup {<<>>}, answers'[n + 1] = x
      PROVE  answers' \in Seq(Stop \cup {<<>>})
  BY <1>1, <1>2, <1>4, <1>5, AppendProperties
<1> QED BY <1>3, <1>4, <1>5 DEF a

LEMMA StopHoldsOfFew ==
    ASSUME Len(shown) < 2
    PROVE  StopHolds
  BY DEF StopHolds

LEMMA ShowStop ==
    ASSUME NrtrPricesAssumption, StopInv, NEW c \in Shown(watcher), Show(c),
           watcher.kind \in Trailing, watcher.kind # "psar"
    PROVE  StopInv'
<1> DEFINE n == Len(shown)
           kind == watcher.kind
           old == StopOf(kind, memory)
           now == StopOf(kind, memory')
           price == Price(kind, c.close)
<1>1. /\ watcher \in Watchers /\ shown \in Seq(Shown(watcher)) /\ memory \in MemoryOf(kind)
      /\ shown # <<>> => Stopped(kind, memory)
      /\ Stopped(kind, memory) => shown # <<>> /\ answers[Len(answers)] = old
      /\ Len(answers) = n
  BY DEF StopInv
<1>2. watcher' = watcher /\ memory' = Watched(kind, memory, c) BY DEF Show
<1>3. /\ memory' \in MemoryOf(kind) /\ Stopped(kind, memory') /\ now \in Stop
      /\ AnswerOf(kind, memory, memory', c) = now
      /\ Stopped(kind, memory) => Trails(old, now, price)
  BY <1>1, <1>2, StopStep
<1>4. /\ n \in Nat /\ Len(shown') = n + 1 /\ Len(answers') = n + 1
      /\ shown' \in Seq(Shown(watcher))
      /\ shown'[n + 1] = c
      /\ answers'[n + 1] = AnswerOf(kind, memory, memory', c)
      /\ \A i \in 1 .. n : shown'[i] = shown[i] /\ answers'[i] = answers[i]
      /\ \A x \in Stop \cup {<<>>} : answers'[n + 1] = x => answers' \in Seq(Stop \cup {<<>>})
  BY Showing
<1>5. answers' \in Seq(Stop \cup {<<>>}) /\ answers'[n + 1] = now /\ shown' # <<>>
  BY <1>3, <1>4
<1>6. StopHolds'
  <2>1. CASE n = 0
    BY <1>4, <2>1, StopHoldsOfFew DEF StopHolds
  <2>2. CASE n > 0
    <3>1. answers'[n] = old /\ Trails(old, now, price)
      <4>1. shown # <<>> BY <1>1, <2>2
      <4>2. n \in 1 .. n BY <1>4, <2>2
      <4> QED BY <1>1, <1>3, <1>4, <4>1, <4>2
    <3> DEFINE before == answers'[Len(shown') - 1]
               after == answers'[Len(shown')]
    <3>2. before = old /\ after = now /\ shown'[Len(shown')] = c
      <4>1. Len(shown') - 1 = n BY <1>4
      <4> QED BY <1>4, <1>5, <3>1, <4>1
    <3> HIDE DEF old, now, price, before, after
    <3>3. /\ Through(old.long, price, old.stop) <=> (old.long # now.long)
          /\ ~(old.long # now.long) => now.stop = Tighter(now.long, now.stop, old.stop)
          /\ ~Through(now.long, price, now.stop)
      BY <3>1 DEF Trails, Follows
    <3>4. Price(kind, (shown'[Len(shown')]).close) = price BY <3>2 DEF price
    <3>5. /\ Through(before.long, price, before.stop) <=> (before.long # after.long)
          /\ ~(before.long # after.long) => after.stop = Tighter(after.long, after.stop, before.stop)
          /\ ~Through(after.long, price, after.stop)
      BY <3>2, <3>3
    <3> QED BY <1>2, <3>4, <3>5 DEF StopHolds, Hit, before, after
  <2> QED BY <1>4, <2>1, <2>2
<1> HIDE DEF now
<1>7. answers'[Len(answers')] = now BY <1>4, <1>5
<1> QED BY <1>1, <1>2, <1>3, <1>4, <1>5, <1>6, <1>7 DEF StopInv, now

LEMMA ShowPsar ==
    ASSUME StopInv, NEW c \in Shown(watcher), Show(c), watcher.kind = "psar"
    PROVE  StopInv'
<1> DEFINE n == Len(shown)
           old == StopOf("psar", memory)
           now == StopOf("psar", memory')
<1>1. /\ watcher \in Watchers /\ watcher.kind \in Trailing
      /\ shown \in Seq(Shown(watcher)) /\ memory \in PsarMemory /\ PsarRemembers
      /\ Stopped("psar", memory) => shown # <<>> /\ answers[Len(answers)] = old
      /\ Len(answers) = n
  BY DEF StopInv, MemoryOf, Trailing
<1>2. watcher' = watcher /\ memory' = PsarUpdated(memory, c) /\ IsCandle(c)
  BY <1>1, CandleIndicatorAssumption DEF Show, Watched, IsCandle
<1>3. /\ n \in Nat /\ Len(shown') = n + 1 /\ Len(answers') = n + 1
      /\ shown' \in Seq(Shown(watcher))
      /\ shown'[n + 1] = c
      /\ answers'[n + 1] = AnswerOf("psar", memory, memory', c)
      /\ \A i \in 1 .. n : shown'[i] = shown[i] /\ answers'[i] = answers[i]
      /\ \A x \in Stop \cup {<<>>} : answers'[n + 1] = x => answers' \in Seq(Stop \cup {<<>>})
  BY <1>1, Showing
<1>4. /\ memory.initialised <=> n > 0
      /\ memory.hasEmitted <=> n > 1
      /\ n > 0 => memory.prev = Bounds(shown[n])
      /\ n > 2 => memory.prev2 = Bounds(shown[n - 1])
      /\ n > 1 => PsarSound(memory)
  BY <1>1 DEF PsarRemembers
<1>5. /\ memory' \in PsarMemory /\ memory'.initialised /\ (memory'.hasEmitted <=> n > 0)
      /\ memory'.prev = Bounds(c) /\ (n > 1 => memory'.prev2 = memory.prev)
      /\ n > 0 => PsarSound(memory')
      /\ AnswerOf("psar", memory, memory', c) = IF n > 0 THEN now ELSE <<>>
      /\ now \in Stop
  <2> DEFINE s == memory
             t == memory'
  <2>1. s \in PsarMemory /\ IsCandle(c) /\ t = PsarUpdated(s, c) /\ n \in Nat
    BY <1>1, <1>2, <1>3
  <2>2. (s.initialised <=> n > 0) /\ (s.hasEmitted <=> n > 1) /\ (n > 1 => PsarSound(s))
    BY <1>4
  <2> HIDE DEF s, t, n
  <2>3. /\ t \in PsarMemory /\ t.initialised /\ (t.hasEmitted <=> n > 0)
        /\ t.prev = Bounds(c) /\ (n > 1 => t.prev2 = s.prev)
        /\ n > 0 => PsarSound(t)
        /\ AnswerOf("psar", s, t, c) = IF n > 0 THEN StopOf("psar", t) ELSE <<>>
        /\ StopOf("psar", t) \in Stop
    BY <2>1, <2>2, PsarStep
  <2> QED BY <2>3 DEF s, t
<1> HIDE DEF now
<1>6. answers' \in Seq(Stop \cup {<<>>}) /\ (n > 0 => answers'[n + 1] = now) BY <1>3, <1>5
<1>7. PsarRemembers'
  <2>1. Len(shown') = n + 1 /\ shown'[Len(shown')] = c BY <1>3
  <2>2. n > 1 => memory'.prev2 = Bounds(shown'[Len(shown') - 1])
    <3> SUFFICES ASSUME n > 1 PROVE memory'.prev2 = Bounds(shown'[n])
      BY <1>3
    <3>1. n \in 1 .. n BY <1>3
    <3> QED BY <1>3, <1>4, <1>5, <3>1
  <2>3. /\ memory'.initialised <=> Len(shown') > 0
        /\ memory'.hasEmitted <=> Len(shown') > 1
        /\ memory'.prev = Bounds(shown'[Len(shown')])
        /\ Len(shown') > 1 => PsarSound(memory')
    BY <1>3, <1>5, <2>1
  <2>4. Len(shown') > 2 => memory'.prev2 = Bounds(shown'[Len(shown') - 1])
    BY <1>3, <2>1, <2>2
  <2> QED BY <2>3, <2>4 DEF PsarRemembers
<1>8. Stopped("psar", memory') <=> n > 0 BY <1>5 DEF Stopped
<1>9. StopHolds'
  <2>1. CASE n <= 1
    BY <1>2, <1>3, <2>1 DEF StopHolds
  <2>2. CASE n > 1
    <3>1. answers[n] = old
      <4>1. Stopped("psar", memory) BY <1>4, <2>2 DEF Stopped
      <4> QED BY <1>1, <4>1
    <3>2. n \in 1 .. n /\ n - 1 \in 1 .. n /\ n + 1 - 1 = n /\ n + 1 - 2 = n - 1
          /\ n \in Nat /\ n + 1 > 1 /\ n + 1 > 2
      BY <1>3, <2>2
    <3>3. answers'[n + 1 - 1] = old /\ answers'[n + 1] = now /\ shown'[n + 1] = c
          /\ shown'[n + 1 - 1] = shown[n] /\ shown'[n + 1 - 2] = shown[n - 1]
      BY <1>3, <1>6, <2>2, <3>1, <3>2
    <3>4. /\ old.long = memory.long /\ old.stop = memory.sar
          /\ now.long = memory'.long /\ now.stop = memory'.sar
      BY DEF StopOf, now
    <3>5. /\ (IF memory.long THEN c.low <= memory.sar ELSE c.high >= memory.sar)
                => memory'.long # memory.long
          /\ memory'.long = memory.long =>
               /\ memory'.sar = Tighter(memory'.long, memory'.sar, memory.sar)
               /\ IF memory'.long THEN memory'.sar <= memory.prev.low /\ memory'.sar <= memory.prev2.low
                  ELSE memory'.sar >= memory.prev.high /\ memory'.sar >= memory.prev2.high
          /\ ~Through(memory'.long, c.close, memory'.sar)
      BY <1>1, <1>2, <1>4, <2>2, PsarFollows
    <3>6. memory.prev.low = (shown[n]).low /\ memory.prev.high = (shown[n]).high
      BY <1>4, <2>2 DEF Bounds
    <3>7. n > 2 => memory.prev2.low = (shown[n - 1]).low /\ memory.prev2.high = (shown[n - 1]).high
      BY <1>4 DEF Bounds
    <3> DEFINE last == Len(shown')
               before == answers'[last - 1]
               after == answers'[last]
               turned == before.long # after.long
               outside(i) == IF after.long THEN after.stop <= shown'[i].low
                             ELSE after.stop >= shown'[i].high
               candle == shown'[last]
    <3>8. before = old /\ after = now /\ candle = c /\ last = n + 1 BY <1>3, <3>3
    <3> HIDE DEF old, before, after, candle, last
    <3>9. (IF before.long THEN candle.low <= before.stop ELSE candle.high >= before.stop) => turned
      BY <3>4, <3>5, <3>8
    <3>10. ~turned => after.stop = Tighter(after.long, after.stop, before.stop)
      BY <3>4, <3>5, <3>8
    <3>11. ~Through(after.long, candle.close, after.stop) BY <3>4, <3>5, <3>8
    <3>12. ~turned => outside(last - 1) BY <3>3, <3>4, <3>5, <3>6, <3>8
    <3>13. ~turned => (last > 3 => outside(last - 2))
      <4> SUFFICES ASSUME ~turned, last > 3 PROVE outside(last - 2)
        OBVIOUS
      <4>1. n > 2 BY <3>2, <3>8
      <4> QED BY <3>3, <3>4, <3>5, <3>7, <3>8, <4>1
    <3>14. watcher'.kind = "psar" /\ Price("psar", candle.close) = candle.close
      BY <1>2 DEF Price
    <3> HIDE DEF turned, outside
    <3>15. StopHolds' <=>
              \/ ~(last > 2)
              \/ /\ (IF before.long THEN candle.low <= before.stop ELSE candle.high >= before.stop)
                       => turned
                 /\ ~turned => after.stop = Tighter(after.long, after.stop, before.stop)
                 /\ ~Through(after.long, candle.close, after.stop)
                 /\ ~turned => outside(last - 1) /\ (last > 3 => outside(last - 2))
      BY <1>1, <1>2, <3>2, <3>8, <3>14 DEF StopHolds, Hit, before, after, candle, last, turned, outside
    <3> QED BY <3>9, <3>10, <3>11, <3>12, <3>13, <3>15
  <2> QED BY <1>3, <2>1, <2>2
<1>10. answers'[Len(answers')] = now \/ ~(n > 0) BY <1>3, <1>6
<1> QED
  <2>1. memory' \in MemoryOf("psar") BY <1>5 DEF MemoryOf
  <2>2. shown' # <<>> BY <1>3
  <2> QED BY <1>1, <1>2, <1>3, <1>6, <1>7, <1>8, <1>9, <1>10, <2>1, <2>2 DEF StopInv, now

\* Nothing is shown yet.
LEMMA NothingShown ==
    ASSUME watcher \in Watchers, memory = NewWatcher(watcher), shown = <<>>, answers = <<>>
    PROVE  StopInv
<1>1. Len(shown) = 0 /\ Len(answers) = 0 OBVIOUS
<1>2. StopHolds BY <1>1, StopHoldsOfFew
<1>3. ASSUME watcher.kind \in Trailing
      PROVE  /\ memory \in MemoryOf(watcher.kind) /\ ~Stopped(watcher.kind, memory)
             /\ watcher.kind = "psar" => ~memory.initialised /\ ~memory.hasEmitted
  BY <1>3, NewStops
<1>4. watcher.kind \in Trailing /\ watcher.kind = "psar" => PsarRemembers
  BY <1>1, <1>3 DEF PsarRemembers
<1>5. shown \in Seq(Shown(watcher)) /\ answers \in Seq(Stop \cup {<<>>}) OBVIOUS
<1> QED BY <1>1, <1>2, <1>3, <1>4, <1>5 DEF StopInv

\* A stop that is hit never survives, one that is not only tightens, and no stop
\* is on the wrong side of the price, for every sequence of valid candles and every
\* percentage, step, block and acceleration; of an Nrtr for prices that are not
\* negative.  A Psar stays out of the ranges of the two candles before it.
THEOREM StopsHold == ASSUME NrtrPricesAssumption PROVE WatchSpec => []StopHolds
<1>1. WatchInit => StopInv BY NothingShown DEF WatchInit
<1>2. StopInv /\ [WatchNext]_watchVars => StopInv'
  <2> SUFFICES ASSUME StopInv, [WatchNext]_watchVars PROVE StopInv'
    OBVIOUS
  <2>1. ASSUME NEW c \in Shown(watcher), Show(c) PROVE StopInv'
    <3>1. CASE watcher.kind \notin Trailing
      BY <2>1, <3>1 DEF StopInv, StopHolds, Show
    <3>2. CASE watcher.kind \in Trailing /\ watcher.kind # "psar"
      BY <2>1, <3>2, ShowStop
    <3>3. CASE watcher.kind = "psar"
      BY <2>1, <3>3, ShowPsar
    <3> QED BY <3>1, <3>2, <3>3
  <2>2. CASE Forget
    <3>1. /\ watcher' \in Watchers /\ memory' = NewWatcher(watcher')
          /\ shown' = <<>> /\ answers' = <<>>
      BY <2>2 DEF Forget, StopInv
    <3>2. (watcher \in Watchers /\ memory = NewWatcher(watcher) /\ shown = <<>> /\ answers = <<>>)'
      BY <3>1
    <3> QED BY <3>2, NothingShown, PTL
  <2>3. CASE UNCHANGED watchVars
    BY <2>3 DEF watchVars, StopInv, StopHolds, PsarRemembers, Hit
  <2> QED BY <2>1, <2>2, <2>3 DEF WatchNext
<1>3. StopInv => StopHolds BY DEF StopInv
<1> QED BY <1>1, <1>2, <1>3, PTL DEF WatchSpec

-----------------------------------------------------------------------------
(* Bar builders that look at closes: where the state is, seen from the     *)
(* last close, and how far the next close takes it.                        *)

\* n bars of the same size, one on the other.
Rungs(from, step, n) == [i \in 1 .. n |-> Bar(from + (i - 1) * step, from + i * step)]

\* How many whole boxes there are in a distance.
Whole(d, box) == IF d < 0 THEN 0 ELSE d \div box

LEMMA WholeFacts ==
    ASSUME NEW d \in Int, NEW box \in Nat \ {0}
    PROVE  /\ Whole(d, box) \in Nat /\ Whole(d, box) * box \in Nat
           /\ d >= 0 => Whole(d, box) * box <= d
           /\ d < Whole(d, box) * box + box
           /\ d >= box <=> Whole(d, box) > 0
           /\ Whole(d, box) * box <= d \/ Whole(d, box) = 0
<1>1. CASE d < 0
  BY <1>1 DEF Whole
<1>2. CASE d >= 0
  <2> DEFINE q == d \div box
  <2>1. q \in Int /\ q * box \in Int /\ q * box <= d /\ d < q * box + box BY Divided
  <2>2. Whole(d, box) = q BY <1>2 DEF Whole
  <2> HIDE DEF q
  <2>3. q >= 0
    <3> SUFFICES ASSUME q < 0 PROVE FALSE
      BY <2>1
    <3>1. q + 1 <= 0 BY <2>1
    <3>2. (q + 1) * box <= 0 * box BY <2>1, <3>1, ProductsCompare
    <3>3. (q + 1) * box = q * box + box /\ 0 * box = 0 BY <2>1
    <3> QED BY <1>2, <2>1, <3>2, <3>3
  <2>4. q * box \in Nat BY <2>3, <2>1, ProductOfNats
  <2>5. d >= box <=> q > 0
    <3>1. ASSUME q > 0 PROVE d >= box
      <4>1. 1 * box <= q * box BY <2>1, <3>1, ProductsCompare
      <4> QED BY <2>1, <4>1
    <3>2. ASSUME q = 0 PROVE d < box BY <2>1, <3>2
    <3> QED BY <2>1, <2>3, <3>1, <3>2
  <2> QED BY <1>2, <2>1, <2>2, <2>3, <2>4, <2>5
<1> QED BY <1>1, <1>2

LEMMA WholeIs ==
    ASSUME NEW d \in Int, NEW box \in Nat \ {0}, NEW n \in Nat,
           n * box <= d, d < n * box + box
    PROVE  Whole(d, box) = n
<1> DEFINE w == Whole(d, box)
<1>1. n * box \in Nat BY ProductOfNats
<1>2. /\ w \in Nat /\ w * box \in Nat /\ w * box <= d /\ d < w * box + box
  <2>1. d >= 0 BY <1>1
  <2> QED BY <2>1, WholeFacts
<1> HIDE DEF w
<1>3. ~(w < n)
  <2> SUFFICES ASSUME w + 1 <= n PROVE FALSE
    BY <1>2
  <2>1. (w + 1) * box <= n * box BY <1>2, ProductsCompare
  <2>2. (w + 1) * box = w * box + box BY <1>2
  <2> QED BY <1>1, <1>2, <2>1, <2>2
<1>4. ~(n < w)
  <2> SUFFICES ASSUME n + 1 <= w PROVE FALSE
    BY <1>2
  <2>1. (n + 1) * box <= w * box BY <1>2, ProductsCompare
  <2>2. (n + 1) * box = n * box + box OBVIOUS
  <2> QED BY <1>1, <1>2, <2>1, <2>2
<1>5. w = n BY <1>2, <1>3, <1>4
<1> QED BY <1>5 DEF w

\* The boxes of a distance in two parts, the first of them whole.
LEMMA WholeRest ==
    ASSUME NEW d \in Int, NEW box \in Nat \ {0}, NEW n \in Nat, n * box <= d
    PROVE  Whole(d, box) = n + Whole(d - n * box, box)
<1> DEFINE r == Whole(d - n * box, box)
           rest == d - n * box
<1>1. n * box \in Nat /\ rest \in Nat BY ProductOfNats
<1>2. r \in Nat /\ r * box \in Nat /\ r * box <= rest /\ rest < r * box + box
  BY <1>1, WholeFacts
<1> HIDE DEF r, rest
<1>3. (n + r) * box = n * box + r * box BY <1>1, <1>2
<1>4. (n + r) * box <= d /\ d < (n + r) * box + box BY <1>1, <1>2, <1>3 DEF rest
<1>5. n + r \in Nat BY <1>2
<1>6. Whole(d, box) = n + r BY <1>4, <1>5, WholeIs
<1> QED BY <1>6 DEF r

PriceBar == [from : Int, to : Int, direction : {-1, 1}]

LEMMA RungsType ==
    ASSUME NEW from \in Int, NEW step \in Int, NEW n \in Nat
    PROVE  /\ Rungs(from, step, n) \in Seq(PriceBar) /\ Len(Rungs(from, step, n)) = n
           /\ \A i \in 1 .. n :
                 Rungs(from, step, n)[i] = Bar(from + (i - 1) * step, from + i * step)
<1>1. \A i \in 1 .. n : Bar(from + (i - 1) * step, from + i * step) \in PriceBar
  BY DEF Bar, PriceBar
<1> DEFINE s == Rungs(from, step, n)
<1>2. s = [i \in 1 .. n |-> Bar(from + (i - 1) * step, from + i * step)] BY DEF Rungs
<1>3. /\ s \in [1 .. n -> PriceBar]
      /\ \A i \in 1 .. n : s[i] = Bar(from + (i - 1) * step, from + i * step)
  BY <1>1, <1>2
<1> HIDE DEF s
<1>4. s \in Seq(PriceBar) /\ Len(s) = n BY <1>3
<1> QED BY <1>3, <1>4 DEF s

LEMMA RungsJoin ==
    ASSUME NEW from \in Int, NEW step \in Int, NEW m \in Nat, NEW n \in Nat
    PROVE  Rungs(from, step, m) \o Rungs(from + m * step, step, n) = Rungs(from, step, m + n)
<1> DEFINE mid == from + m * step
           a == Rungs(from, step, m)
           b == Rungs(mid, step, n)
           c == Rungs(from, step, m + n)
<1>1. /\ a \in Seq(PriceBar) /\ Len(a) = m
      /\ \A i \in 1 .. m : a[i] = Bar(from + (i - 1) * step, from + i * step)
  BY RungsType
<1>2. mid \in Int OBVIOUS
<1> HIDE DEF mid
<1>3. /\ b \in Seq(PriceBar) /\ Len(b) = n
      /\ \A i \in 1 .. n : b[i] = Bar(mid + (i - 1) * step, mid + i * step)
  BY <1>2, RungsType
<1>4. /\ c \in Seq(PriceBar) /\ Len(c) = m + n
      /\ \A i \in 1 .. m + n : c[i] = Bar(from + (i - 1) * step, from + i * step)
  <2>1. m + n \in Nat OBVIOUS
  <2> QED BY <2>1, RungsType
<1> HIDE DEF a, b, c
<1>5. /\ a \o b \in Seq(PriceBar) /\ Len(a \o b) = m + n
      /\ \A i \in 1 .. m + n : (a \o b)[i] = IF i <= m THEN a[i] ELSE b[i - m]
  BY <1>1, <1>3, ConcatProperties
<1>6. ASSUME NEW i \in 1 .. m + n PROVE (a \o b)[i] = c[i]
  <2>1. CASE i <= m
    BY <1>1, <1>4, <1>5, <2>1
  <2>2. CASE ~(i <= m)
    <3>1. i - m \in 1 .. n BY <2>2
    <3> DEFINE x == from + (i - 1) * step
               y == from + i * step
    <3>2. mid + ((i - m) - 1) * step = x /\ mid + (i - m) * step = y BY DEF mid
    <3>3. c[i] = Bar(x, y) BY <1>4
    <3>4. b[i - m] = Bar(x, y)
      <4>1. b[i - m] = Bar(mid + ((i - m) - 1) * step, mid + (i - m) * step) BY <1>3, <3>1
      <4> HIDE DEF x, y
      <4> QED BY <3>2, <4>1
    <3> HIDE DEF x, y
    <3> QED BY <1>5, <2>2, <3>3, <3>4
  <2> QED BY <2>1, <2>2
<1> DEFINE e == a \o b
<1>7. e \in Seq(PriceBar) /\ Len(e) = Len(c) /\ \A i \in 1 .. Len(e) : e[i] = c[i]
  BY <1>4, <1>5, <1>6
<1> HIDE DEF e
<1>8. e = c BY <1>4, <1>7, SeqEqual
<1> QED BY <1>8 DEF a, b, c, e, mid

\* RenkoBars.
RenkoState == [box : Nat \ {0}, level : One(Int), dir : {-1, 0, 1}]

\* Where the next brick up or down begins.
Base(s, up) ==
    IF up THEN (IF s.dir < 0 THEN s.level[1] + s.box ELSE s.level[1])
    ELSE (IF s.dir > 0 THEN s.level[1] - s.box ELSE s.level[1])

Signed(up) == IF up THEN 1 ELSE -1
StepOf(s, up) == IF up THEN s.box ELSE -s.box
Way(s, up, close) == IF up THEN close - Base(s, up) ELSE Base(s, up) - close

\* A close that asks for no brick, and the bricks that a way asks for.
RenkoSettled(s, close) == Way(s, TRUE, close) < s.box /\ Way(s, FALSE, close) < s.box
Laid(s, up, n) ==
    IF n = 0 THEN Built(s, <<>>)
    ELSE Built([s EXCEPT !.level = <<Base(s, up) + n * StepOf(s, up)>>, !.dir = Signed(up)],
               Rungs(Base(s, up), StepOf(s, up), n))

LEMMA RenkoFields ==
    ASSUME NEW s \in RenkoState
    PROVE  /\ s.box \in Nat /\ s.box > 0 /\ s.level[1] \in Int /\ s.dir \in {-1, 0, 1}
           /\ s.level = <<s.level[1]>> /\ s.level # <<>>
           /\ s = [box |-> s.box, level |-> <<s.level[1]>>, dir |-> s.dir]
           /\ \A up \in BOOLEAN : Base(s, up) \in Int /\ StepOf(s, up) \in Int
  BY DEF RenkoState, One, Base, StepOf

LEMMA RungOne ==
    ASSUME NEW from \in Int, NEW step \in Int
    PROVE  Rungs(from, step, 1) = <<Bar(from, from + step)>>
<1>1. 1 .. 1 = {1} OBVIOUS
<1>2. from + (1 - 1) * step = from /\ from + 1 * step = from + step OBVIOUS
<1>3. Rungs(from, step, 1) = [i \in {1} |-> Bar(from + (i - 1) * step, from + i * step)]
  BY <1>1 DEF Rungs
<1>4. [i \in {1} |-> Bar(from + (i - 1) * step, from + i * step)]
         = [i \in {1} |-> Bar(from, from + step)]
  BY <1>2
<1> DEFINE b == Bar(from, from + step)
<1> HIDE DEF b
<1>5. [i \in {1} |-> b] = <<b>> BY <1>1
<1> QED BY <1>3, <1>4, <1>5 DEF b

\* A pass of the loop lays one brick on the way, if there is a box to go.
LEMMA BrickLays ==
    ASSUME NEW s \in RenkoState, NEW close \in Int, NEW up \in BOOLEAN,
           Way(s, ~up, close) < s.box
    PROVE  Brick(s, close) = IF Way(s, up, close) >= s.box THEN Laid(s, up, 1) ELSE Laid(s, up, 0)
<1> DEFINE level == s.level[1]
           box == s.box
           from == Base(s, up)
           to == from + StepOf(s, up)
<1>1. box \in Nat /\ box > 0 /\ level \in Int /\ s.dir \in {-1, 0, 1} BY RenkoFields
<1>2. from \in Int /\ StepOf(s, up) \in Int /\ to \in Int BY RenkoFields
<1> DEFINE lay(f, t) == Built([s EXCEPT !.level = <<t>>, !.dir = IF t > f THEN 1 ELSE -1],
                              <<Bar(f, t)>>)
<1>3. Brick(s, close) =
          CASE s.dir >= 0 /\ close >= level + box -> lay(level, level + box)
            [] s.dir <= 0 /\ close <= level - box -> lay(level, level - box)
            [] s.dir > 0 /\ close <= level - 2 * box -> lay(level - box, level - 2 * box)
            [] s.dir < 0 /\ close >= level + 2 * box -> lay(level + box, level + 2 * box)
            [] OTHER -> Built(s, <<>>)
  BY DEF Brick
<1>4. Rungs(from, StepOf(s, up), 1) = <<Bar(from, to)>> /\ from + 1 * StepOf(s, up) = to
  <2> DEFINE step == StepOf(s, up)
  <2>1. from \in Int /\ step \in Int /\ to = from + step BY <1>2
  <2> HIDE DEF from, step, to
  <2>2. from + 1 * step = to /\ Rungs(from, step, 1) = <<Bar(from, to)>>
    <3>1. from + 1 * step = to BY <2>1
    <3>2. Rungs(from, step, 1) = <<Bar(from, from + step)>> BY <2>1, RungOne
    <3> QED BY <2>1, <3>1, <3>2
  <2> QED BY <2>2 DEF step
<1>5. to > from <=> up BY <1>1, <1>2 DEF StepOf
<1>6. Laid(s, up, 1) = lay(from, to)
  <2>1. Laid(s, up, 1) = Built([s EXCEPT !.level = <<to>>, !.dir = Signed(up)], <<Bar(from, to)>>)
    <3> DEFINE laid(n) == Built([s EXCEPT !.level = <<from + n * StepOf(s, up)>>, !.dir = Signed(up)],
                                Rungs(from, StepOf(s, up), n))
    <3>1. Laid(s, up, 1) = laid(1) BY DEF Laid
    <3> HIDE DEF from, to
    <3> QED BY <1>4, <3>1
  <2>2. Signed(up) = IF to > from THEN 1 ELSE -1 BY <1>5 DEF Signed
  <2> HIDE DEF from, to
  <2> QED BY <2>1, <2>2
<1>7. Laid(s, up, 0) = Built(s, <<>>) BY DEF Laid
<1> DEFINE none == Built(s, <<>>)
<1> HIDE DEF lay, none
<1>8. Brick(s, close) =
          CASE s.dir >= 0 /\ close >= level + box -> lay(level, level + box)
            [] s.dir <= 0 /\ close <= level - box -> lay(level, level - box)
            [] s.dir > 0 /\ close <= level - 2 * box -> lay(level - box, level - 2 * box)
            [] s.dir < 0 /\ close >= level + 2 * box -> lay(level + box, level + 2 * box)
            [] OTHER -> none
  BY <1>3 DEF none
<1>9. CASE ~(Way(s, up, close) >= box)
  <2>1. /\ ~(s.dir >= 0 /\ close >= level + box)
        /\ ~(s.dir <= 0 /\ close <= level - box)
        /\ ~(s.dir > 0 /\ close <= level - 2 * box)
        /\ ~(s.dir < 0 /\ close >= level + 2 * box)
    BY <1>1, <1>9 DEF Base, Way
  <2>2. Brick(s, close) = none BY <1>8, <2>1
  <2> QED BY <1>7, <1>9, <2>2 DEF none
<1>10. CASE Way(s, up, close) >= box
  <2>1. CASE up
    <3>1. CASE s.dir >= 0
      <4>1. from = level /\ to = level + box /\ close >= level + box /\ ~(close <= level - box)
            /\ ~(close <= level - 2 * box)
        BY <1>1, <1>10, <2>1, <3>1 DEF Base, StepOf, Way
      <4> HIDE DEF level, box, from, to
      <4>2. Brick(s, close) = lay(level, level + box) BY <1>1, <1>8, <3>1, <4>1
      <4> QED BY <1>6, <1>10, <4>1, <4>2 DEF box
    <3>2. CASE s.dir < 0
      <4>1. from = level + box /\ to = level + 2 * box /\ close >= level + 2 * box
            /\ ~(close <= level - box)
        BY <1>1, <1>10, <2>1, <3>2 DEF Base, StepOf, Way
      <4> HIDE DEF level, box, from, to
      <4>2. Brick(s, close) = lay(level + box, level + 2 * box) BY <1>1, <1>8, <3>2, <4>1
      <4> QED BY <1>6, <1>10, <4>1, <4>2 DEF box
    <3> QED BY <1>1, <3>1, <3>2
  <2>2. CASE ~up
    <3>1. CASE s.dir <= 0
      <4>1. from = level /\ to = level - box /\ close <= level - box /\ ~(close >= level + box)
            /\ ~(close >= level + 2 * box)
        BY <1>1, <1>10, <2>2, <3>1 DEF Base, StepOf, Way
      <4> HIDE DEF level, box, from, to
      <4>2. Brick(s, close) = lay(level, level - box) BY <1>1, <1>8, <3>1, <4>1
      <4> QED BY <1>6, <1>10, <4>1, <4>2 DEF box
    <3>2. CASE s.dir > 0
      <4>1. from = level - box /\ to = level - 2 * box /\ close <= level - 2 * box
            /\ ~(close >= level + box)
        BY <1>1, <1>10, <2>2, <3>2 DEF Base, StepOf, Way
      <4> HIDE DEF level, box, from, to
      <4>2. Brick(s, close) = lay(level - box, level - 2 * box) BY <1>1, <1>8, <3>2, <4>1
      <4> QED BY <1>6, <1>10, <4>1, <4>2 DEF box
    <3> QED BY <1>1, <3>1, <3>2
  <2> QED BY <2>1, <2>2
<1> QED BY <1>9, <1>10


LEMMA WayType ==
    ASSUME NEW s \in RenkoState, NEW up \in BOOLEAN, NEW close \in Int
    PROVE  Way(s, up, close) \in Int
  BY RenkoFields DEF Way

\* After some bricks the way is shorter, and the way back begins behind the last one.
LEMMA LaidFacts ==
    ASSUME NEW s \in RenkoState, NEW up \in BOOLEAN, NEW n \in Nat, NEW close \in Int
    PROVE  LET t == Laid(s, up, n).s
           IN  /\ t \in RenkoState /\ t.box = s.box /\ StepOf(t, up) = StepOf(s, up)
               /\ Base(t, up) = Base(s, up) + n * StepOf(s, up)
               /\ Way(t, up, close) = Way(s, up, close) - n * s.box
               /\ n > 0 => Way(t, ~up, close) = -Way(t, up, close) - s.box
               /\ n > 0 => t.dir = Signed(up) /\ t.level[1] = Base(t, up)
               /\ n = 0 => t = s
<1> DEFINE t == Laid(s, up, n).s
           step == StepOf(s, up)
           to == Base(s, up) + n * step
<1>1. s.box \in Nat /\ s.box > 0 /\ s.dir \in {-1, 0, 1} /\ Base(s, up) \in Int
      /\ step = (IF up THEN s.box ELSE -s.box) /\ s.level[1] \in Int
  BY RenkoFields DEF StepOf
<1>2. n * s.box \in Nat /\ n * step \in Int /\ n * step = (IF up THEN n * s.box ELSE -(n * s.box))
  <2>1. n * s.box \in Nat BY <1>1, ProductOfNats
  <2>2. n * (-s.box) = -(n * s.box) BY <1>1
  <2> HIDE DEF step
  <2> QED BY <1>1, <2>1, <2>2
<1>3. CASE n = 0
  <2>1. t = s BY <1>3 DEF Laid, Built
  <2>2. n * s.box = 0 /\ n * step = 0 BY <1>1, <1>3
  <2>3. Way(s, up, close) \in Int BY WayType
  <2> HIDE DEF t, step
  <2> QED BY <1>1, <1>3, <2>1, <2>2, <2>3 DEF t, step
<1>4. CASE n # 0
  <2>1. t = [s EXCEPT !.level = <<to>>, !.dir = Signed(up)] BY <1>4 DEF Laid, Built
  <2>2. to \in Int /\ Signed(up) \in {-1, 1} /\ (Signed(up) = IF up THEN 1 ELSE -1)
    BY <1>1, <1>2 DEF Signed
  <2> HIDE DEF to, t
  <2>3. t = [box |-> s.box, level |-> <<to>>, dir |-> Signed(up)] BY <2>1 DEF RenkoState
  <2>4. t \in RenkoState /\ t.box = s.box /\ t.level[1] = to /\ t.dir = Signed(up)
    BY <1>1, <2>2, <2>3 DEF RenkoState, One
  <2>5. StepOf(t, up) = step /\ Base(t, up) = to
        /\ Base(t, ~up) = (IF up THEN to - s.box ELSE to + s.box)
    BY <1>1, <2>2, <2>4 DEF StepOf, Base
  <2>6. Way(t, up, close) = (IF up THEN close - to ELSE to - close)
        /\ Way(t, ~up, close) = (IF up THEN (to - s.box) - close ELSE close - (to + s.box))
        /\ Way(s, up, close) = (IF up THEN close - Base(s, up) ELSE Base(s, up) - close)
    BY <2>5 DEF Way
  <2>7. to = Base(s, up) + (IF up THEN n * s.box ELSE -(n * s.box)) BY <1>2 DEF to
  <2> DEFINE base == Base(s, up)
             nb == n * s.box
  <2>8. base \in Int /\ nb \in Nat BY <1>1, <1>2
  <2> HIDE DEF base, nb, step
  <2>9. Way(t, up, close) = Way(s, up, close) - nb
        /\ Way(t, ~up, close) = -Way(t, up, close) - s.box
    BY <1>1, <2>2, <2>6, <2>7, <2>8 DEF base, nb
  <2> QED BY <1>4, <2>4, <2>5, <2>9 DEF nb, t, step, to
<1> QED BY <1>3, <1>4

\* Bricks laid in two goes are the bricks laid in one.
LEMMA LaidJoin ==
    ASSUME NEW s \in RenkoState, NEW up \in BOOLEAN, NEW m \in Nat, NEW n \in Nat
    PROVE  LET a == Laid(s, up, m)
               b == Laid(a.s, up, n)
           IN  Built(b.s, a.bars \o b.bars) = Laid(s, up, m + n)
<1> DEFINE a == Laid(s, up, m)
           b == Laid(a.s, up, n)
           from == Base(s, up)
           step == StepOf(s, up)
           ra == Rungs(from, step, m)
           mid == from + m * step
           rb == Rungs(mid, step, n)
<1>1. from \in Int /\ step \in Int /\ mid \in Int
  <2>1. from \in Int /\ step \in Int BY RenkoFields
  <2> HIDE DEF from, step
  <2> QED BY <2>1
<1>2. /\ a.s \in RenkoState /\ StepOf(a.s, up) = step /\ Base(a.s, up) = mid
      /\ m = 0 => a.s = s
  <2>1. 0 \in Int OBVIOUS
  <2> QED BY <2>1, LaidFacts
<1>3. /\ ra \in Seq(PriceBar) /\ Len(ra) = m /\ rb \in Seq(PriceBar) /\ Len(rb) = n
      /\ ra \o rb = Rungs(from, step, m + n)
  <2> HIDE DEF from, step
  <2> QED BY <1>1, RungsType, RungsJoin
<1>4. (m = 0 => ra = <<>>) /\ (n = 0 => rb = <<>>)
  <2>1. \A x \in Seq(PriceBar) : Len(x) = 0 => x = <<>> OBVIOUS
  <2> HIDE DEF ra, rb
  <2> QED BY <1>3, <2>1
<1>5. a.bars = ra BY <1>4 DEF Laid, Built
<1>6. b.bars = rb
  <2> HIDE DEF a, from, step, mid
  <2> QED BY <1>2, <1>4 DEF Laid, Built
<1>7. b.s = Laid(s, up, m + n).s
  <2>1. CASE n = 0
    <3>1. b.s = a.s BY <2>1 DEF Laid, Built
    <3> QED BY <2>1, <3>1
  <2>2. CASE n # 0 /\ m = 0
    <3>1. a.s = s BY <1>2, <2>2
    <3> HIDE DEF a
    <3> QED BY <2>2, <3>1
  <2>3. CASE n # 0 /\ m # 0
    <3> DEFINE to == mid + n * step
    <3>1. b.s = [a.s EXCEPT !.level = <<to>>, !.dir = Signed(up)]
      <4> DEFINE as == a.s
      <4>1. Base(as, up) = mid /\ StepOf(as, up) = step BY <1>2
      <4>2. b = Built([as EXCEPT !.level = <<Base(as, up) + n * StepOf(as, up)>>, !.dir = Signed(up)],
                      Rungs(Base(as, up), StepOf(as, up), n))
        BY <2>3 DEF Laid
      <4> HIDE DEF as, b, mid, step
      <4>3. b.s = [as EXCEPT !.level = <<Base(as, up) + n * StepOf(as, up)>>, !.dir = Signed(up)]
        BY <4>2 DEF Built
      <4> QED BY <4>1, <4>3 DEF as
    <3>2. a.s = [s EXCEPT !.level = <<mid>>, !.dir = Signed(up)] BY <2>3 DEF Laid, Built
    <3>3. Laid(s, up, m + n).s = [s EXCEPT !.level = <<from + (m + n) * step>>, !.dir = Signed(up)]
      <4>1. m + n # 0 BY <2>3
      <4> QED BY <4>1 DEF Laid, Built
    <3>4. from + (m + n) * step = to
      <4> HIDE DEF from, step
      <4> QED BY <1>1 DEF mid
    <3> HIDE DEF a, b, from, step, mid, to
    <3>5. b.s = [s EXCEPT !.level = <<to>>, !.dir = Signed(up)] BY <3>1, <3>2 DEF RenkoState
    <3> QED BY <3>3, <3>4, <3>5
  <2> QED BY <2>1, <2>2, <2>3
<1>8. Laid(s, up, m + n).bars = Rungs(from, step, m + n)
  <2>1. CASE m + n = 0
    <3>1. Laid(s, up, m + n).bars = <<>> BY <2>1 DEF Laid, Built
    <3>2. Rungs(from, step, m + n) = <<>>
      <4>1. Rungs(from, step, m + n) \in Seq(PriceBar) /\ Len(Rungs(from, step, m + n)) = 0
        <5> HIDE DEF from, step
        <5> QED BY <1>1, <2>1, RungsType
      <4> QED BY <4>1
    <3> QED BY <3>1, <3>2
  <2>2. CASE m + n # 0
    BY <2>2 DEF Laid, Built
  <2> QED BY <2>1, <2>2
<1>9. Laid(s, up, m + n) = Built(Laid(s, up, m + n).s, Laid(s, up, m + n).bars)
  BY DEF Laid, Built
<1> HIDE DEF a, b, ra, rb, from, step, mid
<1>10. a.bars \o b.bars = Laid(s, up, m + n).bars BY <1>3, <1>5, <1>6, <1>8
<1>11. Built(b.s, a.bars \o b.bars) = Laid(s, up, m + n) BY <1>7, <1>9, <1>10
<1> QED BY <1>11 DEF a, b

\* What the loop gives after k passes: a brick for every box of the way, and no more.
LEMMA RenkoLays ==
    ASSUME NEW s \in RenkoState, NEW close \in Int, NEW up \in BOOLEAN,
           Way(s, ~up, close) < s.box
    PROVE  LET n == Whole(Way(s, up, close), s.box)
           IN  /\ RenkoUpdated(s, close) = Laid(s, up, n)
               /\ RenkoSettled(Laid(s, up, n).s, close)
<1> DEFINE box == s.box
           way == Way(s, up, close)
           n == Whole(way, box)
           P == Distance(s.level[1], close) \div box
           After(b) == Built(Brick(b.s, close).s, b.bars \o Brick(b.s, close).bars)
           Loop(g, k) == IF k = 0 THEN Built(s, <<>>) ELSE After(g[k - 1])
           Is(g) == g = [k \in 0 .. P |-> Loop(g, k)]
           L == [k \in 0 .. P |-> Laid(s, up, Smaller(k, n))]
<1>1. /\ box \in Nat \ {0} /\ way \in Int /\ s.level[1] \in Int /\ s.dir \in {-1, 0, 1}
      /\ n \in Nat /\ n * box \in Nat /\ way < n * box + box
      /\ n * box <= way \/ n = 0
  <2>1. box \in Nat \ {0} /\ way \in Int /\ s.level[1] \in Int /\ s.dir \in {-1, 0, 1}
    BY RenkoFields, WayType
  <2> HIDE DEF box, way
  <2> QED BY <2>1, WholeFacts
<1>2. P \in Nat /\ n <= P
  <2> DEFINE d == Distance(s.level[1], close)
  <2>1. d \in Int /\ d >= 0 /\ way <= d
    <3> DEFINE level == s.level[1]
    <3>1. level \in Int /\ s.box \in Nat BY <1>1
    <3>2. way = IF up THEN close - (IF s.dir < 0 THEN level + s.box ELSE level)
                ELSE (IF s.dir > 0 THEN level - s.box ELSE level) - close
      BY DEF Way, Base
    <3>3. d = IF level < close THEN close - level ELSE level - close BY DEF Distance
    <3> HIDE DEF level, way, d
    <3>4. d \in Int /\ d >= 0 /\ d >= close - level /\ d >= level - close BY <3>1, <3>3
    <3>5. way <= close - level \/ way <= level - close
      <4>1. CASE up
        BY <3>1, <3>2, <4>1
      <4>2. CASE ~up
        BY <3>1, <3>2, <4>2
      <4> QED BY <4>1, <4>2
    <3> QED BY <1>1, <3>1, <3>4, <3>5
  <2>2. Whole(d, box) = P BY <2>1 DEF Whole
  <2> HIDE DEF d, box, way, n, P
  <2>3. P \in Nat /\ P * box \in Nat /\ P * box <= d /\ d < P * box + box
    BY <1>1, <2>1, <2>2, WholeFacts
  <2>4. ~(P < n)
    <3> SUFFICES ASSUME P + 1 <= n PROVE FALSE
      BY <1>1, <2>3
    <3>1. (P + 1) * box <= n * box BY <1>1, <2>3, ProductsCompare
    <3>2. (P + 1) * box = P * box + box BY <1>1, <2>3
    <3>3. n # 0 BY <2>3
    <3> QED BY <1>1, <2>1, <2>3, <3>1, <3>2, <3>3
  <2> QED BY <1>1, <2>3, <2>4
\* One more pass.
<1>3. ASSUME NEW k \in Nat
      PROVE  After(Laid(s, up, Smaller(k, n))) = Laid(s, up, Smaller(k + 1, n))
  <2> DEFINE j == Smaller(k, n)
             b == Laid(s, up, j)
             t == b.s
             i == IF k < n THEN 1 ELSE 0
  <2>1. j \in Nat /\ j + i = Smaller(k + 1, n) /\ i \in Nat
    <3> HIDE DEF n
    <3> QED BY <1>1 DEF Smaller
  <2>2. /\ t \in RenkoState /\ t.box = box
        /\ Way(t, up, close) = way - j * box
        /\ j > 0 => Way(t, ~up, close) = -Way(t, up, close) - box
        /\ j = 0 => t = s
    <3> HIDE DEF j
    <3> QED BY <2>1, LaidFacts
  <2>3. j * box \in Nat /\ (j > 0 => j * box <= way)
    <3> HIDE DEF way, box, n
    <3>1. j * box \in Nat BY <1>1, <2>1, ProductOfNats
    <3>2. ASSUME j > 0 PROVE j * box <= way
      <4>1. j <= n /\ n # 0 BY <1>1, <2>1, <3>2 DEF Smaller
      <4>2. j * box <= n * box BY <1>1, <2>1, <4>1, ProductsCompare
      <4> QED BY <1>1, <3>1, <4>1, <4>2
    <3> QED BY <3>1, <3>2
  <2>4. Way(t, ~up, close) < t.box
    <3> DEFINE wt == Way(t, up, close)
               wb == Way(t, ~up, close)
               jb == j * box
    <3>1. CASE j = 0
      BY <2>2, <3>1
    <3>2. CASE j > 0
      <4>1. wt = way - jb /\ wb = -wt - box /\ jb <= way /\ jb \in Nat /\ t.box = box
        BY <2>2, <2>3, <3>2
      <4> HIDE DEF wt, jb, way, box, t
      <4>2. wb < box BY <1>1, <4>1
      <4> QED BY <4>1, <4>2 DEF t
    <3> QED BY <2>1, <3>1, <3>2
  <2>5. Way(t, up, close) >= t.box <=> k < n
    <3> HIDE DEF way, box, n
    <3>1. ASSUME k < n PROVE way - j * box >= box
      <4>1. j = k /\ k + 1 <= n /\ n # 0 BY <1>1, <3>1 DEF Smaller
      <4>2. (k + 1) * box <= n * box /\ (k + 1) * box = k * box + box
        BY <1>1, <4>1, ProductsCompare
      <4> HIDE DEF j
      <4> QED BY <1>1, <2>3, <4>1, <4>2
    <3>2. ASSUME ~(k < n) PROVE way - j * box < box
      <4>1. j = n BY <1>1, <3>2 DEF Smaller
      <4> HIDE DEF j
      <4> DEFINE nb == n * box
      <4>2. j * box = nb BY <4>1
      <4>3. nb \in Nat /\ way < nb + box /\ way \in Int /\ box \in Nat BY <1>1
      <4> HIDE DEF nb
      <4> QED BY <4>2, <4>3
    <3> DEFINE jb == j * box
               wt == Way(t, up, close)
    <3>3. wt = way - jb /\ t.box = box /\ jb \in Nat /\ way \in Int /\ box \in Nat
      BY <1>1, <2>2, <2>3
    <3>4. (k < n => way - jb >= box) /\ (~(k < n) => way - jb < box) BY <3>1, <3>2
    <3> HIDE DEF jb, wt, t
    <3>5. wt >= box <=> k < n BY <3>3, <3>4
    <3> QED BY <3>3, <3>5 DEF wt
  <2>6. Brick(t, close) = Laid(t, up, i)
    <3> HIDE DEF t, n
    <3> QED BY <2>2, <2>4, <2>5, BrickLays
  <2>7. Built(Laid(t, up, i).s, b.bars \o Laid(t, up, i).bars) = Laid(s, up, j + i)
    <3> HIDE DEF j, i
    <3> QED BY <2>1, LaidJoin
  <2>8. After(b) = Laid(s, up, j + i) BY <2>6, <2>7
  <2> HIDE DEF j, i, After
  <2> QED BY <2>1, <2>8 DEF j
<1> HIDE DEF After, n, P, way, box
<1>4. Is(L)
  <2>1. ASSUME NEW k \in 0 .. P PROVE L[k] = Loop(L, k)
    <3>1. CASE k = 0
      <4>1. Smaller(0, n) = 0 BY <1>1 DEF Smaller
      <4> QED BY <2>1, <3>1, <4>1 DEF Laid
    <3>2. CASE k # 0
      <4>1. k - 1 \in 0 .. P /\ k - 1 \in Nat /\ (k - 1) + 1 = k BY <1>2, <3>2
      <4>2. After(Laid(s, up, Smaller(k - 1, n))) = Laid(s, up, Smaller((k - 1) + 1, n))
        BY <1>3, <4>1
      <4>3. L[k - 1] = Laid(s, up, Smaller(k - 1, n)) /\ L[k] = Laid(s, up, Smaller(k, n))
        BY <2>1, <4>1
      <4> HIDE DEF L
      <4> QED BY <3>2, <4>1, <4>2, <4>3
    <3> QED BY <3>1, <3>2
  <2>2. L = [k \in 0 .. P |-> L[k]] OBVIOUS
  <2> HIDE DEF L, Loop
  <2>3. [k \in 0 .. P |-> L[k]] = [k \in 0 .. P |-> Loop(L, k)] BY <2>1
  <2> QED BY <2>2, <2>3
<1> DEFINE loop == CHOOSE g : Is(g)
<1>5. Is(loop)
  <2> HIDE DEF Is
  <2> QED BY <1>4
<1>6. RenkoUpdated(s, close) = loop[P]
  <2>1. s.level # <<>> BY RenkoFields
  <2> QED BY <2>1 DEF RenkoUpdated, After, P, box
<1> HIDE DEF loop
<1>7. \A k \in Nat : k \in {j \in Nat : j <= P => loop[j] = Laid(s, up, Smaller(j, n))}
  <2> DEFINE S == {j \in Nat : j <= P => loop[j] = Laid(s, up, Smaller(j, n))}
  <2>1. \A k \in 0 .. P : loop[k] = Loop(loop, k)
    <3> HIDE DEF Loop
    <3> QED BY <1>5
  <2>2. 0 \in S
    <3>1. Smaller(0, n) = 0 /\ 0 \in 0 .. P BY <1>1, <1>2 DEF Smaller
    <3>2. Laid(s, up, 0) = Built(s, <<>>) BY DEF Laid
    <3> QED BY <2>1, <3>1, <3>2
  <2>3. \A k \in Nat : k \in S => k + 1 \in S
    <3> SUFFICES ASSUME NEW k \in Nat, k \in S, k + 1 <= P
                 PROVE  loop[k + 1] = Laid(s, up, Smaller(k + 1, n))
      OBVIOUS
    <3>1. k <= P /\ k + 1 \in 0 .. P /\ (k + 1) - 1 = k /\ k + 1 # 0 BY <1>2
    <3>2. loop[k + 1] = After(loop[k]) BY <2>1, <3>1
    <3>3. loop[k] = Laid(s, up, Smaller(k, n)) BY <3>1
    <3> QED BY <1>3, <3>2, <3>3
  <2> HIDE DEF S
  <2>4. \A k \in Nat : k \in S BY <2>2, <2>3, SetInduction
  <2> QED BY <2>4 DEF S
<1>8. RenkoUpdated(s, close) = Laid(s, up, n)
  <2>1. Smaller(P, n) = n BY <1>1, <1>2 DEF Smaller
  <2>2. loop[P] = Laid(s, up, Smaller(P, n)) BY <1>2, <1>7
  <2> QED BY <1>6, <2>1, <2>2
<1>9. RenkoSettled(Laid(s, up, n).s, close)
  <2> DEFINE t == Laid(s, up, n).s
             nb == n * box
             wt == Way(t, up, close)
             wb == Way(t, ~up, close)
  <2>1. /\ t \in RenkoState /\ t.box = box
        /\ wt = way - nb
        /\ n > 0 => wb = -wt - box
        /\ n = 0 => t = s
    BY <1>1, LaidFacts DEF way, box
  <2>2. nb \in Nat /\ wt < box
    <3> HIDE DEF wt, t
    <3> QED BY <1>1, <2>1
  <2>3. wb < box
    <3>1. CASE n = 0
      BY <2>1, <3>1 DEF box
    <3>2. CASE n > 0
      <4> HIDE DEF wb, wt, t
      <4>1. nb <= way /\ nb \in Nat BY <1>1, <3>2
      <4> HIDE DEF nb
      <4> QED BY <1>1, <2>1, <3>2, <4>1
    <3> QED BY <1>1, <3>1, <3>2
  <2>4. Way(t, TRUE, close) < box /\ Way(t, FALSE, close) < box
    <3>1. CASE up
      <4>1. (up = TRUE) /\ (~up) = FALSE BY <3>1
      <4> QED BY <2>2, <2>3, <4>1
    <3>2. CASE ~up
      <4>1. (up = FALSE) /\ (~up) = TRUE BY <3>2
      <4> QED BY <2>2, <2>3, <4>1
    <3> QED BY <3>1, <3>2
  <2> HIDE DEF t
  <2> QED BY <2>1, <2>4 DEF RenkoSettled, t
<1> QED BY <1>8, <1>9 DEF n, way, box

\* A stop between two prices.
LEMMA Between ==
    ASSUME NEW a \in Int, NEW b \in Int, NEW c \in Int, (b - a) * (b - c) <= 0
    PROVE  (a <= b /\ b <= c) \/ (c <= b /\ b <= a)
<1>1. ASSUME NEW p \in Nat \ {0}, NEW q \in Nat \ {0} PROVE p * q \in Int /\ p * q > 0
  <2>1. p - 1 \in Nat /\ q \in Nat OBVIOUS
  <2>2. (p - 1) * q \in Nat BY <2>1, ProductOfNats
  <2>3. p * q = (p - 1) * q + q OBVIOUS
  <2> QED BY <2>2, <2>3
<1>2. SUFFICES ASSUME ~((a <= b /\ b <= c) \/ (c <= b /\ b <= a)) PROVE FALSE OBVIOUS
<1>3. CASE b > a /\ b > c
  <2>1. b - a \in Nat \ {0} /\ b - c \in Nat \ {0} BY <1>3
  <2> QED BY <1>1, <2>1
<1>4. CASE b < a /\ b < c
  <2>1. a - b \in Nat \ {0} /\ c - b \in Nat \ {0} BY <1>4
  <2>2. (a - b) * (c - b) > 0 BY <1>1, <2>1
  <2>3. (a - b) * (c - b) = (b - a) * (b - c) OBVIOUS
  <2> QED BY <2>2, <2>3
<1> QED BY <1>2, <1>3, <1>4

LEMMA EmptyJoin ==
    ASSUME NEW S, NEW bars \in Seq(S)
    PROVE  <<>> \o bars = bars
  OBVIOUS

\* The same bricks in two moves of one direction.
LEMMA RenkoTwice ==
    ASSUME NEW s \in RenkoState, NEW up \in BOOLEAN, NEW stop \in Int, NEW close \in Int,
           Way(s, ~up, stop) < s.box, IF up THEN stop <= close ELSE close <= stop
    PROVE  LET half == RenkoUpdated(s, stop)
               rest == RenkoUpdated(half.s, close)
           IN  Built(rest.s, half.bars \o rest.bars) = RenkoUpdated(s, close)
<1> DEFINE box == s.box
           way == Way(s, up, close)
           part == Way(s, up, stop)
           m == Whole(part, box)
           t == Laid(s, up, m).s
           left == Way(t, up, close)
           n == Whole(left, box)
<1>1. /\ box \in Nat \ {0} /\ way \in Int /\ part \in Int /\ part <= way
      /\ Way(s, ~up, close) < box
  <2>1. box \in Nat \ {0} /\ Base(s, up) \in Int /\ Base(s, ~up) \in Int
    BY RenkoFields DEF RenkoState
  <2>2. box = s.box /\ Way(s, ~up, stop) < s.box OBVIOUS
  <2>3. /\ up => way = close - Base(s, up) /\ part = stop - Base(s, up)
        /\ ~up => way = Base(s, up) - close /\ part = Base(s, up) - stop
        /\ up => Way(s, ~up, close) = Base(s, ~up) - close
                 /\ Way(s, ~up, stop) = Base(s, ~up) - stop
        /\ ~up => Way(s, ~up, close) = close - Base(s, ~up)
                 /\ Way(s, ~up, stop) = stop - Base(s, ~up)
    BY DEF Way
  <2> DEFINE base == Base(s, up)
             other == Base(s, ~up)
             back == Way(s, ~up, close)
             partback == Way(s, ~up, stop)
  <2>4. base \in Int /\ other \in Int /\ partback < box BY <2>1, <2>2
  <2>5. CASE up
    <3>1. /\ way = close - base /\ part = stop - base /\ stop <= close
          /\ back = other - close /\ partback = other - stop
      BY <2>3, <2>5
    <3> HIDE DEF box, way, part, base, other, back, partback
    <3>2. way \in Int /\ part \in Int /\ part <= way /\ back < box BY <2>1, <2>4, <3>1
    <3> QED BY <2>1, <3>2 DEF back
  <2>6. CASE ~up
    <3>1. /\ way = base - close /\ part = base - stop /\ close <= stop
          /\ back = close - other /\ partback = stop - other
      BY <2>3, <2>6
    <3> HIDE DEF box, way, part, base, other, back, partback
    <3>2. way \in Int /\ part \in Int /\ part <= way /\ back < box BY <2>1, <2>4, <3>1
    <3> QED BY <2>1, <3>2 DEF back
  <2> QED BY <2>5, <2>6
<1>2. /\ m \in Nat /\ m * box \in Nat /\ (m * box <= part \/ m = 0)
  <2> HIDE DEF box, part
  <2> QED BY <1>1, WholeFacts
<1>3. RenkoUpdated(s, stop) = Laid(s, up, m) /\ RenkoSettled(t, stop) BY RenkoLays
<1>4. /\ t \in RenkoState /\ t.box = box /\ left = way - m * box
      /\ m > 0 => Way(t, ~up, close) = -left - box
      /\ m = 0 => t = s
  BY <1>2, LaidFacts
<1>5. Way(t, ~up, close) < t.box
  <2>1. CASE m = 0
    BY <1>1, <1>4, <2>1
  <2>2. CASE m > 0
    <3> DEFINE mb == m * box
               back == Way(t, ~up, close)
    <3>1. mb <= part /\ mb \in Nat /\ back = -left - box /\ left = way - mb
      BY <1>2, <1>4, <2>2
    <3> HIDE DEF mb, back, left, way, part, box, m
    <3>2. back < box BY <1>1, <3>1
    <3> QED BY <1>4, <3>2 DEF back
  <2> QED BY <1>2, <2>1, <2>2
<1>6. RenkoUpdated(t, close) = Laid(t, up, n)
  <2> HIDE DEF t
  <2> QED BY <1>4, <1>5, RenkoLays
<1>7. RenkoUpdated(s, close) = Laid(s, up, Whole(way, box)) BY <1>1, RenkoLays
<1>8. Whole(way, box) = m + n /\ n \in Nat
  <2>1. left \in Int /\ n \in Nat
    <3> DEFINE mb == m * box
    <3>1. left = way - mb /\ mb \in Nat BY <1>2, <1>4
    <3> HIDE DEF left, mb, way, box, m
    <3>2. left \in Int BY <1>1, <3>1
    <3> QED BY <1>1, <3>2, WholeFacts
  <2>2. CASE m = 0
    <3>1. left = way BY <1>4, <2>2
    <3> HIDE DEF left, way, m
    <3> QED BY <2>1, <2>2, <3>1
  <2>3. CASE m > 0
    <3> DEFINE mb == m * box
    <3>1. mb <= way
      <4>1. mb \in Nat /\ mb <= part BY <1>2, <2>3
      <4> HIDE DEF mb, part, way
      <4> QED BY <1>1, <4>1
    <3> HIDE DEF left, way, box, m
    <3>2. Whole(way, box) = m + Whole(way - m * box, box) BY <1>1, <1>2, <3>1, WholeRest
    <3> QED BY <1>4, <2>1, <3>2
  <2> QED BY <1>2, <2>1, <2>2, <2>3
<1>9. Built(Laid(t, up, n).s, Laid(s, up, m).bars \o Laid(t, up, n).bars) = Laid(s, up, m + n)
  <2> HIDE DEF m, n
  <2> QED BY <1>2, <1>8, LaidJoin
<1> QED BY <1>3, <1>6, <1>7, <1>8, <1>9

LEMMA RenkoWalks ==
    ASSUME NEW s \in RenkoState, NEW now \in Int, NEW stop \in Int, NEW close \in Int,
           RenkoSettled(s, now), (stop - now) * (stop - close) <= 0
    PROVE  LET half == RenkoUpdated(s, stop)
               rest == RenkoUpdated(half.s, close)
           IN  Built(rest.s, half.bars \o rest.bars) = RenkoUpdated(s, close)
<1>1. (now <= stop /\ stop <= close) \/ (close <= stop /\ stop <= now) BY Between
<1>2. s.box \in Nat /\ s.level[1] \in Int BY RenkoFields
<1>3. CASE now <= stop /\ stop <= close
  <2>1. Way(s, ~TRUE, stop) < s.box BY <1>2, <1>3 DEF RenkoSettled, Way, Base
  <2> QED BY <1>3, <2>1, RenkoTwice
<1>4. CASE close <= stop /\ stop <= now
  <2>1. Way(s, ~FALSE, stop) < s.box BY <1>2, <1>4 DEF RenkoSettled, Way, Base
  <2> QED BY <1>4, <2>1, RenkoTwice
<1> QED BY <1>1, <1>3, <1>4

\* Wherever a builder of bricks stands after a close, it is settled there.
LEMMA RenkoSettles ==
    ASSUME NEW s \in RenkoState, NEW now \in Int, NEW close \in Int, RenkoSettled(s, now)
    PROVE  /\ RenkoUpdated(s, close).s \in RenkoState
           /\ RenkoSettled(RenkoUpdated(s, close).s, close)
           /\ \E up \in BOOLEAN, n \in Nat : RenkoUpdated(s, close) = Laid(s, up, n)
<1>1. s.box \in Nat /\ s.level[1] \in Int BY RenkoFields
<1>2. PICK up \in BOOLEAN : Way(s, ~up, close) < s.box
  <2>1. CASE now <= close
    <3>1. Way(s, ~TRUE, close) < s.box BY <1>1, <2>1 DEF RenkoSettled, Way, Base
    <3> QED BY <3>1
  <2>2. CASE close <= now
    <3>1. Way(s, ~FALSE, close) < s.box BY <1>1, <2>2 DEF RenkoSettled, Way, Base
    <3> QED BY <3>1
  <2> QED BY <2>1, <2>2
<1> DEFINE n == Whole(Way(s, up, close), s.box)
<1>3. n \in Nat BY WayType, WholeFacts DEF RenkoState
<1>4. RenkoUpdated(s, close) = Laid(s, up, n) /\ RenkoSettled(Laid(s, up, n).s, close)
  BY <1>2, RenkoLays
<1> HIDE DEF n
<1>5. Laid(s, up, n).s \in RenkoState BY <1>3, LaidFacts
<1> QED BY <1>3, <1>4, <1>5

-----------------------------------------------------------------------------
(* RangeBars. *)

RangeState == [range : Nat \ {0}, anchor : One(Int)]
Rung(s, up) == IF up THEN s.range ELSE -s.range
PastAnchor(s, up, close) == IF up THEN close - s.anchor[1] ELSE s.anchor[1] - close
RangeSettled(s, close) == PastAnchor(s, TRUE, close) < s.range /\ PastAnchor(s, FALSE, close) < s.range
Moved(s, up, n) ==
    Built([s EXCEPT !.anchor = <<s.anchor[1] + n * Rung(s, up)>>], Rungs(s.anchor[1], Rung(s, up), n))

LEMMA RangeFields ==
    ASSUME NEW s \in RangeState
    PROVE  /\ s.range \in Nat /\ s.range > 0 /\ s.anchor[1] \in Int
           /\ s.anchor = <<s.anchor[1]>> /\ s.anchor # <<>>
           /\ s = [range |-> s.range, anchor |-> <<s.anchor[1]>>]
           /\ \A up \in BOOLEAN : Rung(s, up) \in Int
           /\ \A up \in BOOLEAN, close \in Int : PastAnchor(s, up, close) \in Int
  BY DEF RangeState, One, Rung, PastAnchor

LEMMA RungsNone ==
    ASSUME NEW from \in Int, NEW step \in Int
    PROVE  Rungs(from, step, 0) = <<>>
<1>1. Rungs(from, step, 0) \in Seq(PriceBar) /\ Len(Rungs(from, step, 0)) = 0 BY RungsType
<1> QED BY <1>1

LEMMA MovedFacts ==
    ASSUME NEW s \in RangeState, NEW up \in BOOLEAN, NEW n \in Nat, NEW close \in Int
    PROVE  LET t == Moved(s, up, n).s
           IN  /\ t \in RangeState /\ t.range = s.range /\ Rung(t, up) = Rung(s, up)
               /\ t.anchor[1] = s.anchor[1] + n * Rung(s, up)
               /\ PastAnchor(t, up, close) = PastAnchor(s, up, close) - n * s.range
               /\ n = 0 => Moved(s, up, n) = Built(s, <<>>)
<1> DEFINE t == Moved(s, up, n).s
           anchor == s.anchor[1]
           range == s.range
           to == anchor + n * Rung(s, up)
           product == n * range
<1>1. /\ range \in Nat /\ range > 0 /\ anchor \in Int /\ Rung(s, up) \in Int
      /\ s = [range |-> range, anchor |-> <<anchor>>] /\ product \in Nat
  BY RangeFields, ProductOfNats
<1>2. to = IF up THEN anchor + product ELSE anchor - product
  <2>1. CASE up
    BY <2>1 DEF Rung
  <2>2. CASE ~up
    <3>1. n * (-range) = -(n * range) BY <1>1
    <3> QED BY <1>1, <2>2, <3>1 DEF Rung
  <2> QED BY <2>1, <2>2
<1>3. t = [s EXCEPT !.anchor = <<to>>] BY DEF Moved, Built
<1> HIDE DEF t, to, product, range, anchor
<1>4. to \in Int BY <1>1, <1>2
<1>5. t = [range |-> range, anchor |-> <<to>>] BY <1>1, <1>3
<1>6. t \in RangeState /\ t.range = range /\ t.anchor[1] = to
  <2>1. range \in Nat \ {0} BY <1>1
  <2> QED BY <1>4, <1>5, <2>1 DEF RangeState, One
<1>7. PastAnchor(t, up, close) = PastAnchor(s, up, close) - product
  <2>1. CASE up
    BY <1>1, <1>2, <1>6, <2>1 DEF PastAnchor, anchor
  <2>2. CASE ~up
    BY <1>1, <1>2, <1>6, <2>2 DEF PastAnchor, anchor
  <2> QED BY <2>1, <2>2
<1>8. ASSUME n = 0 PROVE Moved(s, up, n) = Built(s, <<>>)
  <2>1. product = 0 BY <1>1, <1>8 DEF product
  <2>2. to = anchor BY <1>1, <1>2, <2>1
  <2>3. t = s BY <1>1, <1>5, <2>2
  <2>4. Rungs(anchor, Rung(s, up), n) = <<>> BY <1>1, <1>8, RungsNone
  <2>5. Moved(s, up, n) = Built(t, Rungs(anchor, Rung(s, up), n))
    BY DEF Moved, Built, t, anchor
  <2> QED BY <2>3, <2>4, <2>5
<1>9. Rung(t, up) = Rung(s, up) BY <1>6 DEF Rung, range
<1> QED BY <1>6, <1>7, <1>8, <1>9 DEF t, to, product, range, anchor

LEMMA RangeLays ==
    ASSUME NEW s \in RangeState, NEW up \in BOOLEAN, NEW close \in Int, PastAnchor(s, up, close) >= 0
    PROVE  LET n == Whole(PastAnchor(s, up, close), s.range)
           IN  n \in Nat /\ RangeUpdated(s, close) = Moved(s, up, n)
<1> DEFINE anchor == s.anchor[1]
           range == s.range
           off == PastAnchor(s, up, close)
           d == Distance(anchor, close)
           n == Whole(off, range)
           step == IF close > anchor THEN range ELSE -range
<1>1. /\ range \in Nat \ {0} /\ anchor \in Int /\ s.anchor # <<>>
      /\ s = [range |-> range, anchor |-> <<anchor>>] /\ off \in Int /\ off >= 0
  BY RangeFields DEF RangeState
<1>2. off = d BY <1>1 DEF PastAnchor, Distance
<1>3. n = d \div range
  <2> HIDE DEF off, d, range
  <2> QED BY <1>1, <1>2 DEF Whole
<1>4. n \in Nat /\ (n > 0 <=> off >= range)
  <2> HIDE DEF off, range
  <2> QED BY <1>1, WholeFacts
<1>5. RangeUpdated(s, close) = Built([s EXCEPT !.anchor = <<anchor + n * step>>], Rungs(anchor, step, n))
  <2> DEFINE after(q) == Built([s EXCEPT !.anchor = <<anchor + q * step>>],
                               [i \in 1 .. q |-> Bar(anchor + (i - 1) * step, anchor + i * step)])
  <2>1. RangeUpdated(s, close) = after(d \div range) BY <1>1 DEF RangeUpdated
  <2>2. after(n) = Built([s EXCEPT !.anchor = <<anchor + n * step>>], Rungs(anchor, step, n))
    BY DEF Rungs
  <2> HIDE DEF after, n, d
  <2> QED BY <1>3, <2>1, <2>2
<1>6. CASE close = anchor
  <2>1. off = 0 BY <1>1, <1>6 DEF PastAnchor
  <2>2. n = 0 BY <1>1, <1>4, <2>1
  <2>3. Moved(s, up, n) = Built(s, <<>>)
    <3> HIDE DEF n
    <3> QED BY <1>4, <2>2, MovedFacts
  <2>4. anchor + 0 * step = anchor /\ step \in Int BY <1>1
  <2>5. Rungs(anchor, step, 0) = <<>>
    <3> HIDE DEF anchor, step
    <3> QED BY <1>1, <2>4, RungsNone
  <2>6. [s EXCEPT !.anchor = <<anchor>>] = s
    <3> HIDE DEF anchor
    <3> QED BY <1>1
  <2>7. RangeUpdated(s, close) = Built(s, <<>>)
    <3> HIDE DEF n, step, anchor
    <3> QED BY <1>5, <2>2, <2>4, <2>5, <2>6
  <2> QED BY <1>4, <2>3, <2>7
<1>7. CASE close # anchor
  <2>1. step = Rung(s, up) BY <1>1, <1>7 DEF Rung, PastAnchor
  <2> HIDE DEF step, n
  <2>2. RangeUpdated(s, close) = Moved(s, up, n) BY <1>5, <2>1 DEF Moved
  <2> QED BY <1>4, <2>2 DEF n
<1> QED BY <1>6, <1>7

LEMMA RangeTwice ==
    ASSUME NEW s \in RangeState, NEW up \in BOOLEAN, NEW stop \in Int, NEW close \in Int,
           PastAnchor(s, up, stop) >= 0, IF up THEN stop <= close ELSE close <= stop
    PROVE  LET half == RangeUpdated(s, stop)
               rest == RangeUpdated(half.s, close)
           IN  Built(rest.s, half.bars \o rest.bars) = RangeUpdated(s, close)
<1> DEFINE range == s.range
           anchor == s.anchor[1]
           step == Rung(s, up)
           off == PastAnchor(s, up, close)
           part == PastAnchor(s, up, stop)
           m == Whole(part, range)
           mr == m * range
           t == Moved(s, up, m).s
           left == PastAnchor(t, up, close)
           n == Whole(left, range)
<1>1. /\ range \in Nat \ {0} /\ off \in Int /\ part \in Int /\ part <= off /\ part >= 0
      /\ anchor \in Int /\ step \in Int
  BY RangeFields DEF RangeState, PastAnchor
<1>2. m \in Nat /\ mr \in Nat /\ mr <= part
  <2> HIDE DEF range, part
  <2> QED BY <1>1, WholeFacts
<1>3. RangeUpdated(s, stop) = Moved(s, up, m) BY RangeLays
<1>4. /\ t \in RangeState /\ t.range = range /\ Rung(t, up) = step
      /\ t.anchor[1] = anchor + m * step /\ left = off - mr
  <2> HIDE DEF m
  <2> QED BY <1>2, MovedFacts
<1>5. left \in Int /\ left >= 0
  <2> HIDE DEF left, off, mr, part
  <2> QED BY <1>1, <1>2, <1>4
<1>6. RangeUpdated(t, close) = Moved(t, up, n) /\ n \in Nat
  <2> HIDE DEF t
  <2> QED BY <1>4, <1>5, RangeLays
<1>7. RangeUpdated(s, close) = Moved(s, up, Whole(off, range))
  <2>1. PastAnchor(s, up, close) >= 0 BY <1>1
  <2> QED BY <2>1, RangeLays
<1>8. Whole(off, range) = m + n
  <2>1. mr <= off
    <3> HIDE DEF mr, part, off
    <3> QED BY <1>1, <1>2
  <2>2. Whole(off, range) = m + Whole(off - m * range, range)
    <3> HIDE DEF m, off, range
    <3> QED BY <1>1, <1>2, <2>1, WholeRest
  <2> HIDE DEF left, off, m
  <2> QED BY <1>4, <2>2
<1> DEFINE a == Moved(s, up, m)
           b == Moved(t, up, n)
           ra == Rungs(anchor, step, m)
           rb == Rungs(anchor + m * step, step, n)
           to == anchor + (m + n) * step
<1>9. /\ a.bars = ra /\ b.bars = rb /\ b.s = [t EXCEPT !.anchor = <<(anchor + m * step) + n * step>>]
      /\ t = [s EXCEPT !.anchor = <<anchor + m * step>>]
  BY <1>4 DEF Moved, Built
<1>10. ra \o rb = Rungs(anchor, step, m + n)
  <2>1. anchor \in Int /\ step \in Int /\ m \in Nat /\ n \in Nat BY <1>1, <1>2, <1>6
  <2> HIDE DEF anchor, step, m, n
  <2> QED BY <2>1, RungsJoin
<1>11. b.s = [s EXCEPT !.anchor = <<to>>]
  <2>1. (anchor + m * step) + n * step = to
    <3> HIDE DEF anchor, step, m, n
    <3> QED BY <1>1, <1>2, <1>6
  <2> HIDE DEF to, b, t, n, m, anchor, step
  <2>2. b.s = [t EXCEPT !.anchor = <<to>>] BY <1>9, <2>1
  <2>3. s = [range |-> s.range, anchor |-> <<s.anchor[1]>>] BY RangeFields
  <2> QED BY <1>9, <2>2, <2>3
<1>12. Moved(s, up, m + n) = Built([s EXCEPT !.anchor = <<to>>], Rungs(anchor, step, m + n))
  <2> DEFINE moved(k) == Built([s EXCEPT !.anchor = <<anchor + k * step>>], Rungs(anchor, step, k))
  <2>1. \A k : Moved(s, up, k) = moved(k) BY DEF Moved
  <2>2. moved(m + n) = Built([s EXCEPT !.anchor = <<to>>], Rungs(anchor, step, m + n))
    OBVIOUS
  <2> HIDE DEF m, n, moved
  <2> QED BY <2>1, <2>2
<1>13. Built(b.s, a.bars \o b.bars) = Moved(s, up, m + n)
  <2>1. a.bars \o b.bars = Rungs(anchor, step, m + n) BY <1>9, <1>10
  <2> HIDE DEF a, b, to, anchor, step, m, n
  <2> QED BY <1>11, <1>12, <2>1
<1> HIDE DEF m, n, off, range
<1> QED BY <1>3, <1>6, <1>7, <1>8, <1>13

\* The updates of a builder that does not move at first are those of the second close.
LEMMA StandsThenMoves ==
    ASSUME NEW S, NEW s, NEW built, built.bars \in Seq(S), built = Built(built.s, built.bars)
    PROVE  Built(built.s, Built(s, <<>>).bars \o built.bars) = built
<1>1. Built(s, <<>>).bars = <<>> BY DEF Built
<1>2. <<>> \o built.bars = built.bars BY EmptyJoin
<1> QED BY <1>1, <1>2

LEMMA MovedBars ==
    ASSUME NEW s \in RangeState, NEW up \in BOOLEAN, NEW n \in Nat
    PROVE  /\ Moved(s, up, n).bars \in Seq(PriceBar)
           /\ Moved(s, up, n) = Built(Moved(s, up, n).s, Moved(s, up, n).bars)
<1>1. Rungs(s.anchor[1], Rung(s, up), n) \in Seq(PriceBar) BY RangeFields, RungsType
<1> QED BY <1>1 DEF Moved, Built

LEMMA RangeSettles ==
    ASSUME NEW s \in RangeState, NEW close \in Int
    PROVE  /\ RangeUpdated(s, close).s \in RangeState
           /\ RangeSettled(RangeUpdated(s, close).s, close)
           /\ \E up \in BOOLEAN, n \in Nat : RangeUpdated(s, close) = Moved(s, up, n)
<1>1. s.range \in Nat \ {0} /\ s.anchor[1] \in Int BY RangeFields DEF RangeState
<1>2. PICK up \in BOOLEAN : PastAnchor(s, up, close) >= 0
  <2>1. CASE close >= s.anchor[1]
    <3>1. PastAnchor(s, TRUE, close) >= 0 BY <1>1, <2>1 DEF PastAnchor
    <3> QED BY <3>1
  <2>2. CASE ~(close >= s.anchor[1])
    <3>1. PastAnchor(s, FALSE, close) >= 0 BY <1>1, <2>2 DEF PastAnchor
    <3> QED BY <3>1
  <2> QED BY <2>1, <2>2
<1> DEFINE range == s.range
           off == PastAnchor(s, up, close)
           n == Whole(off, range)
           nr == n * range
           t == Moved(s, up, n).s
<1>3. off \in Int /\ off >= 0 BY <1>2, RangeFields
<1>4. n \in Nat /\ nr \in Nat /\ nr <= off /\ off < nr + range
  <2> HIDE DEF off, range
  <2> QED BY <1>1, <1>3, WholeFacts DEF range
<1>5. RangeUpdated(s, close) = Moved(s, up, n) BY <1>2, RangeLays
<1>6. t \in RangeState /\ t.range = range /\ PastAnchor(t, up, close) = off - nr
  <2> HIDE DEF n
  <2> QED BY <1>4, MovedFacts
<1>7. RangeSettled(t, close)
  <2> DEFINE rest == PastAnchor(t, up, close)
             anchor == t.anchor[1]
  <2>1. rest \in Int /\ rest >= 0 /\ rest < range
    <3>1. rest = off - nr BY <1>6
    <3> HIDE DEF rest, off, nr, n, range
    <3> QED BY <1>1, <1>3, <1>4, <3>1 DEF range
  <2>2. anchor \in Int /\ range \in Nat BY <1>1, <1>6, RangeFields
  <2>3. rest = IF up THEN close - anchor ELSE anchor - close BY DEF PastAnchor
  <2> HIDE DEF rest, anchor, t, range
  <2>4. close - anchor < range /\ anchor - close < range BY <2>1, <2>2, <2>3
  <2> QED BY <1>6, <2>4 DEF RangeSettled, PastAnchor, anchor
<1> HIDE DEF n
<1> QED BY <1>4, <1>5, <1>6, <1>7

LEMMA RangeStays ==
    ASSUME NEW s \in RangeState, NEW up \in BOOLEAN, NEW close \in Int,
           PastAnchor(s, up, close) >= 0, PastAnchor(s, up, close) < s.range
    PROVE  RangeUpdated(s, close) = Built(s, <<>>)
<1> DEFINE off == PastAnchor(s, up, close)
           n == Whole(off, s.range)
<1>1. off \in Int /\ s.range \in Nat \ {0} BY RangeFields DEF RangeState
<1>2. n \in Nat /\ ~(n > 0)
  <2>1. ~(off >= s.range) /\ s.range \in Nat BY <1>1
  <2> HIDE DEF off
  <2> QED BY <1>1, <2>1, WholeFacts
<1>3. n = 0 BY <1>2
<1>4. RangeUpdated(s, close) = Moved(s, up, n) BY RangeLays
<1> HIDE DEF n
<1> QED BY <1>3, <1>4, MovedFacts

LEMMA RangeWalks ==
    ASSUME NEW s \in RangeState, NEW now \in Int, NEW stop \in Int, NEW close \in Int,
           RangeSettled(s, now), (stop - now) * (stop - close) <= 0
    PROVE  LET half == RangeUpdated(s, stop)
               rest == RangeUpdated(half.s, close)
           IN  Built(rest.s, half.bars \o rest.bars) = RangeUpdated(s, close)
<1> DEFINE anchor == s.anchor[1]
           whole == RangeUpdated(s, close)
<1>1. (now <= stop /\ stop <= close) \/ (close <= stop /\ stop <= now) BY Between
<1>2. s.range \in Nat /\ anchor \in Int BY RangeFields
<1>3. ASSUME RangeUpdated(s, stop) = Built(s, <<>>)
      PROVE  LET half == RangeUpdated(s, stop)
                 rest == RangeUpdated(half.s, close)
             IN  Built(rest.s, half.bars \o rest.bars) = RangeUpdated(s, close)
  <2>1. PICK up \in BOOLEAN, n \in Nat : whole = Moved(s, up, n) BY RangeSettles
  <2>2. whole.bars \in Seq(PriceBar) /\ whole = Built(whole.s, whole.bars)
    BY <2>1, MovedBars
  <2> HIDE DEF whole
  <2>3. Built(whole.s, Built(s, <<>>).bars \o whole.bars) = whole BY <2>2, StandsThenMoves
  <2>4. Built(s, <<>>).s = s BY DEF Built
  <2> QED BY <1>3, <2>3, <2>4 DEF whole
<1>4. CASE now <= stop /\ stop <= close
  <2>1. CASE stop >= anchor
    <3>1. PastAnchor(s, TRUE, stop) >= 0 BY <1>2, <2>1 DEF PastAnchor
    <3> QED BY <1>4, <3>1, RangeTwice
  <2>2. CASE ~(stop >= anchor)
    <3>1. PastAnchor(s, FALSE, stop) >= 0 /\ PastAnchor(s, FALSE, stop) < s.range
      BY <1>2, <1>4, <2>2 DEF PastAnchor, RangeSettled
    <3> QED BY <1>3, <3>1, RangeStays
  <2> QED BY <2>1, <2>2
<1>5. CASE close <= stop /\ stop <= now
  <2>1. CASE stop <= anchor
    <3>1. PastAnchor(s, FALSE, stop) >= 0 BY <1>2, <2>1 DEF PastAnchor
    <3> QED BY <1>5, <3>1, RangeTwice
  <2>2. CASE ~(stop <= anchor)
    <3>1. PastAnchor(s, TRUE, stop) >= 0 /\ PastAnchor(s, TRUE, stop) < s.range
      BY <1>2, <1>5, <2>2 DEF PastAnchor, RangeSettled
    <3> QED BY <1>3, <3>1, RangeStays
  <2> QED BY <2>1, <2>2
<1> QED BY <1>1, <1>4, <1>5

-----------------------------------------------------------------------------
(* KagiBars. *)

KagiState == [reversal : Nat \ {0}, dir : {-1, 0, 1}, extreme : One(Int), start : Int]

KagiSettled(s, close) ==
    LET extreme == s.extreme[1]
    IN  /\ s.dir = 0 => close = extreme
        /\ s.dir = 1 => close <= extreme /\ extreme - close < s.reversal
        /\ s.dir = -1 => extreme <= close /\ close - extreme < s.reversal

\* The line goes on to the close, and the line turns.
Drawn(s, close, dir) ==
    Built([reversal |-> s.reversal, dir |-> dir, extreme |-> <<close>>, start |-> s.start], <<>>)
Turned(s, close) ==
    Built([reversal |-> s.reversal, dir |-> -s.dir, extreme |-> <<close>>,
           start |-> s.extreme[1]],
          <<[from |-> s.start, to |-> s.extreme[1], direction |-> s.dir]>>)

LEMMA KagiFields ==
    ASSUME NEW s \in KagiState
    PROVE  /\ s.reversal \in Nat /\ s.reversal > 0 /\ s.dir \in {-1, 0, 1} /\ s.start \in Int
           /\ s.extreme[1] \in Int /\ s.extreme = <<s.extreme[1]>> /\ s.extreme # <<>>
           /\ s = [reversal |-> s.reversal, dir |-> s.dir, extreme |-> <<s.extreme[1]>>,
                   start |-> s.start]
  BY DEF KagiState, One

LEMMA DrawnFacts ==
    ASSUME NEW s \in KagiState, NEW close \in Int, NEW dir \in {-1, 0, 1}
    PROVE  LET t == Drawn(s, close, dir).s
           IN  /\ t \in KagiState /\ t.dir = dir /\ t.extreme[1] = close
               /\ t.start = s.start /\ t.reversal = s.reversal
               /\ Drawn(s, close, dir) = Built(t, <<>>)
               /\ \A c : Drawn(t, c, dir) = Drawn(s, c, dir)
               /\ dir = s.dir /\ close = s.extreme[1] => t = s
<1> DEFINE t == Drawn(s, close, dir).s
<1>1. /\ s.reversal \in Nat \ {0} /\ s.start \in Int
      /\ s = [reversal |-> s.reversal, dir |-> s.dir, extreme |-> <<s.extreme[1]>>,
              start |-> s.start]
  BY KagiFields DEF KagiState
<1>2. t = [reversal |-> s.reversal, dir |-> dir, extreme |-> <<close>>, start |-> s.start]
  BY <1>1 DEF Drawn, Built
<1>3. Drawn(s, close, dir) = Built(t, <<>>) BY DEF Drawn, Built
<1> HIDE DEF t
<1>4. ASSUME NEW c PROVE Drawn(t, c, dir) = Drawn(s, c, dir) BY <1>2 DEF Drawn
<1>5. t \in KagiState /\ t.dir = dir /\ t.extreme[1] = close /\ t.start = s.start
      /\ t.reversal = s.reversal
  BY <1>1, <1>2 DEF KagiState, One
<1>6. dir = s.dir /\ close = s.extreme[1] => t = s BY <1>1, <1>2
<1> QED BY <1>3, <1>4, <1>5, <1>6 DEF t

LEMMA TurnedFacts ==
    ASSUME NEW s \in KagiState, NEW close \in Int, s.dir # 0
    PROVE  LET t == Turned(s, close).s
           IN  /\ t \in KagiState /\ t.dir = -s.dir /\ t.extreme[1] = close
               /\ t.start = s.extreme[1] /\ t.reversal = s.reversal
               /\ Turned(s, close).bars \in Seq(PriceBar)
               /\ Turned(s, close)
                      = Built(t, <<[from |-> s.start, to |-> s.extreme[1], direction |-> s.dir]>>)
               /\ \A c : Drawn(t, c, -s.dir).s = Turned(s, c).s
               /\ \A c : Turned(s, c).bars = Turned(s, close).bars
               /\ \A c : Turned(s, c) = Built(Turned(s, c).s, Turned(s, c).bars)
<1> DEFINE t == Turned(s, close).s
           bar == [from |-> s.start, to |-> s.extreme[1], direction |-> s.dir]
           at(c) == [reversal |-> s.reversal, dir |-> -s.dir, extreme |-> <<c>>,
                     start |-> s.extreme[1]]
<1>1. /\ s.reversal \in Nat \ {0} /\ s.start \in Int /\ s.extreme[1] \in Int
      /\ s.dir \in {-1, 1} /\ -s.dir \in {-1, 1}
      /\ s = [reversal |-> s.reversal, dir |-> s.dir, extreme |-> <<s.extreme[1]>>,
              start |-> s.start]
  BY KagiFields DEF KagiState
<1>2. ASSUME NEW c PROVE Turned(s, c) = Built(at(c), <<bar>>) BY DEF Turned
<1>3. t = at(close) /\ Turned(s, close) = Built(t, <<bar>>)
  <2> HIDE DEF at, bar
  <2> QED BY <1>2 DEF Built
<1>4. bar \in PriceBar BY <1>1 DEF PriceBar
<1>5. <<bar>> \in Seq(PriceBar)
  <2> HIDE DEF bar
  <2> QED BY <1>4
<1>6. ASSUME NEW c PROVE Drawn(t, c, -s.dir).s = Turned(s, c).s
  <2> HIDE DEF t
  <2>1. Drawn(t, c, -s.dir).s = at(c) BY <1>3 DEF Drawn, Built
  <2>2. Turned(s, c).s = at(c) BY <1>2 DEF Built
  <2> QED BY <2>1, <2>2
<1>7. ASSUME NEW c
      PROVE  /\ Turned(s, c).bars = <<bar>>
             /\ Turned(s, c) = Built(Turned(s, c).s, Turned(s, c).bars)
  BY <1>2 DEF Built
<1> HIDE DEF t
<1>8. /\ t \in KagiState /\ t.dir = -s.dir /\ t.extreme[1] = close
      /\ t.start = s.extreme[1] /\ t.reversal = s.reversal
  BY <1>1, <1>3 DEF KagiState, One
<1> HIDE DEF bar
<1>9. Turned(s, close).bars = <<bar>> BY <1>7
<1> QED BY <1>3, <1>5, <1>6, <1>7, <1>8, <1>9 DEF t, bar

\* What a close does, by the direction of the line.
LEMMA KagiMoves ==
    ASSUME NEW s \in KagiState, NEW close \in Int
    PROVE  LET extreme == s.extreme[1]
           IN  /\ s.dir = 0 =>
                     KagiUpdated(s, close) =
                         IF close > extreme THEN Drawn(s, close, 1)
                         ELSE IF close < extreme THEN Drawn(s, close, -1) ELSE Built(s, <<>>)
               /\ s.dir = 1 =>
                     KagiUpdated(s, close) =
                         IF close > extreme THEN Drawn(s, close, 1)
                         ELSE IF extreme - close >= s.reversal THEN Turned(s, close)
                              ELSE Built(s, <<>>)
               /\ s.dir = -1 =>
                     KagiUpdated(s, close) =
                         IF close < extreme THEN Drawn(s, close, -1)
                         ELSE IF close - extreme >= s.reversal THEN Turned(s, close)
                              ELSE Built(s, <<>>)
<1> DEFINE extreme == s.extreme[1]
           begun == Built([[s EXCEPT !.extreme = <<close>>] EXCEPT
                              !.dir = IF close > extreme THEN 1 ELSE -1], <<>>)
           extended == Built([s EXCEPT !.extreme = <<close>>], <<>>)
           turned == Built([[s EXCEPT !.extreme = <<close>>] EXCEPT !.dir = -@, !.start = extreme],
                           <<[from |-> s.start, to |-> extreme, direction |-> s.dir]>>)
           seeded == Built([[s EXCEPT !.extreme = <<close>>] EXCEPT !.start = close], <<>>)
           none == Built(s, <<>>)
<1>1. /\ s.reversal \in Nat /\ s.reversal > 0 /\ s.dir \in {-1, 0, 1} /\ s.start \in Int
      /\ extreme \in Int /\ s.extreme # <<>>
      /\ s = [reversal |-> s.reversal, dir |-> s.dir, extreme |-> <<extreme>>,
              start |-> s.start]
  BY KagiFields
<1>2. KagiUpdated(s, close) =
          CASE s.extreme = <<>> -> seeded
            [] s.extreme # <<>> /\ s.dir = 0 /\ close # extreme -> begun
            [] s.extreme # <<>> /\ Ahead(s.dir, close, extreme) -> extended
            [] s.extreme # <<>> /\ (extreme - close) * s.dir >= s.reversal -> turned
            [] OTHER -> none
  BY DEF KagiUpdated
<1> DEFINE on == [reversal |-> s.reversal, dir |-> s.dir, extreme |-> <<close>>,
                   start |-> s.start]
<1>0. [s EXCEPT !.extreme = <<close>>] = on
  <2> HIDE DEF extreme
  <2> QED BY <1>1
<1>3. begun = Drawn(s, close, IF close > extreme THEN 1 ELSE -1)
  <2> DEFINE d == IF close > extreme THEN 1 ELSE -1
             a == [s EXCEPT !.extreme = <<close>>]
  <2> HIDE DEF d
  <2>1. [on EXCEPT !.dir = d] = [reversal |-> s.reversal, dir |-> d, extreme |-> <<close>>,
                                 start |-> s.start]
    OBVIOUS
  <2>2. begun = Built([a EXCEPT !.dir = d], <<>>) BY DEF d
  <2> HIDE DEF a, begun
  <2>3. begun = Built([on EXCEPT !.dir = d], <<>>) BY <1>0, <2>2 DEF a
  <2> HIDE DEF on
  <2> QED BY <2>1, <2>3 DEF Drawn, d
<1>4. extended = Drawn(s, close, s.dir) BY <1>0 DEF Drawn
<1>5. turned = Turned(s, close)
  <2> DEFINE a == [s EXCEPT !.extreme = <<close>>]
             bars == <<[from |-> s.start, to |-> extreme, direction |-> s.dir]>>
  <2>1. turned = Built([[a EXCEPT !.dir = -@] EXCEPT !.start = extreme], bars) OBVIOUS
  <2> HIDE DEF a, turned, bars
  <2>2. turned = Built([[on EXCEPT !.dir = -@] EXCEPT !.start = extreme], bars)
    BY <1>0, <2>1 DEF a
  <2> DEFINE b == [on EXCEPT !.dir = -@]
  <2>3. b = [reversal |-> s.reversal, dir |-> -s.dir, extreme |-> <<close>>, start |-> s.start]
    OBVIOUS
  <2>4. turned = Built([b EXCEPT !.start = extreme], bars) BY <2>2
  <2> HIDE DEF b, extreme
  <2>5. [b EXCEPT !.start = extreme]
            = [reversal |-> s.reversal, dir |-> -s.dir, extreme |-> <<close>>, start |-> extreme]
    BY <2>3
  <2> QED BY <2>4, <2>5 DEF Turned, bars, extreme
<1> HIDE DEF begun, extended, turned, seeded, none
<1>6. CASE s.dir = 0
  <2>1. ~Ahead(s.dir, close, extreme) /\ ~((extreme - close) * s.dir >= s.reversal)
    BY <1>1, <1>6 DEF Ahead
  <2>2. CASE close # extreme
    <3>1. KagiUpdated(s, close) = begun BY <1>1, <1>2, <1>6, <2>1, <2>2
    <3>2. close > extreme \/ close < extreme BY <1>1, <2>2
    <3> HIDE DEF extreme
    <3>3. KagiUpdated(s, close) = IF close > extreme THEN Drawn(s, close, 1)
                                  ELSE Drawn(s, close, -1)
      BY <1>3, <3>1
    <3>4. KagiUpdated(s, close) =
              IF close > extreme THEN Drawn(s, close, 1)
              ELSE IF close < extreme THEN Drawn(s, close, -1) ELSE none
      BY <3>2, <3>3
    <3> QED BY <1>6, <3>4 DEF none, extreme
  <2>3. CASE close = extreme
    <3>1. KagiUpdated(s, close) = none BY <1>1, <1>2, <1>6, <2>1, <2>3
    <3>2. ~(close > extreme) /\ ~(close < extreme) BY <1>1, <2>3
    <3> QED BY <1>6, <3>1, <3>2 DEF none
  <2> QED BY <2>2, <2>3
<1>7. CASE s.dir = 1
  <2>1. (Ahead(s.dir, close, extreme) <=> close > extreme)
        /\ (extreme - close) * s.dir = extreme - close
    BY <1>1, <1>7 DEF Ahead
  <2>2. KagiUpdated(s, close) = IF close > extreme THEN extended
                                ELSE IF extreme - close >= s.reversal THEN turned ELSE none
    BY <1>1, <1>2, <1>7, <2>1
  <2>3. extended = Drawn(s, close, 1) BY <1>4, <1>7
  <2> QED BY <1>5, <1>7, <2>2, <2>3 DEF none
<1>8. CASE s.dir = -1
  <2>1. (Ahead(s.dir, close, extreme) <=> close < extreme)
        /\ (extreme - close) * s.dir = close - extreme
    BY <1>1, <1>8 DEF Ahead
  <2>2. KagiUpdated(s, close) = IF close < extreme THEN extended
                                ELSE IF close - extreme >= s.reversal THEN turned ELSE none
    BY <1>1, <1>2, <1>8, <2>1
  <2>3. extended = Drawn(s, close, -1) BY <1>4, <1>8
  <2> QED BY <1>5, <1>8, <2>2, <2>3 DEF none
<1> QED BY <1>1, <1>6, <1>7, <1>8

LEMMA KagiSettles ==
    ASSUME NEW s \in KagiState, NEW now \in Int, NEW close \in Int, KagiSettled(s, now)
    PROVE  /\ KagiUpdated(s, close).s \in KagiState
           /\ KagiSettled(KagiUpdated(s, close).s, close)
           /\ KagiUpdated(s, close).bars \in Seq(PriceBar)
           /\ KagiUpdated(s, close) = Built(KagiUpdated(s, close).s, KagiUpdated(s, close).bars)
           /\ KagiUpdated(s, close).s.reversal = s.reversal
           /\ \/ /\ KagiUpdated(s, close).bars = <<>>
                 /\ s.dir # 0 => KagiUpdated(s, close).s.dir = s.dir
                                 /\ KagiUpdated(s, close).s.start = s.start
                                 /\ \/ KagiUpdated(s, close).s.extreme = s.extreme
                                    \/ Ahead(s.dir, close, s.extreme[1])
                                       /\ KagiUpdated(s, close).s.extreme[1] = close
              \/ s.dir # 0 /\ KagiUpdated(s, close) = Turned(s, close)
                 /\ (s.extreme[1] - close) * s.dir >= s.reversal
<1> DEFINE extreme == s.extreme[1]
           after == KagiUpdated(s, close)
           Fine(b) == /\ b.s \in KagiState
                      /\ KagiSettled(b.s, close)
                      /\ b.bars \in Seq(PriceBar)
                      /\ b = Built(b.s, b.bars)
                      /\ b.s.reversal = s.reversal
                      /\ \/ /\ b.bars = <<>>
                            /\ s.dir # 0 => b.s.dir = s.dir
                                            /\ b.s.start = s.start
                                            /\ \/ b.s.extreme = s.extreme
                                               \/ Ahead(s.dir, close, s.extreme[1])
                                                  /\ b.s.extreme[1] = close
                         \/ s.dir # 0 /\ b = Turned(s, close)
                            /\ (s.extreme[1] - close) * s.dir >= s.reversal
<1>1. /\ s.reversal \in Nat /\ s.reversal > 0 /\ s.dir \in {-1, 0, 1} /\ s.start \in Int
      /\ extreme \in Int
  BY KagiFields
<1>2. ASSUME NEW dir \in {-1, 1}, (close - extreme) * dir > 0, s.dir = 0 \/ s.dir = dir
      PROVE  Fine(Drawn(s, close, dir))
  <2> DEFINE b == Drawn(s, close, dir)
             t == b.s
  <2>1. /\ t \in KagiState /\ t.dir = dir /\ t.extreme[1] = close
        /\ t.start = s.start /\ t.reversal = s.reversal /\ b = Built(t, <<>>)
    BY DrawnFacts
  <2>2. b.bars = <<>> BY <2>1 DEF Built
  <2> HIDE DEF b
  <2>3. KagiSettled(t, close) BY <1>1, <2>1 DEF KagiSettled
  <2>4. b.bars \in Seq(PriceBar) BY <2>2
  <2>5. s.dir # 0 => Ahead(s.dir, close, s.extreme[1]) BY <1>2 DEF Ahead
  <2>6. b = Built(b.s, b.bars) BY <2>1, <2>2
  <2>7. Fine(b) BY <1>2, <2>1, <2>2, <2>3, <2>4, <2>5, <2>6
  <2> QED BY <2>7 DEF b
<1>3. ASSUME KagiSettled(s, close) PROVE Fine(Built(s, <<>>))
  <2>1. Built(s, <<>>).s = s /\ Built(s, <<>>).bars = <<>> BY DEF Built
  <2>2. <<>> \in Seq(PriceBar) OBVIOUS
  <2> QED BY <1>3, <2>1, <2>2
<1>4. ASSUME s.dir # 0, (extreme - close) * s.dir >= s.reversal
      PROVE  Fine(Turned(s, close))
  <2> DEFINE b == Turned(s, close)
             t == b.s
  <2>1. /\ t \in KagiState /\ t.dir = -s.dir /\ t.extreme[1] = close
        /\ t.reversal = s.reversal
        /\ b.bars \in Seq(PriceBar) /\ b = Built(b.s, b.bars)
    <3>1. s.dir # 0 BY <1>4
    <3>2. b = Built(b.s, b.bars) BY DEF Turned, Built
    <3>3. b.bars \in Seq(PriceBar) BY <3>1, TurnedFacts
    <3>4. t \in KagiState /\ t.dir = -s.dir /\ t.extreme[1] = close /\ t.reversal = s.reversal
      BY <3>1, TurnedFacts
    <3> QED BY <3>2, <3>3, <3>4
  <2>2. KagiSettled(t, close)
    <3> HIDE DEF b
    <3>1. t.dir \in {-1, 1} /\ t.reversal > 0 /\ t.reversal \in Nat BY <1>1, <1>4, <2>1
    <3> QED BY <2>1, <3>1 DEF KagiSettled
  <2> HIDE DEF b
  <2>3. b = Turned(s, close) BY DEF b
  <2>4. Fine(b) BY <1>4, <2>1, <2>2, <2>3
  <2> QED BY <2>4 DEF b
<1>5. Fine(after)
  <2>1. CASE s.dir = 0
    <3>1. CASE close > extreme
      <4>1. (close - extreme) * 1 > 0 /\ after = Drawn(s, close, 1)
        BY <1>1, <2>1, <3>1, KagiMoves
      <4> HIDE DEF Fine, after, extreme
      <4> QED BY <1>2, <2>1, <4>1
    <3>2. CASE close < extreme
      <4>1. (close - extreme) * (-1) > 0 /\ after = Drawn(s, close, -1)
        BY <1>1, <2>1, <3>2, KagiMoves
      <4> HIDE DEF Fine, after, extreme
      <4> QED BY <1>2, <2>1, <4>1
    <3>3. CASE close = extreme
      <4>1. after = Built(s, <<>>) BY <1>1, <2>1, <3>3, KagiMoves
      <4>2. KagiSettled(s, close) BY <2>1, <3>3 DEF KagiSettled
      <4> HIDE DEF Fine, after, extreme
      <4> QED BY <1>3, <4>1, <4>2
    <3> QED BY <1>1, <3>1, <3>2, <3>3
  <2>2. CASE s.dir = 1
    <3>1. CASE close > extreme
      <4>1. (close - extreme) * 1 > 0 /\ after = Drawn(s, close, 1)
        BY <1>1, <2>2, <3>1, KagiMoves
      <4> HIDE DEF Fine, after, extreme
      <4> QED BY <1>2, <2>2, <4>1
    <3>2. CASE ~(close > extreme) /\ extreme - close >= s.reversal
      <4>1. (extreme - close) * s.dir >= s.reversal /\ s.dir # 0 /\ after = Turned(s, close)
        BY <1>1, <2>2, <3>2, KagiMoves
      <4> HIDE DEF Fine, after, extreme
      <4> QED BY <1>4, <4>1
    <3>3. CASE ~(close > extreme) /\ ~(extreme - close >= s.reversal)
      <4>1. after = Built(s, <<>>) BY <1>1, <2>2, <3>3, KagiMoves
      <4>2. KagiSettled(s, close) BY <1>1, <2>2, <3>3 DEF KagiSettled
      <4> HIDE DEF Fine, after, extreme
      <4> QED BY <1>3, <4>1, <4>2
    <3> QED BY <3>1, <3>2, <3>3
  <2>3. CASE s.dir = -1
    <3>1. CASE close < extreme
      <4>1. (close - extreme) * (-1) > 0 /\ after = Drawn(s, close, -1)
        BY <1>1, <2>3, <3>1, KagiMoves
      <4> HIDE DEF Fine, after, extreme
      <4> QED BY <1>2, <2>3, <4>1
    <3>2. CASE ~(close < extreme) /\ close - extreme >= s.reversal
      <4>1. (extreme - close) * s.dir >= s.reversal /\ s.dir # 0 /\ after = Turned(s, close)
        BY <1>1, <2>3, <3>2, KagiMoves
      <4> HIDE DEF Fine, after, extreme
      <4> QED BY <1>4, <4>1
    <3>3. CASE ~(close < extreme) /\ ~(close - extreme >= s.reversal)
      <4>1. after = Built(s, <<>>) BY <1>1, <2>3, <3>3, KagiMoves
      <4>2. KagiSettled(s, close) BY <1>1, <2>3, <3>3 DEF KagiSettled
      <4> HIDE DEF Fine, after, extreme
      <4> QED BY <1>3, <4>1, <4>2
    <3> QED BY <3>1, <3>2, <3>3
  <2> QED BY <1>1, <2>1, <2>2, <2>3
<1> HIDE DEF after
<1>6. QED BY <1>5 DEF after

LEMMA KagiDraws ==
    ASSUME NEW s \in KagiState, NEW close \in Int, NEW d \in {-1, 1},
           (close - s.extreme[1]) * d > 0, s.dir = 0 \/ s.dir = d
    PROVE  KagiUpdated(s, close) = Drawn(s, close, d)
<1>1. /\ s.reversal \in Nat /\ s.reversal > 0 /\ s.extreme[1] \in Int BY KagiFields
<1>2. CASE d = 1
  <2>1. close > s.extreme[1] /\ ~(close < s.extreme[1]) BY <1>1, <1>2
  <2>2. KagiUpdated(s, close) = Drawn(s, close, 1) BY <1>2, <2>1, KagiMoves
  <2> QED BY <1>2, <2>2
<1>3. CASE d = -1
  <2>1. close < s.extreme[1] /\ ~(close > s.extreme[1]) BY <1>1, <1>3
  <2>2. KagiUpdated(s, close) = Drawn(s, close, -1) BY <1>3, <2>1, KagiMoves
  <2> QED BY <1>3, <2>2
<1> QED BY <1>2, <1>3

LEMMA KagiTurns ==
    ASSUME NEW s \in KagiState, NEW close \in Int, s.dir # 0,
           (s.extreme[1] - close) * s.dir >= s.reversal
    PROVE  KagiUpdated(s, close) = Turned(s, close)
<1>1. /\ s.reversal \in Nat /\ s.reversal > 0 /\ s.extreme[1] \in Int /\ s.dir \in {-1, 1}
  BY KagiFields
<1>2. CASE s.dir = 1
  <2>1. ~(close > s.extreme[1]) /\ s.extreme[1] - close >= s.reversal BY <1>1, <1>2
  <2> QED BY <1>2, <2>1, KagiMoves
<1>3. CASE s.dir = -1
  <2>1. ~(close < s.extreme[1]) /\ close - s.extreme[1] >= s.reversal BY <1>1, <1>3
  <2> QED BY <1>3, <2>1, KagiMoves
<1> QED BY <1>1, <1>2, <1>3

LEMMA KagiStays ==
    ASSUME NEW s \in KagiState, NEW close \in Int, KagiSettled(s, close)
    PROVE  KagiUpdated(s, close) = Built(s, <<>>)
<1>1. /\ s.reversal \in Nat /\ s.extreme[1] \in Int /\ s.dir \in {-1, 0, 1} BY KagiFields
<1>2. CASE s.dir = 0
  <2>1. ~(close > s.extreme[1]) /\ ~(close < s.extreme[1]) BY <1>1, <1>2 DEF KagiSettled
  <2> QED BY <1>2, <2>1, KagiMoves
<1>3. CASE s.dir = 1
  <2>1. ~(close > s.extreme[1]) /\ ~(s.extreme[1] - close >= s.reversal)
    BY <1>1, <1>3 DEF KagiSettled
  <2> QED BY <1>3, <2>1, KagiMoves
<1>4. CASE s.dir = -1
  <2>1. ~(close < s.extreme[1]) /\ ~(close - s.extreme[1] >= s.reversal)
    BY <1>1, <1>4 DEF KagiSettled
  <2> QED BY <1>4, <2>1, KagiMoves
<1> QED BY <1>1, <1>2, <1>3, <1>4

\* A line drawn in two moves, and a turn that goes on.
LEMMA KagiDrawsTwice ==
    ASSUME NEW s \in KagiState, NEW stop \in Int, NEW close \in Int, NEW d \in {-1, 1},
           (stop - s.extreme[1]) * d > 0, s.dir = 0 \/ s.dir = d, (close - stop) * d >= 0
    PROVE  LET half == KagiUpdated(s, stop)
               rest == KagiUpdated(half.s, close)
           IN  Built(rest.s, half.bars \o rest.bars) = KagiUpdated(s, close)
<1> DEFINE t == Drawn(s, stop, d).s
<1>0. s.extreme[1] \in Int BY KagiFields
<1>1. KagiUpdated(s, stop) = Built(t, <<>>) BY KagiDraws, DrawnFacts
<1>2. /\ t \in KagiState /\ t.dir = d /\ t.extreme[1] = stop
      /\ Drawn(t, close, d) = Drawn(s, close, d)
  BY DrawnFacts
<1>3. KagiUpdated(s, close) = Drawn(s, close, d)
  <2>1. (close - s.extreme[1]) * d > 0
    <3>1. CASE d = 1
      BY <1>0, <3>1
    <3>2. CASE d = -1
      BY <1>0, <3>2
    <3> QED BY <3>1, <3>2
  <2> QED BY <2>1, KagiDraws
<1>4. KagiUpdated(t, close) = Drawn(s, close, d)
  <2>1. CASE (close - stop) * d > 0
    <3> HIDE DEF t
    <3> QED BY <1>2, <2>1, KagiDraws
  <2>2. CASE ~((close - stop) * d > 0)
    <3>1. close = stop
      <4>1. CASE d = 1
        BY <2>2, <4>1
      <4>2. CASE d = -1
        BY <2>2, <4>2
      <4> QED BY <4>1, <4>2
    <3> HIDE DEF t
    <3>2. KagiSettled(t, close)
      <4>1. t.reversal \in Nat /\ t.reversal > 0 BY <1>2, KagiFields
      <4> QED BY <1>2, <3>1, <4>1 DEF KagiSettled
    <3>3. KagiUpdated(t, close) = Built(t, <<>>) BY <1>2, <3>2, KagiStays
    <3> QED BY <3>1, <3>3, DrawnFacts DEF t
  <2> QED BY <2>1, <2>2
<1> HIDE DEF t
<1>5. Built(t, <<>>).s = t /\ Built(t, <<>>).bars = <<>> BY DEF Built
<1>6. /\ Drawn(s, close, d).bars = <<>>
      /\ Built(Drawn(s, close, d).s, <<>>) = Drawn(s, close, d)
  BY DEF Drawn, Built
<1>7. <<>> \o <<>> = <<>> OBVIOUS
<1> QED BY <1>1, <1>3, <1>4, <1>5, <1>6, <1>7

LEMMA KagiTurnsTwice ==
    ASSUME NEW s \in KagiState, NEW stop \in Int, NEW close \in Int, s.dir # 0,
           (s.extreme[1] - stop) * s.dir >= s.reversal, (stop - close) * s.dir >= 0
    PROVE  LET half == KagiUpdated(s, stop)
               rest == KagiUpdated(half.s, close)
           IN  Built(rest.s, half.bars \o rest.bars) = KagiUpdated(s, close)
<1> DEFINE t == Turned(s, stop).s
           d == -s.dir
<1>0. s.extreme[1] \in Int /\ s.dir \in {-1, 1} /\ d \in {-1, 1} /\ s.reversal \in Nat
  BY KagiFields
<1>1. KagiUpdated(s, stop) = Turned(s, stop) BY KagiTurns
<1>2. t \in KagiState /\ t.dir = d /\ t.extreme[1] = stop BY TurnedFacts
<1>3. Drawn(t, close, d).s = Turned(s, close).s
  <2>1. \A c : Drawn(Turned(s, stop).s, c, -s.dir).s = Turned(s, c).s BY TurnedFacts
  <2> QED BY <2>1
<1>4. KagiUpdated(s, close) = Turned(s, close)
  <2>1. (s.extreme[1] - close) * s.dir >= s.reversal
    <3>1. CASE s.dir = 1
      BY <1>0, <3>1
    <3>2. CASE s.dir = -1
      BY <1>0, <3>2
    <3> QED BY <1>0, <3>1, <3>2
  <2> QED BY <2>1, KagiTurns
<1>5. KagiUpdated(t, close) = Built(Turned(s, close).s, <<>>)
  <2>1. CASE (close - stop) * d > 0
    <3> HIDE DEF t, d
    <3>1. KagiUpdated(t, close) = Drawn(t, close, d) BY <1>0, <1>2, <2>1, KagiDraws
    <3>2. Drawn(t, close, d) = Built(Drawn(t, close, d).s, <<>>) BY DEF Drawn, Built
    <3> QED BY <1>3, <3>1, <3>2
  <2>2. CASE ~((close - stop) * d > 0)
    <3>1. close = stop
      <4>1. CASE s.dir = 1
        BY <2>2, <4>1
      <4>2. CASE s.dir = -1
        BY <2>2, <4>2
      <4> QED BY <1>0, <4>1, <4>2
    <3> HIDE DEF t, d
    <3>2. KagiSettled(t, close)
      <4>1. t.reversal \in Nat /\ t.reversal > 0 BY <1>2, KagiFields
      <4> QED BY <1>0, <1>2, <3>1, <4>1 DEF KagiSettled
    <3>3. KagiUpdated(t, close) = Built(t, <<>>) BY <1>2, <3>2, KagiStays
    <3> QED BY <3>1, <3>3 DEF t
  <2> QED BY <2>1, <2>2
<1>6. /\ Turned(s, stop).bars \in Seq(PriceBar) /\ Turned(s, stop).bars = Turned(s, close).bars
      /\ Turned(s, close) = Built(Turned(s, close).s, Turned(s, close).bars)
  <2>1. Turned(s, stop).bars \in Seq(PriceBar) BY TurnedFacts
  <2> QED BY <2>1 DEF Turned, Built
<1> DEFINE bars == Turned(s, stop).bars
           u == Turned(s, close).s
<1> HIDE DEF bars, u, t
<1>7. bars \o <<>> = bars BY <1>6 DEF bars
<1>8. Built(u, <<>>).s = u /\ Built(u, <<>>).bars = <<>> BY DEF Built
<1>9. KagiUpdated(Turned(s, stop).s, close) = Built(u, <<>>) BY <1>5 DEF t, u
<1>10. Built(u, bars \o <<>>) = KagiUpdated(s, close) BY <1>4, <1>6, <1>7 DEF bars, u
<1>11. KagiUpdated(s, stop).bars = bars BY <1>1 DEF bars
<1> QED BY <1>1, <1>8, <1>9, <1>10, <1>11

LEMMA KagiWalks ==
    ASSUME NEW s \in KagiState, NEW now \in Int, NEW stop \in Int, NEW close \in Int,
           KagiSettled(s, now), (stop - now) * (stop - close) <= 0
    PROVE  LET half == KagiUpdated(s, stop)
               rest == KagiUpdated(half.s, close)
           IN  Built(rest.s, half.bars \o rest.bars) = KagiUpdated(s, close)
<1> DEFINE extreme == s.extreme[1]
           whole == KagiUpdated(s, close)
<1>1. (now <= stop /\ stop <= close) \/ (close <= stop /\ stop <= now) BY Between
<1>2. s.reversal \in Nat /\ s.reversal > 0 /\ extreme \in Int /\ s.dir \in {-1, 0, 1}
  BY KagiFields
<1>3. ASSUME KagiSettled(s, stop)
      PROVE  LET half == KagiUpdated(s, stop)
                 rest == KagiUpdated(half.s, close)
             IN  Built(rest.s, half.bars \o rest.bars) = KagiUpdated(s, close)
  <2>1. KagiUpdated(s, stop) = Built(s, <<>>) BY <1>3, KagiStays
  <2>2. whole.bars \in Seq(PriceBar) /\ whole = Built(whole.s, whole.bars) BY KagiSettles
  <2> HIDE DEF whole
  <2>3. Built(whole.s, Built(s, <<>>).bars \o whole.bars) = whole BY <2>2, StandsThenMoves
  <2>4. Built(s, <<>>).s = s BY DEF Built
  <2> QED BY <2>1, <2>3, <2>4 DEF whole
<1>4. \/ KagiSettled(s, stop)
      \/ \E d \in {-1, 1} : /\ (stop - extreme) * d > 0 /\ (s.dir = 0 \/ s.dir = d)
                            /\ (close - stop) * d >= 0
      \/ /\ s.dir # 0 /\ (extreme - stop) * s.dir >= s.reversal
         /\ (stop - close) * s.dir >= 0
  <2> SUFFICES ASSUME ~KagiSettled(s, stop),
                      ~(s.dir # 0 /\ (extreme - stop) * s.dir >= s.reversal
                        /\ (stop - close) * s.dir >= 0)
               PROVE  \E d \in {-1, 1} : /\ (stop - extreme) * d > 0 /\ (s.dir = 0 \/ s.dir = d)
                                         /\ (close - stop) * d >= 0
    OBVIOUS
  <2>1. CASE now <= stop /\ stop <= close
    <3>1. (stop - extreme) * 1 > 0 /\ (s.dir = 0 \/ s.dir = 1) /\ (close - stop) * 1 >= 0
      BY <1>2, <2>1 DEF KagiSettled
    <3> QED BY <3>1
  <2>2. CASE close <= stop /\ stop <= now
    <3>1. (stop - extreme) * (-1) > 0 /\ (s.dir = 0 \/ s.dir = -1) /\ (close - stop) * (-1) >= 0
      BY <1>2, <2>2 DEF KagiSettled
    <3> QED BY <3>1
  <2> QED BY <1>1, <2>1, <2>2
<1>5. CASE \E d \in {-1, 1} : /\ (stop - extreme) * d > 0 /\ (s.dir = 0 \/ s.dir = d)
                              /\ (close - stop) * d >= 0
  BY <1>5, KagiDrawsTwice
<1>6. CASE /\ s.dir # 0 /\ (extreme - stop) * s.dir >= s.reversal
           /\ (stop - close) * s.dir >= 0
  BY <1>6, KagiTurnsTwice
<1> QED BY <1>3, <1>4, <1>5, <1>6

-----------------------------------------------------------------------------
(* PointAndFigureBars. *)

PnfState == [box : Nat \ {0}, reversal : Nat \ {0}, dir : {-1, 0, 1}, top : Int, bottom : Int,
             seeded : {TRUE}]

\* The price of a close, in whole boxes, and how far a column has to come back.
Grid(s, close) == (close \div s.box) * s.box
TurnsAfter(s) == s.reversal * s.box

PnfSettled(s, price) ==
    /\ s.dir = 0 => price = s.top /\ price = s.bottom
    /\ s.dir = 1 => price <= s.top /\ price > s.top - TurnsAfter(s)
    /\ s.dir = -1 => s.bottom <= price /\ price < s.bottom + TurnsAfter(s)

Grown(s, price, d) ==
    Built([box |-> s.box, reversal |-> s.reversal, dir |-> d,
           top |-> IF d = 1 THEN price ELSE s.top,
           bottom |-> IF d = 1 THEN s.bottom ELSE price, seeded |-> s.seeded], <<>>)
Flipped(s, price) ==
    Built([box |-> s.box, reversal |-> s.reversal, dir |-> -s.dir,
           top |-> IF s.dir = 1 THEN s.top - s.box ELSE price,
           bottom |-> IF s.dir = 1 THEN price ELSE s.bottom + s.box, seeded |-> s.seeded],
          <<Column(s)>>)

LEMMA PnfFields ==
    ASSUME NEW s \in PnfState
    PROVE  /\ s.box \in Nat \ {0} /\ s.reversal \in Nat \ {0} /\ s.dir \in {-1, 0, 1}
           /\ s.top \in Int /\ s.bottom \in Int /\ s.seeded = TRUE
           /\ s = [box |-> s.box, reversal |-> s.reversal, dir |-> s.dir, top |-> s.top,
                   bottom |-> s.bottom, seeded |-> s.seeded]
           /\ TurnsAfter(s) \in Nat /\ TurnsAfter(s) >= s.box
<1>1. /\ s.box \in Nat \ {0} /\ s.reversal \in Nat \ {0} /\ s.dir \in {-1, 0, 1}
      /\ s.top \in Int /\ s.bottom \in Int /\ s.seeded = TRUE
      /\ s = [box |-> s.box, reversal |-> s.reversal, dir |-> s.dir, top |-> s.top,
              bottom |-> s.bottom, seeded |-> s.seeded]
  BY DEF PnfState
<1> DEFINE product == s.reversal * s.box
<1>2. product \in Int /\ 1 * s.box <= product BY <1>1, ProductsCompare
<1> HIDE DEF product
<1>3. product \in Nat /\ product >= s.box BY <1>1, <1>2
<1> QED BY <1>1, <1>3 DEF TurnsAfter, product

LEMMA GridFacts ==
    ASSUME NEW s \in PnfState, NEW a \in Int, NEW b \in Int, a <= b
    PROVE  Grid(s, a) \in Int /\ Grid(s, b) \in Int /\ Grid(s, a) <= Grid(s, b)
<1> DEFINE box == s.box
           p == a \div box
           q == b \div box
<1>1. box \in Nat \ {0} BY PnfFields
<1>2. /\ p \in Int /\ p * box \in Int /\ p * box <= a
      /\ q \in Int /\ q * box \in Int /\ b < q * box + box
  <2> HIDE DEF box
  <2> QED BY <1>1, Divided
<1> HIDE DEF box, p, q
<1>3. p <= q
  <2> SUFFICES ASSUME q + 1 <= p PROVE FALSE
    BY <1>2
  <2>1. (q + 1) * box <= p * box BY <1>1, <1>2, ProductsCompare
  <2>2. (q + 1) * box = q * box + box BY <1>1, <1>2
  <2> QED BY <1>1, <1>2, <2>1, <2>2
<1>4. p * box <= q * box BY <1>1, <1>2, <1>3, ProductsCompare
<1> QED BY <1>2, <1>4 DEF Grid, p, q, box

LEMMA GrownFacts ==
    ASSUME NEW s \in PnfState, NEW price \in Int, NEW d \in {-1, 1}
    PROVE  LET t == Grown(s, price, d).s
           IN  /\ t \in PnfState /\ t.dir = d /\ t.box = s.box /\ t.reversal = s.reversal
               /\ d = 1 => t.top = price /\ t.bottom = s.bottom
               /\ d = -1 => t.bottom = price /\ t.top = s.top
               /\ Grown(s, price, d) = Built(t, <<>>)
               /\ \A c : Grown(t, c, d) = Grown(s, c, d)
<1> DEFINE t == Grown(s, price, d).s
<1>1. /\ s.box \in Nat \ {0} /\ s.reversal \in Nat \ {0}
      /\ s.top \in Int /\ s.bottom \in Int /\ s.seeded = TRUE
  BY PnfFields
<1>2. t = [box |-> s.box, reversal |-> s.reversal, dir |-> d,
           top |-> IF d = 1 THEN price ELSE s.top,
           bottom |-> IF d = 1 THEN s.bottom ELSE price, seeded |-> s.seeded]
  BY DEF Grown, Built
<1>3. Grown(s, price, d) = Built(t, <<>>) BY DEF Grown, Built
<1> HIDE DEF t
<1>4. /\ t.box = s.box /\ t.reversal = s.reversal /\ t.dir = d
      /\ t.top = (IF d = 1 THEN price ELSE s.top)
      /\ t.bottom = (IF d = 1 THEN s.bottom ELSE price) /\ t.seeded = s.seeded
  BY <1>2
<1>5. t \in PnfState BY <1>1, <1>2 DEF PnfState
<1>6. ASSUME NEW c PROVE Grown(t, c, d) = Grown(s, c, d) BY <1>4 DEF Grown
<1> QED BY <1>3, <1>4, <1>5, <1>6 DEF t

LEMMA FlippedFacts ==
    ASSUME NEW s \in PnfState, NEW price \in Int, s.dir # 0
    PROVE  LET t == Flipped(s, price).s
           IN  /\ t \in PnfState /\ t.dir = -s.dir /\ t.box = s.box /\ t.reversal = s.reversal
               /\ s.dir = 1 => t.dir = -1 /\ t.top = s.top - s.box /\ t.bottom = price
               /\ s.dir = -1 => t.dir = 1 /\ t.bottom = s.bottom + s.box /\ t.top = price
               /\ Flipped(s, price) = Built(t, <<Column(s)>>)
               /\ <<Column(s)>> \in Seq(PriceBar)
               /\ \A c : Grown(t, c, -s.dir).s = Flipped(s, c).s
<1> DEFINE t == Flipped(s, price).s
<1> DEFINE turned == -s.dir
<1>0. s.dir \in {-1, 1} BY PnfFields
<1>9. (s.dir = 1 => turned = -1) /\ (s.dir = -1 => turned = 1) BY <1>0
<1> HIDE DEF turned
<1>1. /\ s.box \in Nat \ {0} /\ s.reversal \in Nat \ {0} /\ s.dir \in {-1, 1}
      /\ turned \in {-1, 0, 1} /\ s.top \in Int /\ s.bottom \in Int /\ s.seeded = TRUE
  BY <1>0, <1>9, PnfFields
<1>2. t = [box |-> s.box, reversal |-> s.reversal, dir |-> turned,
           top |-> IF s.dir = 1 THEN s.top - s.box ELSE price,
           bottom |-> IF s.dir = 1 THEN price ELSE s.bottom + s.box, seeded |-> s.seeded]
  BY DEF Flipped, Built, turned
<1>3. Flipped(s, price) = Built(t, <<Column(s)>>) BY DEF Flipped, Built
<1> HIDE DEF t
<1>4. /\ t.box = s.box /\ t.reversal = s.reversal /\ t.dir = turned
      /\ t.top = (IF s.dir = 1 THEN s.top - s.box ELSE price)
      /\ t.bottom = (IF s.dir = 1 THEN price ELSE s.bottom + s.box) /\ t.seeded = s.seeded
  BY <1>2
<1> DEFINE top == IF s.dir = 1 THEN s.top - s.box ELSE price
           bottom == IF s.dir = 1 THEN price ELSE s.bottom + s.box
<1>5. t \in PnfState
  <2>1. top \in Int /\ bottom \in Int BY <1>1
  <2> HIDE DEF top, bottom
  <2>2. t = [box |-> s.box, reversal |-> s.reversal, dir |-> turned, top |-> top,
             bottom |-> bottom, seeded |-> s.seeded]
    BY <1>2 DEF top, bottom
  <2> QED BY <1>1, <2>1, <2>2 DEF PnfState
<1>6. Column(s) \in PriceBar BY <1>1 DEF Column, PriceBar
<1>7. <<Column(s)>> \in Seq(PriceBar) BY <1>6
<1>8. ASSUME NEW c PROVE Grown(t, c, -s.dir).s = Flipped(s, c).s
  <2>1. CASE s.dir = 1
    <3>1. Grown(t, c, -1).s = [box |-> s.box, reversal |-> s.reversal, dir |-> -1,
                               top |-> s.top - s.box, bottom |-> c, seeded |-> s.seeded]
      BY <1>4, <2>1 DEF Grown, Built
    <3>2. Flipped(s, c).s = [box |-> s.box, reversal |-> s.reversal, dir |-> -1,
                             top |-> s.top - s.box, bottom |-> c, seeded |-> s.seeded]
      BY <2>1 DEF Flipped, Built
    <3>3. -s.dir = -1 BY <1>9, <2>1 DEF turned
    <3> QED BY <3>1, <3>2, <3>3
  <2>2. CASE s.dir = -1
    <3>1. Grown(t, c, 1).s = [box |-> s.box, reversal |-> s.reversal, dir |-> 1,
                              top |-> c, bottom |-> s.bottom + s.box, seeded |-> s.seeded]
      BY <1>4, <2>2 DEF Grown, Built
    <3>2. Flipped(s, c).s = [box |-> s.box, reversal |-> s.reversal, dir |-> 1,
                             top |-> c, bottom |-> s.bottom + s.box, seeded |-> s.seeded]
      BY <2>2 DEF Flipped, Built
    <3>3. -s.dir = 1 BY <1>9, <2>2 DEF turned
    <3> QED BY <3>1, <3>2, <3>3
  <2> QED BY <1>1, <2>1, <2>2
<1>10. /\ s.dir = 1 => t.dir = -1 /\ t.top = s.top - s.box /\ t.bottom = price
       /\ s.dir = -1 => t.dir = 1 /\ t.bottom = s.bottom + s.box /\ t.top = price
  BY <1>4, <1>9
<1> QED BY <1>3, <1>4, <1>5, <1>7, <1>8, <1>10 DEF t, turned

\* What a price does, by the direction of the column.
LEMMA PnfMoves ==
    ASSUME NEW s \in PnfState, NEW close \in Int, s.dir = 0 => s.top = s.bottom
    PROVE  LET price == Grid(s, close)
           IN  /\ s.dir >= 0 /\ price > s.top => PnfUpdated(s, close) = Grown(s, price, 1)
               /\ s.dir <= 0 /\ price < s.bottom => PnfUpdated(s, close) = Grown(s, price, -1)
               /\ s.dir = 1 /\ price <= s.top - TurnsAfter(s) => PnfUpdated(s, close) = Flipped(s, price)
               /\ s.dir = -1 /\ price >= s.bottom + TurnsAfter(s) =>
                     PnfUpdated(s, close) = Flipped(s, price)
               /\ PnfSettled(s, price) => PnfUpdated(s, close) = Built(s, <<>>)
<1> DEFINE price == Grid(s, close)
           back == TurnsAfter(s)
           up == Built([s EXCEPT !.dir = 1, !.top = price], <<>>)
           down == Built([s EXCEPT !.dir = -1, !.bottom = price], <<>>)
           flipdown == Built([s EXCEPT !.dir = -1, !.top = @ - s.box, !.bottom = price], <<Column(s)>>)
           flipup == Built([s EXCEPT !.dir = 1, !.bottom = @ + s.box, !.top = price], <<Column(s)>>)
           begun == Built([s EXCEPT !.seeded = TRUE, !.top = price, !.bottom = price], <<>>)
           none == Built(s, <<>>)
<1>1. /\ s.box \in Nat \ {0} /\ s.dir \in {-1, 0, 1} /\ s.top \in Int /\ s.bottom \in Int
      /\ s.seeded = TRUE /\ back \in Nat /\ back >= s.box /\ price \in Int
      /\ s = [box |-> s.box, reversal |-> s.reversal, dir |-> s.dir, top |-> s.top,
              bottom |-> s.bottom, seeded |-> s.seeded]
  <2>1. close <= close OBVIOUS
  <2>2. price \in Int BY <2>1, GridFacts
  <2> HIDE DEF price
  <2> QED BY <2>2, PnfFields
<1>2. PnfUpdated(s, close) =
          CASE ~s.seeded -> begun
            [] s.seeded /\ s.dir >= 0 /\ price > s.top -> up
            [] s.seeded /\ s.dir <= 0 /\ price < s.bottom -> down
            [] s.seeded /\ s.dir = 1 /\ price <= s.top - back -> flipdown
            [] s.seeded /\ s.dir = -1 /\ price >= s.bottom + back -> flipup
            [] OTHER -> none
  BY DEF PnfUpdated, Grid, TurnsAfter
<1> DEFINE faces(d) == [box |-> s.box, reversal |-> s.reversal, dir |-> d, top |-> s.top,
                        bottom |-> s.bottom, seeded |-> s.seeded]
<1> HIDE DEF price
<1>3. [s EXCEPT !.dir = 1] = faces(1) /\ [s EXCEPT !.dir = -1] = faces(-1) BY <1>1
<1>4. up = Grown(s, price, 1)
  <2> DEFINE e == [s EXCEPT !.dir = 1]
  <2>1. up = Built([e EXCEPT !.top = price], <<>>) OBVIOUS
  <2> HIDE DEF e, up
  <2>2. e = faces(1) BY <1>3 DEF e
  <2>3. [e EXCEPT !.top = price] = [box |-> s.box, reversal |-> s.reversal, dir |-> 1,
           top |-> price, bottom |-> s.bottom, seeded |-> s.seeded]
    BY <2>2
  <2> QED BY <2>1, <2>3 DEF Grown
<1>5. down = Grown(s, price, -1)
  <2> DEFINE e == [s EXCEPT !.dir = -1]
  <2>1. down = Built([e EXCEPT !.bottom = price], <<>>) OBVIOUS
  <2> HIDE DEF e, down
  <2>2. e = faces(-1) BY <1>3 DEF e
  <2>3. [e EXCEPT !.bottom = price] = [box |-> s.box, reversal |-> s.reversal, dir |-> -1,
           top |-> s.top, bottom |-> price, seeded |-> s.seeded]
    BY <2>2
  <2> QED BY <2>1, <2>3 DEF Grown
<1>6. ASSUME s.dir = 1 PROVE flipdown = Flipped(s, price)
  <2> DEFINE e == [s EXCEPT !.dir = -1]
             f == [e EXCEPT !.top = e.top - s.box]
  <2>1. flipdown = Built([f EXCEPT !.bottom = price], <<Column(s)>>) OBVIOUS
  <2>2. e = faces(-1) BY <1>3
  <2> HIDE DEF e, flipdown
  <2>3. e.top = s.top BY <2>2
  <2>4. f = [box |-> s.box, reversal |-> s.reversal, dir |-> -1,
           top |-> s.top - s.box, bottom |-> s.bottom, seeded |-> s.seeded]
    BY <2>2, <2>3
  <2> HIDE DEF f
  <2>5. [f EXCEPT !.bottom = price] = [box |-> s.box, reversal |-> s.reversal, dir |-> -s.dir,
           top |-> s.top - s.box, bottom |-> price, seeded |-> s.seeded]
    BY <1>6, <2>4
  <2> QED BY <1>6, <2>1, <2>5 DEF Flipped
<1>7. ASSUME s.dir = -1 PROVE flipup = Flipped(s, price)
  <2> DEFINE e == [s EXCEPT !.dir = 1]
             f == [e EXCEPT !.bottom = e.bottom + s.box]
  <2>1. flipup = Built([f EXCEPT !.top = price], <<Column(s)>>) OBVIOUS
  <2>2. e = faces(1) BY <1>3
  <2> HIDE DEF e, flipup
  <2>3. e.bottom = s.bottom BY <2>2
  <2>4. f = [box |-> s.box, reversal |-> s.reversal, dir |-> 1,
           top |-> s.top, bottom |-> s.bottom + s.box, seeded |-> s.seeded]
    BY <2>2, <2>3
  <2> HIDE DEF f
  <2>5. [f EXCEPT !.top = price] = [box |-> s.box, reversal |-> s.reversal, dir |-> -s.dir,
           top |-> price, bottom |-> s.bottom + s.box, seeded |-> s.seeded]
    BY <1>7, <2>4
  <2>6. s.dir # 1 BY <1>7
  <2> QED BY <2>1, <2>5, <2>6 DEF Flipped
<1> HIDE DEF up, down, flipdown, flipup, begun, none, back
<1>8. ASSUME s.dir >= 0, price > s.top PROVE PnfUpdated(s, close) = up BY <1>1, <1>2, <1>8
<1>9. ASSUME s.dir <= 0, price < s.bottom PROVE PnfUpdated(s, close) = down
  BY <1>1, <1>2, <1>9
<1>10. ASSUME s.dir = 1, price <= s.top - back PROVE PnfUpdated(s, close) = flipdown
  <2>1. ~(price > s.top) BY <1>1, <1>10
  <2> QED BY <1>1, <1>2, <1>10, <2>1
<1>11. ASSUME s.dir = -1, price >= s.bottom + back PROVE PnfUpdated(s, close) = flipup
  <2>1. ~(price < s.bottom) BY <1>1, <1>11
  <2> QED BY <1>1, <1>2, <1>11, <2>1
<1>12. ASSUME PnfSettled(s, price) PROVE PnfUpdated(s, close) = none
  <2>1. /\ ~(s.dir >= 0 /\ price > s.top) /\ ~(s.dir <= 0 /\ price < s.bottom)
        /\ ~(s.dir = 1 /\ price <= s.top - back) /\ ~(s.dir = -1 /\ price >= s.bottom + back)
    BY <1>1, <1>12 DEF PnfSettled, back
  <2> QED BY <1>1, <1>2, <2>1
<1> QED BY <1>4, <1>5, <1>6, <1>7, <1>8, <1>9, <1>10, <1>11, <1>12 DEF price, back, none

\* Which of the moves it is.
LEMMA PnfCases ==
    ASSUME NEW s \in PnfState, NEW p \in Int
    PROVE  \/ PnfSettled(s, p)
           \/ s.dir = 0 /\ s.top # s.bottom
           \/ s.dir >= 0 /\ p > s.top
           \/ s.dir <= 0 /\ p < s.bottom
           \/ s.dir = 1 /\ p <= s.top - TurnsAfter(s)
           \/ s.dir = -1 /\ p >= s.bottom + TurnsAfter(s)
<1>1. /\ s.dir \in {-1, 0, 1} /\ s.top \in Int /\ s.bottom \in Int /\ TurnsAfter(s) \in Nat
  BY PnfFields
<1> QED BY <1>1 DEF PnfSettled

LEMMA PnfSettles ==
    ASSUME NEW s \in PnfState, NEW close \in Int, s.dir = 0 => s.top = s.bottom
    PROVE  LET after == PnfUpdated(s, close)
           IN  /\ after.s \in PnfState
               /\ after.s.dir = 0 => after.s.top = after.s.bottom
               /\ PnfSettled(after.s, Grid(s, close))
               /\ after.bars \in Seq(PriceBar) /\ after = Built(after.s, after.bars)
               /\ after.s.box = s.box /\ after.s.reversal = s.reversal
               /\ \/ /\ after.bars = <<>>
                     /\ s.dir = 1 => after.s.dir = 1 /\ after.s.top >= s.top
                                     /\ after.s.bottom = s.bottom
                     /\ s.dir = -1 => after.s.dir = -1 /\ after.s.bottom <= s.bottom
                                      /\ after.s.top = s.top
                  \/ /\ s.dir # 0 /\ after.bars = <<Column(s)>> /\ after.s.dir = -s.dir
                     /\ s.dir = 1 => /\ after.s.top = s.top - s.box
                                     /\ after.s.bottom <= s.top - TurnsAfter(s)
                     /\ s.dir = -1 => /\ after.s.bottom = s.bottom + s.box
                                      /\ after.s.top >= s.bottom + TurnsAfter(s)
<1> DEFINE p == Grid(s, close)
           Fine(b) == /\ b.s \in PnfState
                      /\ b.s.dir = 0 => b.s.top = b.s.bottom
                      /\ PnfSettled(b.s, p)
                      /\ b.bars \in Seq(PriceBar) /\ b = Built(b.s, b.bars)
                      /\ b.s.box = s.box /\ b.s.reversal = s.reversal
                      /\ \/ /\ b.bars = <<>>
                            /\ s.dir = 1 => b.s.dir = 1 /\ b.s.top >= s.top
                                            /\ b.s.bottom = s.bottom
                            /\ s.dir = -1 => b.s.dir = -1 /\ b.s.bottom <= s.bottom
                                             /\ b.s.top = s.top
                         \/ /\ s.dir # 0 /\ b.bars = <<Column(s)>> /\ b.s.dir = -s.dir
                            /\ s.dir = 1 => /\ b.s.top = s.top - s.box
                                            /\ b.s.bottom <= s.top - TurnsAfter(s)
                            /\ s.dir = -1 => /\ b.s.bottom = s.bottom + s.box
                                             /\ b.s.top >= s.bottom + TurnsAfter(s)
           after == PnfUpdated(s, close)
<1>1. p \in Int
  <2>1. close <= close OBVIOUS
  <2> QED BY <2>1, GridFacts
<1> HIDE DEF p
<1>2. /\ s.box \in Nat \ {0} /\ s.dir \in {-1, 0, 1} /\ s.top \in Int /\ s.bottom \in Int
      /\ TurnsAfter(s) \in Nat /\ TurnsAfter(s) >= s.box
  BY PnfFields
<1>3. <<>> \in Seq(PriceBar) OBVIOUS
<1>4. ASSUME PnfSettled(s, p) PROVE Fine(after)
  <2>1. after = Built(s, <<>>) BY <1>4, PnfMoves DEF p
  <2>2. after.s = s /\ after.bars = <<>> BY <2>1 DEF Built
  <2> HIDE DEF after
  <2>3. after = Built(after.s, after.bars) BY <2>1, <2>2
  <2>4. after.bars \in Seq(PriceBar) BY <1>3, <2>2
  <2>5. s.top >= s.top /\ s.bottom <= s.bottom BY <1>2
  <2> QED BY <1>4, <2>2, <2>3, <2>4, <2>5
<1>5. ASSUME NEW d \in {-1, 1}, after = Grown(s, p, d), s.dir = 0 \/ s.dir = d,
             d = 1 => p > s.top, d = -1 => p < s.bottom
      PROVE  Fine(after)
  <2> DEFINE t == Grown(s, p, d).s
  <2>1. /\ t \in PnfState /\ t.dir = d /\ t.box = s.box /\ t.reversal = s.reversal
        /\ d = 1 => t.top = p /\ t.bottom = s.bottom
        /\ d = -1 => t.bottom = p /\ t.top = s.top
        /\ Grown(s, p, d) = Built(t, <<>>)
    BY <1>1, GrownFacts
  <2>2. after.s = t /\ after.bars = <<>> /\ after = Built(after.s, after.bars)
    BY <1>5, <2>1 DEF Built
  <2> HIDE DEF t, after
  <2>3. TurnsAfter(t) \in Nat /\ TurnsAfter(t) > 0
    <3>1. TurnsAfter(t) \in Nat /\ TurnsAfter(t) >= t.box BY <2>1, PnfFields
    <3> QED BY <1>2, <2>1, <3>1
  <2>4. PnfSettled(t, p) BY <1>1, <2>1, <2>3 DEF PnfSettled
  <2>5. /\ s.dir = 1 => t.dir = 1 /\ t.top >= s.top /\ t.bottom = s.bottom
        /\ s.dir = -1 => t.dir = -1 /\ t.bottom <= s.bottom /\ t.top = s.top
    BY <1>1, <1>2, <1>5, <2>1
  <2>6. t.dir # 0 BY <2>1
  <2> QED BY <1>3, <2>1, <2>2, <2>4, <2>5, <2>6
<1>6. ASSUME after = Flipped(s, p), s.dir # 0,
             s.dir = 1 => p <= s.top - TurnsAfter(s), s.dir = -1 => p >= s.bottom + TurnsAfter(s)
      PROVE  Fine(after)
  <2> DEFINE t == Flipped(s, p).s
  <2>1. /\ t \in PnfState /\ t.dir = -s.dir /\ t.box = s.box /\ t.reversal = s.reversal
        /\ s.dir = 1 => t.dir = -1 /\ t.top = s.top - s.box /\ t.bottom = p
        /\ s.dir = -1 => t.dir = 1 /\ t.bottom = s.bottom + s.box /\ t.top = p
        /\ Flipped(s, p) = Built(t, <<Column(s)>>) /\ <<Column(s)>> \in Seq(PriceBar)
    <3>1. s.dir # 0 BY <1>6
    <3>2. /\ t \in PnfState /\ t.dir = -s.dir /\ t.box = s.box /\ t.reversal = s.reversal
          /\ Flipped(s, p) = Built(t, <<Column(s)>>) /\ <<Column(s)>> \in Seq(PriceBar)
      BY <1>1, <3>1, FlippedFacts
    <3>3. /\ s.dir = 1 => t.dir = -1 /\ t.top = s.top - s.box /\ t.bottom = p
          /\ s.dir = -1 => t.dir = 1 /\ t.bottom = s.bottom + s.box /\ t.top = p
      BY <1>1, <3>1, FlippedFacts
    <3> QED BY <3>2, <3>3
  <2>2. after.s = t /\ after.bars = <<Column(s)>> /\ after = Built(after.s, after.bars)
    BY <1>6, <2>1 DEF Built
  <2> HIDE DEF t, after
  <2>3. TurnsAfter(t) \in Nat /\ TurnsAfter(t) > 0 /\ t.top \in Int /\ t.bottom \in Int
    <3>1. TurnsAfter(t) \in Nat /\ TurnsAfter(t) >= t.box /\ t.top \in Int /\ t.bottom \in Int
      BY <2>1, PnfFields
    <3> QED BY <1>2, <2>1, <3>1
  <2>4. PnfSettled(t, p)
    <3>1. CASE s.dir = 1
      <4>1. t.dir = -1 /\ t.bottom = p BY <2>1, <3>1
      <4> QED BY <1>1, <2>3, <4>1 DEF PnfSettled
    <3>2. CASE s.dir = -1
      <4>1. t.dir = 1 /\ t.top = p BY <2>1, <3>2
      <4> QED BY <1>1, <2>3, <4>1 DEF PnfSettled
    <3> QED BY <1>2, <1>6, <3>1, <3>2
  <2>5. t.dir # 0 BY <1>2, <1>6, <2>1
  <2> QED BY <1>6, <2>1, <2>2, <2>4, <2>5
<1>7. ASSUME s.dir >= 0, p > s.top PROVE Fine(after)
  <2>1. after = Grown(s, p, 1) /\ (s.dir = 0 \/ s.dir = 1) BY <1>2, <1>7, PnfMoves DEF p
  <2> HIDE DEF Fine, after
  <2> QED BY <1>5, <1>7, <2>1
<1>8. ASSUME s.dir <= 0, p < s.bottom PROVE Fine(after)
  <2>1. after = Grown(s, p, -1) /\ (s.dir = 0 \/ s.dir = -1) BY <1>2, <1>8, PnfMoves DEF p
  <2> HIDE DEF Fine, after
  <2> QED BY <1>5, <1>8, <2>1
<1>9. ASSUME s.dir = 1, p <= s.top - TurnsAfter(s) PROVE Fine(after)
  <2>1. after = Flipped(s, p) BY <1>9, PnfMoves DEF p
  <2> HIDE DEF Fine, after
  <2> QED BY <1>6, <1>9, <2>1
<1>10. ASSUME s.dir = -1, p >= s.bottom + TurnsAfter(s) PROVE Fine(after)
  <2>1. after = Flipped(s, p) BY <1>10, PnfMoves DEF p
  <2> HIDE DEF Fine, after
  <2> QED BY <1>6, <1>10, <2>1
<1>11. PnfSettled(s, p) \/ (s.dir >= 0 /\ p > s.top) \/ (s.dir <= 0 /\ p < s.bottom)
       \/ (s.dir = 1 /\ p <= s.top - TurnsAfter(s)) \/ (s.dir = -1 /\ p >= s.bottom + TurnsAfter(s))
  BY <1>1, PnfCases
<1> HIDE DEF Fine, after
<1>12. Fine(after) BY <1>4, <1>7, <1>8, <1>9, <1>10, <1>11
<1> QED BY <1>12 DEF Fine, after, p

\* How far a price is ahead of the column.
PnfAhead(s, p, d) == IF d = 1 THEN p > s.top ELSE p < s.bottom
PnfAgainst(s, p) ==
    \/ s.dir = 1 /\ p <= s.top - TurnsAfter(s)
    \/ s.dir = -1 /\ p >= s.bottom + TurnsAfter(s)

LEMMA PnfGrows ==
    ASSUME NEW s \in PnfState, s.dir = 0 => s.top = s.bottom, NEW close \in Int, NEW d \in {-1, 1},
           s.dir = 0 \/ s.dir = d, PnfAhead(s, Grid(s, close), d)
    PROVE  PnfUpdated(s, close) = Grown(s, Grid(s, close), d)
<1>1. CASE d = 1
  <2>1. s.dir >= 0 /\ Grid(s, close) > s.top BY <1>1 DEF PnfAhead
  <2> QED BY <1>1, <2>1, PnfMoves
<1>2. CASE d = -1
  <2>1. s.dir <= 0 /\ Grid(s, close) < s.bottom BY <1>2 DEF PnfAhead
  <2> QED BY <1>2, <2>1, PnfMoves
<1> QED BY <1>1, <1>2

LEMMA PnfGrowsTwice ==
    ASSUME NEW s \in PnfState, s.dir = 0 => s.top = s.bottom, NEW stop \in Int, NEW close \in Int,
           NEW d \in {-1, 1}, s.dir = 0 \/ s.dir = d, PnfAhead(s, Grid(s, stop), d),
           IF d = 1 THEN stop <= close ELSE close <= stop
    PROVE  LET half == PnfUpdated(s, stop)
               rest == PnfUpdated(half.s, close)
           IN  Built(rest.s, half.bars \o rest.bars) = PnfUpdated(s, close)
<1> DEFINE p == Grid(s, stop)
           q == Grid(s, close)
           t == Grown(s, p, d).s
<1>1. p \in Int /\ q \in Int /\ (IF d = 1 THEN p <= q ELSE q <= p)
  <2>1. CASE d = 1
    BY <2>1, GridFacts
  <2>2. CASE d = -1
    BY <2>2, GridFacts
  <2> QED BY <2>1, <2>2
<1>2. /\ t \in PnfState /\ t.dir = d /\ t.box = s.box /\ Grown(s, p, d) = Built(t, <<>>)
      /\ d = 1 => t.top = p /\ t.bottom = s.bottom
      /\ d = -1 => t.bottom = p /\ t.top = s.top
      /\ Grown(t, q, d) = Grown(s, q, d)
  <2> HIDE DEF p, q
  <2> QED BY <1>1, GrownFacts
<1>3. PnfUpdated(s, stop) = Built(t, <<>>) BY <1>2, PnfGrows
<1>4. PnfUpdated(s, close) = Grown(s, q, d)
  <2>1. PnfAhead(s, q, d)
    <3>1. s.top \in Int /\ s.bottom \in Int /\ PnfAhead(s, p, d) BY PnfFields
    <3> HIDE DEF p, q
    <3> QED BY <1>1, <3>1 DEF PnfAhead
  <2> QED BY <2>1, PnfGrows
<1> HIDE DEF t
<1>5. Grid(t, close) = q BY <1>2 DEF Grid
<1> HIDE DEF p, q
<1>6. PnfUpdated(t, close) = Grown(s, q, d)
  <2>1. CASE q = p
    <3>1. TurnsAfter(t) \in Nat /\ TurnsAfter(t) > 0 /\ t.box > 0
      <4>1. TurnsAfter(t) \in Nat /\ TurnsAfter(t) >= t.box /\ t.box \in Nat \ {0}
        BY <1>2, PnfFields
      <4> QED BY <4>1
    <3>2. PnfSettled(t, q) BY <1>1, <1>2, <2>1, <3>1 DEF PnfSettled
    <3>3. t.dir # 0 BY <1>2
    <3>4. PnfUpdated(t, close) = Built(t, <<>>) BY <1>2, <1>5, <3>2, <3>3, PnfMoves
    <3> QED BY <1>2, <2>1, <3>4
  <2>2. CASE q # p
    <3>1. PnfAhead(t, q, d) BY <1>1, <1>2, <2>2 DEF PnfAhead
    <3>2. t.dir # 0 BY <1>2
    <3>3. PnfUpdated(t, close) = Grown(t, q, d) BY <1>2, <1>5, <3>1, <3>2, PnfGrows
    <3> QED BY <1>2, <3>3
  <2> QED BY <2>1, <2>2
<1>7. Built(t, <<>>).s = t /\ Built(t, <<>>).bars = <<>> BY DEF Built
<1>8. Grown(s, q, d).bars = <<>> /\ Built(Grown(s, q, d).s, <<>>) = Grown(s, q, d)
  BY DEF Grown, Built
<1>9. <<>> \o <<>> = <<>> OBVIOUS
<1> QED BY <1>3, <1>4, <1>6, <1>7, <1>8, <1>9

LEMMA PnfFlips ==
    ASSUME NEW s \in PnfState, NEW close \in Int, PnfAgainst(s, Grid(s, close))
    PROVE  s.dir # 0 /\ PnfUpdated(s, close) = Flipped(s, Grid(s, close))
<1>1. s.dir # 0 BY DEF PnfAgainst
<1>2. CASE s.dir = 1 /\ Grid(s, close) <= s.top - TurnsAfter(s)
  BY <1>1, <1>2, PnfMoves
<1>3. CASE s.dir = -1 /\ Grid(s, close) >= s.bottom + TurnsAfter(s)
  BY <1>1, <1>3, PnfMoves
<1> QED BY <1>1, <1>2, <1>3 DEF PnfAgainst

LEMMA PnfFlipsTwice ==
    ASSUME NEW s \in PnfState, NEW stop \in Int, NEW close \in Int,
           PnfAgainst(s, Grid(s, stop)), IF s.dir = 1 THEN close <= stop ELSE stop <= close
    PROVE  LET half == PnfUpdated(s, stop)
               rest == PnfUpdated(half.s, close)
           IN  Built(rest.s, half.bars \o rest.bars) = PnfUpdated(s, close)
<1> DEFINE p == Grid(s, stop)
           q == Grid(s, close)
           t == Flipped(s, p).s
           d == -s.dir
           u == Flipped(s, q).s
           bars == <<Column(s)>>
<1>0. s.dir \in {-1, 1} BY DEF PnfAgainst
<1>1. p \in Int /\ q \in Int /\ (IF s.dir = 1 THEN q <= p ELSE p <= q)
  <2>1. CASE s.dir = 1
    BY <2>1, GridFacts
  <2>2. CASE s.dir = -1
    BY <2>2, GridFacts
  <2> QED BY <1>0, <2>1, <2>2
<1>2. /\ t \in PnfState /\ t.dir = d /\ t.box = s.box
      /\ s.dir = 1 => t.dir = -1 /\ t.bottom = p
      /\ s.dir = -1 => t.dir = 1 /\ t.top = p
      /\ Flipped(s, p) = Built(t, bars) /\ bars \in Seq(PriceBar)
  <2> HIDE DEF p, q
  <2>1. s.dir # 0 BY <1>0
  <2> QED BY <1>1, <2>1, FlippedFacts
<1>3. Grown(t, q, d).s = u /\ Flipped(s, q) = Built(u, bars)
  <2> HIDE DEF p, q
  <2>1. s.dir # 0 BY <1>0
  <2>2. \A c : Grown(Flipped(s, p).s, c, -s.dir).s = Flipped(s, c).s
    BY <1>1, <2>1, FlippedFacts
  <2>3. Flipped(s, q) = Built(u, bars) BY <1>1, <2>1, FlippedFacts
  <2> QED BY <2>2, <2>3
<1>4. PnfUpdated(s, stop) = Built(t, bars) BY <1>2, PnfFlips
<1>5. PnfUpdated(s, close) = Built(u, bars)
  <2>1. PnfAgainst(s, q)
    <3>1. s.top \in Int /\ s.bottom \in Int /\ TurnsAfter(s) \in Nat /\ PnfAgainst(s, p)
      BY PnfFields
    <3> HIDE DEF p, q
    <3> QED BY <1>0, <1>1, <3>1 DEF PnfAgainst
  <2> QED BY <1>3, <2>1, PnfFlips
<1> HIDE DEF t
<1>6. Grid(t, close) = q /\ t.dir \in {-1, 1} /\ t.dir # 0 BY <1>0, <1>2 DEF Grid
<1> HIDE DEF p, q, u, bars, d
<1>7. PnfUpdated(t, close) = Built(u, <<>>)
  <2>1. CASE q = p
    <3>1. TurnsAfter(t) \in Nat /\ TurnsAfter(t) > 0 /\ t.box > 0
      <4>1. TurnsAfter(t) \in Nat /\ TurnsAfter(t) >= t.box /\ t.box \in Nat \ {0}
        BY <1>2, PnfFields
      <4> QED BY <4>1
    <3>2. PnfSettled(t, q) BY <1>0, <1>1, <1>2, <2>1, <3>1 DEF PnfSettled
    <3>3. PnfUpdated(t, close) = Built(t, <<>>) BY <1>2, <1>6, <3>2, PnfMoves
    <3>4. t = u BY <2>1 DEF t, u
    <3> QED BY <3>3, <3>4
  <2>2. CASE q # p
    <3>1. PnfAhead(t, q, t.dir) BY <1>0, <1>1, <1>2, <2>2 DEF PnfAhead
    <3>2. PnfUpdated(t, close) = Grown(t, q, t.dir) BY <1>2, <1>6, <3>1, PnfGrows
    <3>3. Grown(t, q, t.dir) = Built(Grown(t, q, t.dir).s, <<>>) BY DEF Grown, Built
    <3>4. Grown(t, q, t.dir).s = u BY <1>2, <1>3
    <3> QED BY <3>2, <3>3, <3>4
  <2> QED BY <2>1, <2>2
<1>8. bars \o <<>> = bars BY <1>2
<1>9. /\ Built(t, bars).s = t /\ Built(t, bars).bars = bars
      /\ Built(u, <<>>).s = u /\ Built(u, <<>>).bars = <<>>
  BY DEF Built
<1> QED BY <1>4, <1>5, <1>7, <1>8, <1>9

LEMMA PnfWalks ==
    ASSUME NEW s \in PnfState, NEW now \in Int, NEW stop \in Int, NEW close \in Int,
           PnfSettled(s, Grid(s, now)), (stop - now) * (stop - close) <= 0
    PROVE  LET half == PnfUpdated(s, stop)
               rest == PnfUpdated(half.s, close)
           IN  Built(rest.s, half.bars \o rest.bars) = PnfUpdated(s, close)
<1> DEFINE whole == PnfUpdated(s, close)
           n == Grid(s, now)
           p == Grid(s, stop)
<1>1. (now <= stop /\ stop <= close) \/ (close <= stop /\ stop <= now) BY Between
<1>2. /\ s.dir \in {-1, 0, 1} /\ s.top \in Int /\ s.bottom \in Int /\ TurnsAfter(s) \in Nat
  BY PnfFields
<1>3. s.dir = 0 => s.top = s.bottom BY DEF PnfSettled
<1>4. ASSUME PnfSettled(s, p)
      PROVE  LET half == PnfUpdated(s, stop)
                 rest == PnfUpdated(half.s, close)
             IN  Built(rest.s, half.bars \o rest.bars) = PnfUpdated(s, close)
  <2>1. PnfUpdated(s, stop) = Built(s, <<>>) BY <1>3, <1>4, PnfMoves
  <2>2. whole.bars \in Seq(PriceBar) /\ whole = Built(whole.s, whole.bars)
    BY <1>3, PnfSettles
  <2> HIDE DEF whole
  <2>3. Built(whole.s, Built(s, <<>>).bars \o whole.bars) = whole BY <2>2, StandsThenMoves
  <2>4. Built(s, <<>>).s = s BY DEF Built
  <2> QED BY <2>1, <2>3, <2>4 DEF whole
<1>5. \/ PnfSettled(s, p)
      \/ \E d \in {-1, 1} : /\ s.dir = 0 \/ s.dir = d
                            /\ PnfAhead(s, p, d)
                            /\ IF d = 1 THEN stop <= close ELSE close <= stop
      \/ PnfAgainst(s, p) /\ IF s.dir = 1 THEN close <= stop ELSE stop <= close
  <2>1. CASE now <= stop /\ stop <= close
    <3>1. n \in Int /\ p \in Int /\ n <= p BY <2>1, GridFacts
    <3>2. PnfSettled(s, n) OBVIOUS
    <3> HIDE DEF n, p
    <3>3. \/ PnfSettled(s, p)
          \/ (s.dir = 0 \/ s.dir = 1) /\ PnfAhead(s, p, 1)
          \/ PnfAgainst(s, p) /\ s.dir # 1
      BY <1>2, <3>1, <3>2 DEF PnfSettled, PnfAhead, PnfAgainst
    <3> QED BY <2>1, <3>3
  <2>2. CASE close <= stop /\ stop <= now
    <3>1. n \in Int /\ p \in Int /\ p <= n BY <2>2, GridFacts
    <3>2. PnfSettled(s, n) OBVIOUS
    <3> HIDE DEF n, p
    <3>3. \/ PnfSettled(s, p)
          \/ (s.dir = 0 \/ s.dir = -1) /\ PnfAhead(s, p, -1)
          \/ PnfAgainst(s, p) /\ s.dir = 1
      BY <1>2, <3>1, <3>2 DEF PnfSettled, PnfAhead, PnfAgainst
    <3>4. (-1) # 1 /\ -1 \in {-1, 1} OBVIOUS
    <3> QED BY <2>2, <3>3, <3>4
  <2> QED BY <1>1, <2>1, <2>2
<1>6. CASE \E d \in {-1, 1} : /\ s.dir = 0 \/ s.dir = d
                              /\ PnfAhead(s, p, d)
                              /\ IF d = 1 THEN stop <= close ELSE close <= stop
  BY <1>3, <1>6, PnfGrowsTwice
<1>7. CASE PnfAgainst(s, p) /\ IF s.dir = 1 THEN close <= stop ELSE stop <= close
  BY <1>7, PnfFlipsTwice
<1> QED BY <1>4, <1>5, <1>6, <1>7

-----------------------------------------------------------------------------
(* ThreeLineBreakBars. *)

\* Finitely many integers have a least and a greatest.
LEMMA Bounded ==
    ASSUME NEW n \in Nat, NEW f, \A i \in 1 .. n : f[i] \in Int
    PROVE  \E lo \in Int, hi \in Int : \A i \in 1 .. n : lo <= f[i] /\ f[i] <= hi
<1> DEFINE Within(k) == \E lo \in Int, hi \in Int : \A i \in 1 .. k : lo <= f[i] /\ f[i] <= hi
           S == {k \in Nat : k <= n => Within(k)}
<1>1. 0 \in S
  <2>1. 1 .. 0 = {} OBVIOUS
  <2>2. Within(0) BY <2>1
  <2> QED BY <2>2
<1>2. \A k \in Nat : k \in S => k + 1 \in S
  <2> SUFFICES ASSUME NEW k \in Nat, k <= n => Within(k), k + 1 <= n PROVE Within(k + 1)
    <3> HIDE DEF Within
    <3> QED OBVIOUS
  <2>0. k <= n /\ k + 1 \in 1 .. n OBVIOUS
  <2>1. PICK lo \in Int, hi \in Int : \A i \in 1 .. k : lo <= f[i] /\ f[i] <= hi BY <2>0
  <2>2. f[k + 1] \in Int BY <2>0
  <2> DEFINE x == f[k + 1]
             l == IF x < lo THEN x ELSE lo
             h == IF x > hi THEN x ELSE hi
  <2>3. l \in Int /\ h \in Int /\ l <= x /\ x <= h /\ l <= lo /\ hi <= h BY <2>2
  <2>4. ASSUME NEW i \in 1 .. k + 1 PROVE l <= f[i] /\ f[i] <= h
    <3>1. CASE i = k + 1
      BY <2>3, <3>1
    <3>2. CASE i # k + 1
      <4>1. i \in 1 .. k /\ f[i] \in Int BY <2>0, <3>2
      <4>2. lo <= f[i] /\ f[i] <= hi BY <2>1, <4>1
      <4> HIDE DEF l, h
      <4> QED BY <2>3, <4>1, <4>2
    <3> QED BY <3>1, <3>2
  <2> HIDE DEF l, h
  <2> QED BY <2>3, <2>4
<1> HIDE DEF S
<1>3. \A k \in Nat : k \in S BY <1>1, <1>2, SetInduction
<1>4. Within(n)
  <2> HIDE DEF Within
  <2> QED BY <1>3 DEF S
<1> QED BY <1>4

LEMMA MaxIs ==
    ASSUME NEW S \in SUBSET Int, NEW m \in S, \A x \in S : x <= m
    PROVE  Max(S) = m
<1>1. \A y \in S : m >= y OBVIOUS
<1> DEFINE x == Max(S)
<1>2. x \in S /\ \A y \in S : x >= y BY <1>1 DEF Max
<1> HIDE DEF x
<1>3. x \in Int /\ m \in Int /\ x >= m /\ m >= x BY <1>1, <1>2
<1>4. x = m BY <1>3
<1> QED BY <1>4 DEF x

LEMMA MinIs ==
    ASSUME NEW S \in SUBSET Int, NEW m \in S, \A x \in S : m <= x
    PROVE  Min(S) = m
<1>1. \A y \in S : m =< y OBVIOUS
<1> DEFINE x == Min(S)
<1>2. x \in S /\ \A y \in S : x =< y BY <1>1 DEF Min
<1> HIDE DEF x
<1>3. x \in Int /\ m \in Int /\ x =< m /\ m =< x BY <1>1, <1>2
<1>4. x = m BY <1>3
<1> QED BY <1>4 DEF x

LEMMA MaxOf ==
    ASSUME NEW S \in SUBSET Int, S # {}, NEW top \in Int, \A x \in S : x <= top
    PROVE  Max(S) \in S /\ \A x \in S : x <= Max(S)
<1> DEFINE T == {n \in Nat : top - n \in S}
<1>1. T # {}
  <2>1. PICK x : x \in S OBVIOUS
  <2>2. top - x \in Nat /\ top - (top - x) = x BY <2>1
  <2> QED BY <2>1, <2>2
<1>2. PICK n \in T : \A k \in T : ~(k < n) BY <1>1, SmallestOf
<1>3. top - n \in S /\ n \in Nat BY <1>2
<1>4. ASSUME NEW x \in S PROVE x <= top - n
  <2>1. top - x \in Nat /\ top - (top - x) = x OBVIOUS
  <2>2. top - x \in T BY <2>1
  <2>3. ~(top - x < n) BY <1>2, <2>2
  <2> QED BY <1>3, <2>3
<1> QED BY <1>3, <1>4, MaxIs

LEMMA MinOf ==
    ASSUME NEW S \in SUBSET Int, S # {}, NEW bottom \in Int, \A x \in S : bottom <= x
    PROVE  Min(S) \in S /\ \A x \in S : Min(S) <= x
<1> DEFINE T == {n \in Nat : bottom + n \in S}
<1>1. T # {}
  <2>1. PICK x : x \in S OBVIOUS
  <2>2. x - bottom \in Nat /\ bottom + (x - bottom) = x BY <2>1
  <2> QED BY <2>1, <2>2
<1>2. PICK n \in T : \A k \in T : ~(k < n) BY <1>1, SmallestOf
<1>3. bottom + n \in S /\ n \in Nat BY <1>2
<1>4. ASSUME NEW x \in S PROVE bottom + n <= x
  <2>1. x - bottom \in Nat /\ bottom + (x - bottom) = x OBVIOUS
  <2>2. x - bottom \in T BY <2>1
  <2>3. ~(x - bottom < n) BY <1>2, <2>2
  <2> QED BY <1>3, <2>3
<1> QED BY <1>3, <1>4, MinIs

\* ThreeLineBreakBars.
LineBreakState == [lines : Nat \ {0}, seed : One(Int), recent : Seq(PriceBar)]

\* The close from which the next line is drawn.
LineFrom(s) == IF s.recent = <<>> THEN s.seed[1] ELSE Last(s.recent).to

LEMMA RecentSpan ==
    ASSUME NEW recent \in Seq(PriceBar), recent # <<>>
    PROVE  /\ Last(recent) \in PriceBar
           /\ LowestLow(recent) \in Int /\ LowestLow(recent) <= Last(recent).to
           /\ HighestHigh(recent) \in Int /\ Last(recent).to <= HighestHigh(recent)
<1> DEFINE n == Len(recent)
           F == {recent[i].from : i \in DOMAIN recent}
           T == {recent[i].to : i \in DOMAIN recent}
           S == F \cup T
           from == [i \in 1 .. n |-> recent[i].from]
           to == [i \in 1 .. n |-> recent[i].to]
<1>1. /\ n \in Nat /\ n > 0 /\ DOMAIN recent = 1 .. n
      /\ \A i \in 1 .. n : recent[i] \in PriceBar
  BY EmptySeq
<1>2. \A i \in 1 .. n : recent[i].from \in Int /\ recent[i].to \in Int BY <1>1 DEF PriceBar
<1>3. PICK lo \in Int, hi \in Int : \A i \in 1 .. n : lo <= from[i] /\ from[i] <= hi
  <2>1. \A i \in 1 .. n : from[i] \in Int BY <1>2
  <2> HIDE DEF from, n
  <2> QED BY <1>1, <2>1, Bounded
<1>4. PICK lo1 \in Int, hi1 \in Int : \A i \in 1 .. n : lo1 <= to[i] /\ to[i] <= hi1
  <2>1. \A i \in 1 .. n : to[i] \in Int BY <1>2
  <2> HIDE DEF to, n
  <2> QED BY <1>1, <2>1, Bounded
<1> DEFINE l == IF lo < lo1 THEN lo ELSE lo1
           h == IF hi > hi1 THEN hi ELSE hi1
<1>5. l \in Int /\ h \in Int /\ l <= lo /\ l <= lo1 /\ hi <= h /\ hi1 <= h OBVIOUS
<1>6. /\ \A i \in 1 .. n : lo <= recent[i].from /\ recent[i].from <= hi
      /\ \A i \in 1 .. n : lo1 <= recent[i].to /\ recent[i].to <= hi1
  BY <1>3, <1>4
<1> HIDE DEF l, h
<1>7. ASSUME NEW x \in S PROVE x \in Int /\ l <= x /\ x <= h
  <2>1. PICK i \in 1 .. n : x = recent[i].from \/ x = recent[i].to BY <1>1
  <2>2. recent[i].from \in Int /\ recent[i].to \in Int BY <1>2
  <2>3. /\ lo <= recent[i].from /\ recent[i].from <= hi
        /\ lo1 <= recent[i].to /\ recent[i].to <= hi1
    BY <1>6
  <2> QED BY <1>5, <2>1, <2>2, <2>3
<1>8. Last(recent) = recent[n] /\ n \in 1 .. n BY <1>1 DEF Last
<1>9. Last(recent).to \in S BY <1>1, <1>8
<1>10. LowestLow(recent) = Min(S) /\ HighestHigh(recent) = Max(S)
  BY DEF LowestLow, HighestHigh
<1> HIDE DEF S
<1>11. S \in SUBSET Int /\ S # {} BY <1>7, <1>9
<1>12. Min(S) \in S /\ \A x \in S : Min(S) <= x BY <1>5, <1>7, <1>11, MinOf
<1>13. Max(S) \in S /\ \A x \in S : x <= Max(S) BY <1>5, <1>7, <1>11, MaxOf
<1> QED BY <1>1, <1>8, <1>9, <1>10, <1>11, <1>12, <1>13

\* The line from one close to the next becomes the last one.
LEMMA Draws ==
    ASSUME NEW s \in LineBreakState, NEW from \in Int, NEW close \in Int
    PROVE  LET b == Draw(s, from, close)
           IN  /\ b.s \in LineBreakState /\ b.s.recent # <<>>
               /\ Last(b.s.recent) = Bar(from, close)
               /\ b = Built(b.s, <<Bar(from, close)>>)
               /\ Bar(from, close) \in PriceBar
<1> DEFINE bar == Bar(from, close)
           kept == IF Len(s.recent) = s.lines THEN Tail(s.recent) ELSE s.recent
           recent == Append(kept, bar)
           t == [s EXCEPT !.recent = recent]
<1>1. s.lines \in Nat \ {0} /\ s.seed \in One(Int) /\ s.recent \in Seq(PriceBar)
      /\ s = [lines |-> s.lines, seed |-> s.seed, recent |-> s.recent]
  BY DEF LineBreakState
<1>2. bar \in PriceBar BY DEF Bar, PriceBar
<1>3. Draw(s, from, close) = Built(t, <<bar>>) BY DEF Draw
<1>4. kept \in Seq(PriceBar)
  <2>1. CASE Len(s.recent) = s.lines
    <3>1. s.recent # <<>> BY <1>1, <2>1, EmptySeq
    <3> QED BY <1>1, <2>1, <3>1, HeadTailProperties
  <2>2. CASE Len(s.recent) # s.lines
    BY <1>1, <2>2
  <2> QED BY <2>1, <2>2
<1> HIDE DEF kept, bar
<1>5. /\ recent \in Seq(PriceBar) /\ recent # <<>>
      /\ recent[Len(recent)] = bar
  <2>1. /\ recent \in Seq(PriceBar) /\ Len(recent) = Len(kept) + 1 /\ recent[Len(kept) + 1] = bar
    BY <1>2, <1>4, AppendProperties
  <2>2. Len(kept) \in Nat BY <1>4
  <2> HIDE DEF recent
  <2> QED BY <2>1, <2>2, EmptySeq
<1> HIDE DEF recent
<1>6. t = [lines |-> s.lines, seed |-> s.seed, recent |-> recent] BY <1>1
<1> HIDE DEF t
<1>7. t \in LineBreakState /\ t.recent = recent BY <1>1, <1>5, <1>6 DEF LineBreakState
<1>8. Last(t.recent) = bar BY <1>5, <1>7 DEF Last
<1>9. Built(t, <<bar>>).s = t BY DEF Built
<1> QED BY <1>2, <1>3, <1>5, <1>7, <1>8, <1>9 DEF bar

\* A close draws a line or leaves everything; and the same close again draws none.
LEMMA LineBreakSettles ==
    ASSUME NEW s \in LineBreakState, NEW close \in Int
    PROVE  LET after == LineBreakUpdated(s, close)
           IN  /\ after.s \in LineBreakState
               /\ LineBreakUpdated(after.s, close) = Built(after.s, <<>>)
               /\ \/ after = Built(s, <<>>)
                  \/ /\ after.bars = <<Bar(LineFrom(s), close)>> /\ after.s.recent # <<>>
                     /\ Last(after.s.recent) = Bar(LineFrom(s), close)
<1> DEFINE after == LineBreakUpdated(s, close)
           from == LineFrom(s)
           b == Draw(s, from, close)
<1>1. s.lines \in Nat \ {0} /\ s.seed # <<>> /\ s.seed[1] \in Int /\ s.recent \in Seq(PriceBar)
  BY DEF LineBreakState, One
<1>2. from \in Int
  <2>1. CASE s.recent = <<>>
    BY <1>1, <2>1 DEF LineFrom
  <2>2. CASE s.recent # <<>>
    BY <1>1, <2>2, RecentSpan DEF LineFrom, PriceBar
  <2> QED BY <2>1, <2>2
<1>3. after = Built(s, <<>>) \/ (after = b /\ from # close)
  <2>1. CASE s.recent = <<>>
    <3>1. from = s.seed[1] BY <2>1 DEF LineFrom
    <3>2. after = CASE s.seed = <<>> -> Built([s EXCEPT !.seed = <<close>>], <<>>)
                    [] s.seed # <<>> /\ close # s.seed[1] -> Draw(s, s.seed[1], close)
                    [] OTHER -> Built(s, <<>>)
      BY <2>1 DEF LineBreakUpdated
    <3> HIDE DEF after, from
    <3>3. after = IF close # s.seed[1] THEN Draw(s, s.seed[1], close) ELSE Built(s, <<>>)
      BY <1>1, <3>2
    <3> QED BY <3>1, <3>3
  <2>2. CASE s.recent # <<>>
    <3> DEFINE last == Last(s.recent)
               breaks == IF last.direction > 0
                         THEN close > last.to \/ close < LowestLow(s.recent)
                         ELSE close < last.to \/ close > HighestHigh(s.recent)
    <3>1. after = IF breaks THEN Draw(s, last.to, close) ELSE Built(s, <<>>)
      BY <2>2 DEF LineBreakUpdated
    <3>2. from = last.to BY <2>2 DEF LineFrom
    <3>3. /\ last.to \in Int /\ LowestLow(s.recent) \in Int /\ LowestLow(s.recent) <= last.to
          /\ HighestHigh(s.recent) \in Int /\ last.to <= HighestHigh(s.recent)
      BY <1>1, <2>2, RecentSpan DEF PriceBar
    <3>4. breaks => last.to # close
      <4> HIDE DEF last
      <4> QED BY <3>3
    <3> HIDE DEF breaks, last, after, from
    <3>5. CASE breaks
      BY <3>1, <3>2, <3>4, <3>5
    <3>6. CASE ~breaks
      BY <3>1, <3>6
    <3> QED BY <3>5, <3>6
  <2> QED BY <2>1, <2>2
<1>4. CASE after = Built(s, <<>>)
  <2>1. after.s = s BY <1>4 DEF Built
  <2> QED BY <1>4, <2>1
<1>5. CASE after = b /\ from # close
  <2> DEFINE t == b.s
             recent == t.recent
             last == Last(recent)
             breaks == IF last.direction > 0
                       THEN close > last.to \/ close < LowestLow(recent)
                       ELSE close < last.to \/ close > HighestHigh(recent)
  <2>1. /\ t \in LineBreakState /\ recent # <<>> /\ last = Bar(from, close)
        /\ b = Built(t, <<Bar(from, close)>>)
    <3> HIDE DEF from
    <3> QED BY <1>2, Draws
  <2>2. LineBreakUpdated(t, close) = IF breaks THEN Draw(t, last.to, close) ELSE Built(t, <<>>)
    BY <2>1 DEF LineBreakUpdated
  <2>3. last.to = close BY <2>1 DEF Bar
  <2>4. recent \in Seq(PriceBar) BY <2>1 DEF LineBreakState
  <2> HIDE DEF t
  <2>5. /\ LowestLow(recent) \in Int /\ LowestLow(recent) <= close
        /\ HighestHigh(recent) \in Int /\ close <= HighestHigh(recent)
    BY <2>1, <2>3, <2>4, RecentSpan
  <2> HIDE DEF recent
  <2>6. ~breaks BY <2>3, <2>5
  <2>7. LineBreakUpdated(t, close) = Built(t, <<>>) BY <2>2, <2>6
  <2>8. after.s = t /\ after.bars = <<Bar(from, close)>> BY <1>5, <2>1 DEF Built
  <2> HIDE DEF after, from
  <2>9. Last(after.s.recent) = Bar(from, close) /\ after.s.recent # <<>>
    BY <2>1, <2>8 DEF recent
  <2> QED BY <2>1, <2>7, <2>8, <2>9 DEF after, from
<1> QED BY <1>3, <1>4, <1>5

-----------------------------------------------------------------------------
(* Every builder that looks at closes: its state is settled at the last   *)
(* close, and asks for no bar there.                                      *)

BarSpec == BarInit /\ [][BarNext]_barVars

LEMMA UpdatesOfKinds ==
    ASSUME NEW s, NEW c
    PROVE  /\ builder.kind = "renko" => UpdatedBy(s, c) = RenkoUpdated(s, c.close)
           /\ builder.kind = "range" => UpdatedBy(s, c) = RangeUpdated(s, c.close)
           /\ builder.kind = "kagi" => UpdatedBy(s, c) = KagiUpdated(s, c.close)
           /\ builder.kind = "pnf" => UpdatedBy(s, c) = PnfUpdated(s, c.close)
           /\ builder.kind = "line_break" => UpdatedBy(s, c) = LineBreakUpdated(s, c.close)
           /\ builder.kind \in Activity => UpdatedBy(s, c) = ActivityUpdated(s, c)
  BY DEF UpdatedBy, Activity

LEMMA NewOfKinds ==
    ASSUME NEW b
    PROVE  /\ b.kind = "renko" => NewBuilder(b) = [box |-> b.size, level |-> <<>>, dir |-> 0]
           /\ b.kind = "range" => NewBuilder(b) = [range |-> b.size, anchor |-> <<>>]
           /\ b.kind = "kagi" => NewBuilder(b) = [reversal |-> b.size, dir |-> 0,
                                                   extreme |-> <<>>, start |-> 0]
           /\ b.kind = "pnf" => NewBuilder(b) = [box |-> b.size, reversal |-> b.turn, dir |-> 0,
                                                  top |-> 0, bottom |-> 0, seeded |-> FALSE]
           /\ b.kind = "line_break" => NewBuilder(b) = [lines |-> b.size, seed |-> <<>>,
                                                         recent |-> <<>>]
           /\ b.kind \in Activity => NewBuilder(b) = NewActivity(b.kind, b.size)
  BY DEF NewBuilder, Activity, NewRenko, NewRange, NewKagi, NewPnf, NewLineBreak

\* The state of a builder that has seen the close and asks for no bar there.
Settles(b, s, close) ==
    /\ b.kind = "renko" => s \in RenkoState /\ s.box = b.size /\ RenkoSettled(s, close)
    /\ b.kind = "range" => s \in RangeState /\ s.range = b.size /\ RangeSettled(s, close)
    /\ b.kind = "kagi" => s \in KagiState /\ s.reversal = b.size /\ KagiSettled(s, close)
    /\ b.kind = "pnf" => /\ s \in PnfState /\ s.box = b.size /\ s.reversal = b.turn
                         /\ PnfSettled(s, Grid(s, close))
    /\ b.kind = "line_break" => /\ s \in LineBreakState
                                /\ LineBreakUpdated(s, close) = Built(s, <<>>)

Priced(c) == /\ c.open \in Int /\ c.high \in Int /\ c.low \in Int /\ c.close \in Int
             /\ c.volume \in Int

BarsFed ==
    /\ builder \in Builders /\ seen \in Seq(Candles(builder))
    /\ builder.kind \in Activity \cup PriceDriven
    /\ builder.size \in Nat \ {0} /\ builder.turn \in Nat \ {0}
    /\ \A c \in Candles(builder) : Priced(c)

Stands ==
    /\ seen = <<>> /\ builder.kind \in PriceDriven => state = NewBuilder(builder)
    /\ seen # <<>> => Settles(builder, state, Last(seen).close)

LEMMA FirstPnf ==
    ASSUME NEW w, NEW r, NEW close, NEW s,
           s = [box |-> w, reversal |-> r, dir |-> 0, top |-> 0, bottom |-> 0, seeded |-> FALSE]
    PROVE  PnfUpdated(s, close)
           = Built([box |-> w, reversal |-> r, dir |-> 0, top |-> Grid(s, close),
                    bottom |-> Grid(s, close), seeded |-> TRUE], <<>>)
<1>1. PICK no, yes, zero : /\ no = FALSE /\ yes = TRUE /\ zero = 0
                          /\ s = [box |-> w, reversal |-> r, dir |-> zero, top |-> zero,
                                  bottom |-> zero, seeded |-> no]
  OBVIOUS
<1> DEFINE p == Grid(s, close)
           e == [s EXCEPT !.seeded = yes]
           f == [e EXCEPT !.top = p]
           g == [f EXCEPT !.bottom = p]
<1>2. s = [box |-> w, reversal |-> r, dir |-> zero, top |-> zero, bottom |-> zero, seeded |-> no]
  BY <1>1
<1> HIDE DEF p
<1>3. e = [box |-> w, reversal |-> r, dir |-> zero, top |-> zero, bottom |-> zero,
           seeded |-> yes]
  BY ONLY <1>2
<1> HIDE DEF e
<1>4. f = [box |-> w, reversal |-> r, dir |-> zero, top |-> p, bottom |-> zero, seeded |-> yes]
  BY ONLY <1>3
<1> HIDE DEF f
<1>5. g = [box |-> w, reversal |-> r, dir |-> zero, top |-> p, bottom |-> p, seeded |-> yes]
  BY ONLY <1>4
<1> HIDE DEF g
<1>6. g = [[[s EXCEPT !.seeded = TRUE] EXCEPT !.top = p] EXCEPT !.bottom = p]
  BY <1>1 DEF g, f, e
<1>7. ~s.seeded BY <1>1
<1>8. PnfUpdated(s, close) = Built([[[s EXCEPT !.seeded = TRUE] EXCEPT !.top = p]
                                       EXCEPT !.bottom = p], <<>>)
  BY <1>7 DEF PnfUpdated, p, Grid
<1> QED BY <1>1, <1>5, <1>6, <1>8 DEF p

LEMMA FirstKagi ==
    ASSUME NEW r, NEW close, NEW s,
           s = [reversal |-> r, dir |-> 0, extreme |-> <<>>, start |-> 0]
    PROVE  KagiUpdated(s, close)
           = Built([reversal |-> r, dir |-> 0, extreme |-> <<close>>, start |-> close], <<>>)
<1>1. PICK none, zero : /\ none = <<>> /\ zero = 0
                       /\ s = [reversal |-> r, dir |-> zero, extreme |-> none, start |-> zero]
  OBVIOUS
<1> DEFINE v == <<close>>
           e == [s EXCEPT !.extreme = v]
<1> HIDE DEF v
<1>2. s = [reversal |-> r, dir |-> zero, extreme |-> none, start |-> zero] BY <1>1
<1>3. e = [reversal |-> r, dir |-> zero, extreme |-> v, start |-> zero] BY ONLY <1>2
<1> HIDE DEF e
<1>4. [e EXCEPT !.start = close] = [reversal |-> r, dir |-> zero, extreme |-> v, start |-> close]
  BY ONLY <1>3
<1>5. s.extreme = <<>> BY <1>1
<1>6. KagiUpdated(s, close) = Built([e EXCEPT !.start = close], <<>>)
  BY <1>5 DEF KagiUpdated, e, v
<1>7. v = <<close>> BY DEF v
<1> QED BY <1>1, <1>4, <1>6, <1>7

LEMMA FirstClose ==
    ASSUME BarsFed, NEW c \in Candles(builder), builder.kind \in PriceDriven
    PROVE  /\ Settles(builder, UpdatedBy(NewBuilder(builder), c).s, c.close)
           /\ UpdatedBy(NewBuilder(builder), c).bars = <<>>
<1> DEFINE s == NewBuilder(builder)
           size == builder.size
           close == c.close
           after == UpdatedBy(s, c)
<1>1. size \in Nat \ {0} /\ size \in Nat /\ size > 0 /\ close \in Int
      /\ builder.turn \in Nat \ {0}
  BY DEF BarsFed, Priced
<1>2. <<close>> \in One(Int) /\ <<close>>[1] = close BY <1>1 DEF One
<1> HIDE DEF close, size
<1>3. CASE builder.kind = "renko"
  <2> DEFINE t == [box |-> size, level |-> <<close>>, dir |-> 0]
  <2>1. s = [box |-> size, level |-> <<>>, dir |-> 0] BY <1>3, NewOfKinds DEF size
  <2>2. after = Built([s EXCEPT !.level = <<close>>], <<>>)
    BY <1>3, <2>1, UpdatesOfKinds DEF RenkoUpdated, close
  <2> HIDE DEF s, after
  <2>3. after.s = t /\ after.bars = <<>> BY <2>1, <2>2 DEF Built
  <2>4. t \in RenkoState /\ t.box = size BY <1>1, <1>2 DEF RenkoState
  <2>5. RenkoSettled(t, close) BY <1>1, <1>2 DEF RenkoSettled, Way, Base
  <2> QED BY <1>3, <2>3, <2>4, <2>5 DEF Settles, after, s, size, close
<1>4. CASE builder.kind = "range"
  <2> DEFINE t == [range |-> size, anchor |-> <<close>>]
  <2>1. s = [range |-> size, anchor |-> <<>>] BY <1>4, NewOfKinds DEF size
  <2>2. after = Built([s EXCEPT !.anchor = <<close>>], <<>>)
    <3>1. after = RangeUpdated(s, close) BY <1>4, UpdatesOfKinds DEF close
    <3>2. s.anchor = <<>> BY <2>1
    <3> HIDE DEF s
    <3> QED BY <3>1, <3>2 DEF RangeUpdated
  <2> HIDE DEF s, after
  <2>3. after.s = t /\ after.bars = <<>> BY <2>1, <2>2 DEF Built
  <2>4. t \in RangeState /\ t.range = size BY <1>1, <1>2 DEF RangeState
  <2>5. RangeSettled(t, close) BY <1>1, <1>2 DEF RangeSettled, PastAnchor
  <2> QED BY <1>4, <2>3, <2>4, <2>5 DEF Settles, after, s, size, close
<1>5. CASE builder.kind = "kagi"
  <2> DEFINE t == [reversal |-> size, dir |-> 0, extreme |-> <<close>>, start |-> close]
  <2>1. s = [reversal |-> size, dir |-> 0, extreme |-> <<>>, start |-> 0]
    BY <1>5, NewOfKinds DEF size
  <2>2. after = KagiUpdated(s, close) BY <1>5, UpdatesOfKinds DEF close
  <2> HIDE DEF s, after
  <2>3. after = Built(t, <<>>) BY <2>1, <2>2, FirstKagi
  <2>41. after.s = t /\ after.bars = <<>> BY <2>3 DEF Built
  <2>5. t \in KagiState /\ t.reversal = size BY <1>1, <1>2 DEF KagiState
  <2>6. KagiSettled(t, close) BY <1>1, <1>2 DEF KagiSettled
  <2> QED BY <1>5, <2>41, <2>5, <2>6 DEF Settles, after, s, size, close
<1>6. CASE builder.kind = "pnf"
  <2> DEFINE price == Grid(s, close)
             t == [box |-> size, reversal |-> builder.turn, dir |-> 0, top |-> price,
                   bottom |-> price, seeded |-> TRUE]
  <2>1. s = [box |-> size, reversal |-> builder.turn, dir |-> 0, top |-> 0, bottom |-> 0,
             seeded |-> FALSE]
    BY <1>6, NewOfKinds DEF size
  <2>2. after = PnfUpdated(s, close) BY <1>6, UpdatesOfKinds DEF close
  <2>3. price = (close \div size) * size /\ price \in Int BY <1>1, <2>1 DEF Grid
  <2> HIDE DEF s, after
  <2>5. after = Built(t, <<>>) BY <2>1, <2>2, FirstPnf
  <2> HIDE DEF price, t
  <2>6. after.s = t /\ after.bars = <<>> BY <2>5 DEF Built
  <2>7. t \in PnfState /\ t.box = size /\ t.reversal = builder.turn /\ t.dir = 0
        /\ t.top = price /\ t.bottom = price
    BY <1>1, <2>3 DEF PnfState, t
  <2>8. PnfSettled(t, Grid(t, close))
    <3>1. Grid(t, close) = price BY <2>3, <2>7 DEF Grid
    <3> QED BY <2>7, <3>1 DEF PnfSettled
  <2> QED BY <1>6, <2>6, <2>7, <2>8 DEF Settles, after, s, size, close
<1>7. CASE builder.kind = "line_break"
  <2> DEFINE t == [lines |-> size, seed |-> <<close>>, recent |-> <<>>]
  <2>1. s = [lines |-> size, seed |-> <<>>, recent |-> <<>>] BY <1>7, NewOfKinds DEF size
  <2>2. after = Built([s EXCEPT !.seed = <<close>>], <<>>)
    <3>1. after = LineBreakUpdated(s, close) BY <1>7, UpdatesOfKinds DEF close
    <3>2. s.recent = <<>> /\ s.seed = <<>> BY <2>1
    <3> HIDE DEF s
    <3> QED BY <3>1, <3>2 DEF LineBreakUpdated
  <2> HIDE DEF s, after
  <2>3. after.s = t /\ after.bars = <<>> BY <2>1, <2>2 DEF Built
  <2>4. <<>> \in Seq(PriceBar) OBVIOUS
  <2>5. t \in LineBreakState BY <1>1, <1>2, <2>4 DEF LineBreakState
  <2>6. LineBreakUpdated(t, close) = Built(t, <<>>)
    <3>1. t.recent = <<>> /\ t.seed # <<>> /\ t.seed[1] = close BY <1>2
    <3> HIDE DEF t
    <3> QED BY <3>1 DEF LineBreakUpdated
  <2> QED BY <1>7, <2>3, <2>5, <2>6 DEF Settles, after, s, size, close
<1> QED BY <1>3, <1>4, <1>5, <1>6, <1>7 DEF PriceDriven

LEMMA NextClose ==
    ASSUME BarsFed, NEW now \in Int, Settles(builder, state, now), NEW c \in Candles(builder),
           builder.kind \in PriceDriven
    PROVE  Settles(builder, UpdatedBy(state, c).s, c.close)
<1> DEFINE close == c.close
           after == UpdatedBy(state, c)
<1>1. close \in Int BY DEF BarsFed, Priced
<1>2. CASE builder.kind = "renko"
  <2>1. /\ state \in RenkoState /\ state.box = builder.size /\ RenkoSettled(state, now)
        /\ after = RenkoUpdated(state, close)
    BY <1>2, UpdatesOfKinds DEF Settles
  <2>2. PICK up \in BOOLEAN, n \in Nat : RenkoUpdated(state, close) = Laid(state, up, n)
    BY <1>1, <2>1, RenkoSettles
  <2>3. after.s.box = builder.size BY <2>1, <2>2, LaidFacts
  <2>4. after.s \in RenkoState /\ RenkoSettled(after.s, close) BY <1>1, <2>1, RenkoSettles
  <2> QED BY <1>2, <2>3, <2>4 DEF Settles
<1>3. CASE builder.kind = "range"
  <2>1. /\ state \in RangeState /\ state.range = builder.size
        /\ after = RangeUpdated(state, close)
    BY <1>3, UpdatesOfKinds DEF Settles
  <2>2. PICK up \in BOOLEAN, n \in Nat : RangeUpdated(state, close) = Moved(state, up, n)
    BY <1>1, <2>1, RangeSettles
  <2>3. after.s.range = builder.size BY <2>1, <2>2, MovedFacts
  <2>4. after.s \in RangeState /\ RangeSettled(after.s, close) BY <1>1, <2>1, RangeSettles
  <2> QED BY <1>3, <2>3, <2>4 DEF Settles
<1>4. CASE builder.kind = "kagi"
  <2>1. /\ state \in KagiState /\ state.reversal = builder.size /\ KagiSettled(state, now)
        /\ after = KagiUpdated(state, close)
    BY <1>4, UpdatesOfKinds DEF Settles
  <2>2. /\ after.s \in KagiState /\ KagiSettled(after.s, close)
        /\ after.s.reversal = state.reversal
    BY <1>1, <2>1, KagiSettles
  <2> QED BY <1>4, <2>1, <2>2 DEF Settles
<1>5. CASE builder.kind = "pnf"
  <2>1. /\ state \in PnfState /\ state.box = builder.size /\ state.reversal = builder.turn
        /\ PnfSettled(state, Grid(state, now)) /\ after = PnfUpdated(state, close)
    BY <1>5, UpdatesOfKinds DEF Settles
  <2>2. state.dir = 0 => state.top = state.bottom BY <2>1 DEF PnfSettled
  <2>3. /\ after.s \in PnfState /\ PnfSettled(after.s, Grid(state, close))
        /\ after.s.box = state.box /\ after.s.reversal = state.reversal
    BY <1>1, <2>1, <2>2, PnfSettles
  <2>4. Grid(after.s, close) = Grid(state, close) BY <2>3 DEF Grid
  <2> QED BY <1>5, <2>1, <2>3, <2>4 DEF Settles
<1>6. CASE builder.kind = "line_break"
  <2>1. state \in LineBreakState /\ after = LineBreakUpdated(state, close)
    BY <1>6, UpdatesOfKinds DEF Settles
  <2>2. after.s \in LineBreakState /\ LineBreakUpdated(after.s, close) = Built(after.s, <<>>)
    BY <1>1, <2>1, LineBreakSettles
  <2> QED BY <1>6, <2>2 DEF Settles
<1> QED BY <1>2, <1>3, <1>4, <1>5, <1>6 DEF PriceDriven

LEMMA BarsFedAlways == BarSpec => []BarsFed
<1>1. BarInit => BarsFed
  <2>1. ASSUME BarInit PROVE BarsFed
    <3>1. builder \in Builders /\ seen = <<>> BY <2>1 DEF BarInit
    <3> QED BY <3>1, BarBuilderAssumption DEF BarsFed, Priced
  <2> QED BY <2>1
<1>2. BarsFed /\ [BarNext]_barVars => BarsFed'
  <2> SUFFICES ASSUME BarsFed, [BarNext]_barVars PROVE BarsFed'
    OBVIOUS
  <2>1. builder' = builder BY DEF BarNext, BarUpdate, BarReset, barVars
  <2>2. seen' \in Seq(Candles(builder))
    <3>1. ASSUME NEW c \in Candles(builder), BarUpdate(c) PROVE seen' \in Seq(Candles(builder))
      <4>1. seen' = Append(seen, c) /\ seen \in Seq(Candles(builder))
        BY <3>1 DEF BarUpdate, BarsFed
      <4> QED BY <4>1, AppendProperties
    <3>2. ASSUME BarReset PROVE seen' \in Seq(Candles(builder)) BY <3>2 DEF BarReset
    <3>3. ASSUME UNCHANGED barVars PROVE seen' \in Seq(Candles(builder))
      BY <3>3 DEF barVars, BarsFed
    <3> QED BY <3>1, <3>2, <3>3 DEF BarNext
  <2> QED BY <2>1, <2>2 DEF BarsFed
<1> QED BY <1>1, <1>2, PTL DEF BarSpec

LEMMA LastSeen ==
    ASSUME NEW C, NEW q \in Seq(C)
    PROVE  /\ q # <<>> => Last(q) \in C
           /\ \A c \in C : Append(q, c) # <<>> /\ Last(Append(q, c)) = c
<1>1. ASSUME q # <<>> PROVE Last(q) \in C
  <2>1. Len(q) \in 1 .. Len(q) BY <1>1
  <2> QED BY <2>1 DEF Last
<1>2. ASSUME NEW c \in C PROVE Append(q, c) # <<>> /\ Last(Append(q, c)) = c
  <2>1. Len(Append(q, c)) = Len(q) + 1 /\ Append(q, c)[Len(q) + 1] = c BY AppendProperties
  <2>2. Append(q, c) # <<>> BY <2>1
  <2> QED BY <2>1, <2>2 DEF Last
<1> QED BY <1>1, <1>2

LEMMA ClosesArePrices ==
    ASSUME BarsFed, seen # <<>>
    PROVE  Last(seen).close \in Int
<1>1. Last(seen) \in Candles(builder) BY LastSeen DEF BarsFed
<1> QED BY <1>1 DEF BarsFed, Priced

LEMMA StandsAlways == BarSpec => []Stands
<1>1. BarInit => Stands BY DEF BarInit, Stands
<1>2. BarsFed /\ Stands /\ [BarNext]_barVars => Stands'
  <2> SUFFICES ASSUME BarsFed, Stands, [BarNext]_barVars PROVE Stands'
    OBVIOUS
  <2>1. ASSUME NEW c \in Candles(builder), BarUpdate(c) PROVE Stands'
    <3> DEFINE after == UpdatedBy(state, c)
    <3>1. /\ state' = after.s /\ builder' = builder /\ seen' = Append(seen, c)
      BY <2>1 DEF BarUpdate
    <3>2. seen' # <<>> /\ Last(seen') = c BY <3>1, LastSeen DEF BarsFed
    <3>3. Settles(builder, after.s, c.close)
      <4>1. CASE builder.kind \in Activity
        BY <4>1 DEF Settles, Activity
      <4>2. CASE builder.kind \in PriceDriven /\ seen = <<>>
        <5>1. state = NewBuilder(builder) BY <4>2 DEF Stands
        <5> QED BY <4>2, <5>1, FirstClose
      <4>3. CASE builder.kind \in PriceDriven /\ seen # <<>>
        <5>1. Settles(builder, state, Last(seen).close) BY <4>3 DEF Stands
        <5> QED BY <4>3, <5>1, NextClose, ClosesArePrices
      <4> QED BY <4>1, <4>2, <4>3 DEF BarsFed
    <3>4. Settles(builder', state', Last(seen').close) BY <3>1, <3>2, <3>3
    <3> QED BY <3>2, <3>4 DEF Stands
  <2>2. ASSUME BarReset PROVE Stands'
    <3>1. seen' = <<>> /\ builder' = builder BY <2>2 DEF BarReset
    <3>2. builder.kind \in PriceDriven => ~(builder.kind \in Activity)
      BY DEF PriceDriven, Activity
    <3>3. builder.kind \in PriceDriven => state' = NewBuilder(builder)
      BY <2>2, <3>2 DEF BarReset
    <3>4. NewBuilder(builder)' = NewBuilder(builder') OBVIOUS
    <3> QED BY <3>1, <3>3 DEF Stands
  <2>3. ASSUME UNCHANGED barVars PROVE Stands' BY <2>3 DEF Stands, barVars
  <2> QED BY <2>1, <2>2, <2>3 DEF BarNext
<1> QED BY <1>1, <1>2, BarsFedAlways, PTL DEF BarSpec

LEMMA WalksOfKinds ==
    ASSUME BarsFed, NEW now \in Int, Settles(builder, state, now),
           NEW stop \in Candles(builder), NEW c \in Candles(builder),
           builder.kind \in PriceDriven, builder.kind # "line_break",
           (stop.close - now) * (stop.close - c.close) <= 0
    PROVE  LET halfway == UpdatedBy(state, stop)
               rest == UpdatedBy(halfway.s, c)
           IN  Built(rest.s, halfway.bars \o rest.bars) = UpdatedBy(state, c)
<1>1. stop.close \in Int /\ c.close \in Int BY DEF BarsFed, Priced
<1>2. CASE builder.kind = "renko"
  <2>1. /\ state \in RenkoState /\ RenkoSettled(state, now)
        /\ \A s, d : UpdatedBy(s, d) = RenkoUpdated(s, d.close)
    BY <1>2, UpdatesOfKinds DEF Settles
  <2> QED BY <1>1, <2>1, RenkoWalks
<1>3. CASE builder.kind = "range"
  <2>1. /\ state \in RangeState /\ RangeSettled(state, now)
        /\ \A s, d : UpdatedBy(s, d) = RangeUpdated(s, d.close)
    BY <1>3, UpdatesOfKinds DEF Settles
  <2> QED BY <1>1, <2>1, RangeWalks
<1>4. CASE builder.kind = "kagi"
  <2>1. /\ state \in KagiState /\ KagiSettled(state, now)
        /\ \A s, d : UpdatedBy(s, d) = KagiUpdated(s, d.close)
    BY <1>4, UpdatesOfKinds DEF Settles
  <2> QED BY <1>1, <2>1, KagiWalks
<1>5. CASE builder.kind = "pnf"
  <2>1. /\ state \in PnfState /\ PnfSettled(state, Grid(state, now))
        /\ \A s, d : UpdatedBy(s, d) = PnfUpdated(s, d.close)
    BY <1>5, UpdatesOfKinds DEF Settles
  <2> QED BY <1>1, <2>1, PnfWalks
<1> QED BY <1>2, <1>3, <1>4, <1>5 DEF PriceDriven

\* Every builder that looks at closes makes of a move in one candle the bars, and
\* comes to the state, that the same move in two candles makes of it.
THEOREM BarsGapEqualsWalk == BarSpec => []GapEqualsWalk
<1>1. BarsFed /\ Stands => GapEqualsWalk
  <2> SUFFICES ASSUME BarsFed, Stands, builder.kind \in PriceDriven, seen # <<>>,
                      NEW c \in Candles(builder), NEW stop \in Candles(builder)
               PROVE  LET now == Last(seen).close
                          onTheWay == (stop.close - now) * (stop.close - c.close) <= 0
                          halfway == UpdatedBy(state, stop)
                          rest == UpdatedBy(halfway.s, c)
                      IN  IF builder.kind = "line_break"
                          THEN stop = c => rest.bars = <<>>
                          ELSE onTheWay =>
                                  Built(rest.s, halfway.bars \o rest.bars) = UpdatedBy(state, c)
    BY DEF GapEqualsWalk
  <2> DEFINE now == Last(seen).close
             halfway == UpdatedBy(state, stop)
             rest == UpdatedBy(halfway.s, c)
  <2>1. now \in Int /\ Settles(builder, state, now) BY ClosesArePrices DEF Stands
  <2> HIDE DEF now
  <2>2. CASE builder.kind = "line_break"
    <3> SUFFICES ASSUME stop = c PROVE rest.bars = <<>>
      BY <2>2
    <3>1. state \in LineBreakState /\ c.close \in Int
      BY <2>1, <2>2 DEF Settles, BarsFed, Priced
    <3>2. \A s, d : UpdatedBy(s, d) = LineBreakUpdated(s, d.close) BY <2>2, UpdatesOfKinds
    <3>3. rest = Built(halfway.s, <<>>) BY <3>1, <3>2, LineBreakSettles
    <3> QED BY <3>3 DEF Built
  <2>3. CASE builder.kind # "line_break"
    <3>1. ASSUME (stop.close - now) * (stop.close - c.close) <= 0
          PROVE  Built(rest.s, halfway.bars \o rest.bars) = UpdatedBy(state, c)
      BY <2>1, <2>3, <3>1, WalksOfKinds
    <3> QED BY <2>3, <3>1 DEF now
  <2> QED BY <2>2, <2>3 DEF now
<1> QED BY <1>1, BarsFedAlways, StandsAlways, PTL

-----------------------------------------------------------------------------
(* Bars that join on to each other. *)

\* The last bar of a builder, as its state remembers it.
EndsWith(s, old) ==
    /\ old \in PriceBar
    /\ builder.kind = "renko" =>
          /\ s.dir = old.direction /\ s.level[1] = old.to
          /\ old.to = IF old.direction = 1 THEN old.from + builder.size ELSE old.from - builder.size
    /\ builder.kind = "range" => s.anchor[1] = old.to
    /\ builder.kind = "kagi" =>
          /\ s.start = old.to /\ s.dir = -old.direction
          /\ s.dir = 1 => s.extreme[1] - s.start >= builder.size
          /\ s.dir = -1 => s.start - s.extreme[1] >= builder.size
    /\ builder.kind = "pnf" =>
          /\ s.dir = -old.direction
          /\ s.dir = 1 => s.bottom = old.from + builder.size
          /\ s.dir = -1 => s.top = old.to - builder.size
          /\ s.top - s.bottom >= (builder.turn - 1) * builder.size
    /\ builder.kind = "line_break" => s.recent # <<>> /\ Last(s.recent).to = old.to

\* What a close adds joins on to the bar before and to itself.
JoinsOn(s, after) ==
    /\ after.bars \in Seq(PriceBar)
    /\ \A i \in 2 .. Len(after.bars) : Joins(after.bars[i - 1], after.bars[i])
    /\ after.bars = <<>> => \A old : EndsWith(s, old) => EndsWith(after.s, old)
    /\ after.bars # <<>> => /\ EndsWith(after.s, Last(after.bars))
                            /\ \A old : EndsWith(s, old) => Joins(old, after.bars[1])

\* Bars of one size, one on the other.
Climbs(bars, from, step, n, to) ==
    /\ bars \in Seq(PriceBar) /\ Len(bars) = n /\ bars # <<>> /\ Last(bars) = bars[n]
    /\ bars[1].from = from /\ bars[n].to = to
    /\ \A i \in 1 .. n : bars[i].to = bars[i].from + step
    /\ \A i \in 1 .. n : bars[i].direction = IF step > 0 THEN 1 ELSE -1
    /\ \A i \in 2 .. n : bars[i].from = bars[i - 1].to

LEMMA RungsClimb ==
    ASSUME NEW from \in Int, NEW step \in Int, step # 0, NEW n \in Nat, n > 0
    PROVE  Climbs(Rungs(from, step, n), from, step, n, from + n * step)
<1> DEFINE bars == Rungs(from, step, n)
           to == from + n * step
           lo(i) == from + (i - 1) * step
           hi(i) == from + i * step
<1>1. /\ bars \in Seq(PriceBar) /\ Len(bars) = n
      /\ \A i \in 1 .. n : bars[i] = Bar(lo(i), hi(i))
  BY RungsType
<1>2. ASSUME NEW i \in Int PROVE lo(i) \in Int /\ hi(i) \in Int /\ hi(i) = lo(i) + step
                                 /\ lo(i) = hi(i - 1)
  <2>1. (i - 1) * step = i * step - step /\ i * step \in Int OBVIOUS
  <2> QED BY <2>1
<1>3. lo(1) = from /\ hi(n) = to
  <2>1. (1 - 1) * step = 0 OBVIOUS
  <2> QED BY <2>1
<1> HIDE DEF lo, hi, bars, to
<1>4. ASSUME NEW i \in 1 .. n
      PROVE  /\ bars[i] \in PriceBar /\ bars[i].to = bars[i].from + step
             /\ bars[i].direction = IF step > 0 THEN 1 ELSE -1
             /\ bars[i].from = lo(i) /\ bars[i].to = hi(i)
  <2>1. lo(i) \in Int /\ hi(i) \in Int /\ hi(i) = lo(i) + step BY <1>2
  <2>2. bars[i] = [from |-> lo(i), to |-> hi(i), direction |-> IF hi(i) > lo(i) THEN 1 ELSE -1]
    BY <1>1 DEF Bar
  <2>3. bars[i] \in PriceBar BY <1>1
  <2> QED BY <2>1, <2>2, <2>3
<1>5. ASSUME NEW i \in 2 .. n PROVE bars[i].from = bars[i - 1].to
  <2>1. i \in 1 .. n /\ i - 1 \in 1 .. n /\ lo(i) = hi(i - 1) BY <1>2
  <2> QED BY <1>4, <2>1
<1>6. bars[1].from = from /\ bars[n].to = to /\ bars # <<>> /\ Last(bars) = bars[n]
  <2>1. 1 \in 1 .. n /\ n \in 1 .. n OBVIOUS
  <2>2. Last(bars) = bars[n] /\ bars # <<>> BY <1>1 DEF Last
  <2> QED BY <1>3, <1>4, <2>1, <2>2
<1>7. Climbs(bars, from, step, n, to) BY <1>1, <1>4, <1>5, <1>6 DEF Climbs
<1> QED BY <1>7 DEF bars, to

\* No bar, and the state as it was.
LEMMA NothingJoinsOn ==
    ASSUME NEW s
    PROVE  JoinsOn(s, Built(s, <<>>))
<1>1. <<>> \in Seq(PriceBar) /\ Len(<<>>) = 0 /\ 2 .. 0 = {} OBVIOUS
<1> QED BY <1>1 DEF JoinsOn, Built

LEMMA RenkoJoinsOn ==
    ASSUME builder.kind = "renko", NEW s \in RenkoState, s.box = builder.size,
           NEW now \in Int, NEW close \in Int, RenkoSettled(s, now)
    PROVE  JoinsOn(s, RenkoUpdated(s, close))
<1>1. PICK up \in BOOLEAN, n \in Nat : RenkoUpdated(s, close) = Laid(s, up, n)
  BY RenkoSettles
<1>2. CASE n = 0
  <2>1. Laid(s, up, n) = Built(s, <<>>) BY <1>2 DEF Laid
  <2> QED BY <1>1, <2>1, NothingJoinsOn
<1>3. CASE n > 0
  <2> DEFINE from == Base(s, up)
             step == StepOf(s, up)
             to == from + n * step
             bars == Rungs(from, step, n)
             t == Laid(s, up, n).s
             box == builder.size
  <2>1. Laid(s, up, n).bars = bars BY <1>3 DEF Laid, Built
  <2>2. /\ t.dir = Signed(up) /\ t.level[1] = to BY <1>3, LaidFacts
  <2>3. /\ from \in Int /\ step \in Int /\ step # 0 /\ box \in Nat /\ box > 0
        /\ step = IF up THEN box ELSE -box
    BY RenkoFields DEF StepOf
  <2>4. \A old : EndsWith(s, old) =>
           from = IF old.direction = Signed(up) THEN old.to ELSE old.from
    BY RenkoFields DEF EndsWith, Signed, Base, PriceBar
  <2> HIDE DEF from, step, to, bars, t, box
  <2>5. /\ bars \in Seq(PriceBar) /\ Len(bars) = n
        /\ \A i \in 1 .. n : /\ bars[i] \in PriceBar /\ bars[i].to = bars[i].from + step
                             /\ bars[i].direction = IF step > 0 THEN 1 ELSE -1
        /\ \A i \in 2 .. n : bars[i].from = bars[i - 1].to
        /\ bars[1].from = from /\ Last(bars).to = to /\ bars # <<>>
        /\ Last(bars) = bars[n]
    <3>1. Climbs(bars, from, step, n, to) BY <1>3, <2>3, RungsClimb DEF bars, to
    <3>2. \A i \in 1 .. n : bars[i] \in PriceBar BY <3>1 DEF Climbs
    <3> QED BY <3>1, <3>2 DEF Climbs
  <2>6. Signed(up) = IF step > 0 THEN 1 ELSE -1 BY <2>3 DEF Signed
  <2>7. ASSUME NEW i \in 1 .. n
        PROVE  Distance(bars[i].from, bars[i].to) = box /\ bars[i].direction = Signed(up)
    <3>1. bars[i].from \in Int /\ bars[i].to = bars[i].from + step BY <2>5 DEF PriceBar
    <3>2. Distance(bars[i].from, bars[i].to) = box BY <2>3, <3>1 DEF Distance
    <3> QED BY <2>5, <2>6, <3>2
  <2>8. ASSUME NEW i \in 2 .. n PROVE Joins(bars[i - 1], bars[i])
    <3>1. i \in 1 .. n /\ i - 1 \in 1 .. n OBVIOUS
    <3>2. bars[i].direction = bars[i - 1].direction BY <2>7, <3>1
    <3> QED BY <2>5, <2>7, <3>1, <3>2 DEF Joins, box
  <2>9. EndsWith(t, Last(bars))
    <3>1. n \in 1 .. n BY <1>3
    <3>2. /\ bars[n].from \in Int /\ bars[n].to = bars[n].from + step /\ bars[n] \in PriceBar
          /\ bars[n].direction = Signed(up)
      BY <2>5, <2>7, <3>1 DEF PriceBar
    <3>3. bars[n].to = IF bars[n].direction = 1 THEN bars[n].from + box ELSE bars[n].from - box
      BY <2>3, <3>2 DEF Signed
    <3>4. t.dir = bars[n].direction /\ t.level[1] = bars[n].to BY <2>2, <2>5, <3>2
    <3> QED BY <2>5, <3>2, <3>3, <3>4 DEF EndsWith, box
  <2>10. ASSUME NEW old, EndsWith(s, old) PROVE Joins(old, bars[1])
    <3>1. 1 \in 1 .. n BY <1>3
    <3>2. bars[1].from = IF bars[1].direction # old.direction THEN old.from ELSE old.to
      BY <2>4, <2>5, <2>7, <2>10, <3>1
    <3> QED BY <2>7, <3>1, <3>2 DEF Joins, box
  <2> QED BY <1>1, <2>1, <2>5, <2>8, <2>9, <2>10 DEF JoinsOn, t
<1> QED BY <1>2, <1>3

LEMMA RangeJoinsOn ==
    ASSUME builder.kind = "range", NEW s \in RangeState, s.range = builder.size,
           NEW close \in Int
    PROVE  JoinsOn(s, RangeUpdated(s, close))
<1>1. PICK up \in BOOLEAN, n \in Nat : RangeUpdated(s, close) = Moved(s, up, n)
  BY RangeSettles
<1>2. CASE n = 0
  <2>1. Moved(s, up, n) = Built(s, <<>>) BY <1>2, MovedFacts
  <2> QED BY <1>1, <2>1, NothingJoinsOn
<1>3. CASE n > 0
  <2> DEFINE from == s.anchor[1]
             step == Rung(s, up)
             to == from + n * step
             bars == Rungs(from, step, n)
             t == Moved(s, up, n).s
             size == builder.size
  <2>1. Moved(s, up, n).bars = bars BY DEF Moved, Built
  <2>2. t.anchor[1] = to BY MovedFacts
  <2>3. /\ from \in Int /\ step \in Int /\ step # 0 /\ size \in Nat /\ size > 0
        /\ step = IF up THEN size ELSE -size
    BY RangeFields DEF Rung
  <2> HIDE DEF from, step, to, bars, t, size
  <2>4. /\ bars \in Seq(PriceBar) /\ Len(bars) = n
        /\ \A i \in 1 .. n : bars[i] \in PriceBar /\ bars[i].to = bars[i].from + step
        /\ \A i \in 2 .. n : bars[i].from = bars[i - 1].to
        /\ bars[1].from = from /\ Last(bars).to = to /\ bars # <<>>
        /\ Last(bars) = bars[n]
    <3>1. Climbs(bars, from, step, n, to) BY <1>3, <2>3, RungsClimb DEF bars, to
    <3>2. \A i \in 1 .. n : bars[i] \in PriceBar BY <3>1 DEF Climbs
    <3> QED BY <3>1, <3>2 DEF Climbs
  <2>5. ASSUME NEW i \in 1 .. n PROVE Distance(bars[i].from, bars[i].to) = size
    <3>1. bars[i].from \in Int /\ bars[i].to = bars[i].from + step BY <2>4 DEF PriceBar
    <3> QED BY <2>3, <3>1 DEF Distance
  <2>6. ASSUME NEW i \in 2 .. n PROVE Joins(bars[i - 1], bars[i])
    <3>1. i \in 1 .. n OBVIOUS
    <3> QED BY <2>4, <2>5, <3>1 DEF Joins, size
  <2>7. EndsWith(t, Last(bars))
    <3>1. n \in 1 .. n BY <1>3
    <3> QED BY <2>2, <2>4, <3>1 DEF EndsWith
  <2>8. ASSUME NEW old, EndsWith(s, old) PROVE Joins(old, bars[1])
    <3>1. 1 \in 1 .. n BY <1>3
    <3>2. from = old.to BY <2>8 DEF EndsWith, from
    <3> QED BY <2>4, <2>5, <3>1, <3>2 DEF Joins, size
  <2> QED BY <1>1, <2>1, <2>4, <2>6, <2>7, <2>8 DEF JoinsOn, t
<1> QED BY <1>2, <1>3

LEMMA OneBar ==
    ASSUME NEW bar \in PriceBar, NEW s, NEW after, after.bars = <<bar>>,
           EndsWith(after.s, bar), \A old : EndsWith(s, old) => Joins(old, bar)
    PROVE  JoinsOn(s, after)
<1> DEFINE bars == <<bar>>
<1>1. /\ bars \in Seq(PriceBar) /\ Len(bars) = 1 /\ bars # <<>> /\ bars[1] = bar
      /\ 2 .. 1 = {}
  OBVIOUS
<1> HIDE DEF bars
<1>2. Last(bars) = bar BY <1>1 DEF Last
<1>3. after.bars = bars BY DEF bars
<1> QED BY <1>1, <1>2, <1>3 DEF JoinsOn

LEMMA KagiJoinsOn ==
    ASSUME builder.kind = "kagi", NEW s \in KagiState, s.reversal = builder.size,
           NEW now \in Int, NEW close \in Int, KagiSettled(s, now)
    PROVE  JoinsOn(s, KagiUpdated(s, close))
<1> DEFINE after == KagiUpdated(s, close)
           t == after.s
           size == builder.size
<1>1. /\ s.dir \in {-1, 0, 1} /\ s.start \in Int /\ s.extreme[1] \in Int
      /\ size \in Nat /\ size > 0
  BY KagiFields
<1>2. /\ t \in KagiState
      /\ \/ /\ after.bars = <<>>
            /\ s.dir # 0 => t.dir = s.dir /\ t.start = s.start
                            /\ \/ t.extreme = s.extreme
                               \/ Ahead(s.dir, close, s.extreme[1]) /\ t.extreme[1] = close
         \/ s.dir # 0 /\ after = Turned(s, close)
            /\ (s.extreme[1] - close) * s.dir >= s.reversal
  BY KagiSettles
<1>3. CASE after.bars = <<>>
            /\ (s.dir # 0 => t.dir = s.dir /\ t.start = s.start
                            /\ \/ t.extreme = s.extreme
                               \/ Ahead(s.dir, close, s.extreme[1]) /\ t.extreme[1] = close)
  <2> HIDE DEF after
  <2>1. ASSUME NEW old, EndsWith(s, old) PROVE EndsWith(t, old)
    <3>1. /\ old \in PriceBar /\ s.dir = -old.direction /\ old.direction \in {-1, 1}
          /\ s.start = old.to
          /\ s.dir = 1 => s.extreme[1] - s.start >= size
          /\ s.dir = -1 => s.start - s.extreme[1] >= size
      BY <2>1 DEF EndsWith, PriceBar
    <3>2. s.dir = 1 \/ s.dir = -1 BY <3>1
    <3>3. t.dir = s.dir /\ t.start = s.start BY <1>3, <3>2
    <3>4. /\ s.dir = 1 => t.extreme[1] - t.start >= size
          /\ s.dir = -1 => t.start - t.extreme[1] >= size
      <4>1. CASE t.extreme = s.extreme
        BY <3>1, <3>3, <4>1
      <4>2. CASE Ahead(s.dir, close, s.extreme[1]) /\ t.extreme[1] = close
        <5>1. CASE s.dir = 1
          <6>1. close > s.extreme[1] BY <1>1, <4>2, <5>1 DEF Ahead
          <6> QED BY <1>1, <3>1, <3>3, <4>2, <5>1, <6>1
        <5>2. CASE s.dir = -1
          <6>1. (close - s.extreme[1]) * (-1) > 0 BY <4>2, <5>2 DEF Ahead
          <6>2. close < s.extreme[1] BY <1>1, <6>1
          <6> QED BY <1>1, <3>1, <3>3, <4>2, <5>2, <6>2
        <5> QED BY <3>2, <5>1, <5>2
      <4> QED BY <1>3, <3>2, <4>1, <4>2
    <3> QED BY <3>1, <3>3, <3>4 DEF EndsWith, size
  <2>2. <<>> \in Seq(PriceBar) /\ Len(<<>>) = 0 /\ 2 .. 0 = {} OBVIOUS
  <2>3. JoinsOn(s, after) BY <1>3, <2>1, <2>2 DEF JoinsOn
  <2> QED BY <2>3 DEF after
<1>4. CASE s.dir # 0 /\ after = Turned(s, close) /\ (s.extreme[1] - close) * s.dir >= s.reversal
  <2> DEFINE bar == [from |-> s.start, to |-> s.extreme[1], direction |-> s.dir]
  <2>1. after = Built(Turned(s, close).s, <<bar>>) /\ t.dir = -s.dir /\ t.extreme[1] = close
        /\ t.start = s.extreme[1]
    BY <1>4, TurnedFacts
  <2>2. after.bars = <<bar>> BY <2>1 DEF Built
  <2>3. bar \in PriceBar /\ bar.from = s.start /\ bar.to = s.extreme[1] /\ bar.direction = s.dir
    BY <1>1, <1>4 DEF PriceBar
  <2> HIDE DEF bar, after
  <2>4. EndsWith(t, bar)
    <3>1. /\ t.dir = 1 => t.extreme[1] - t.start >= size
          /\ t.dir = -1 => t.start - t.extreme[1] >= size
      <4>1. CASE s.dir = 1
        <5>1. s.extreme[1] - close >= size BY <1>1, <1>4, <4>1
        <5> QED BY <1>1, <2>1, <4>1, <5>1
      <4>2. CASE s.dir = -1
        <5>1. (s.extreme[1] - close) * (-1) >= size BY <1>4, <4>2
        <5>2. close - s.extreme[1] >= size BY <1>1, <5>1
        <5> QED BY <1>1, <2>1, <4>2, <5>2
      <4> QED BY <1>1, <1>4, <4>1, <4>2
    <3> QED BY <2>1, <2>3, <3>1 DEF EndsWith, size
  <2>5. ASSUME NEW old, EndsWith(s, old) PROVE Joins(old, bar)
    <3>1. /\ s.dir = -old.direction /\ old.direction \in {-1, 1} /\ s.start = old.to
          /\ s.dir = 1 => s.extreme[1] - s.start >= size
          /\ s.dir = -1 => s.start - s.extreme[1] >= size
      BY <2>5 DEF EndsWith, PriceBar
    <3>2. bar.direction # old.direction /\ bar.from = old.to BY <2>3, <3>1
    <3>3. Distance(bar.from, bar.to) >= size
      <4>1. CASE s.dir = 1
        BY <1>1, <2>3, <3>1, <4>1 DEF Distance
      <4>2. CASE s.dir = -1
        BY <1>1, <2>3, <3>1, <4>2 DEF Distance
      <4> QED BY <1>1, <1>4, <4>1, <4>2
    <3> QED BY <3>2, <3>3 DEF Joins, size
  <2>6. JoinsOn(s, after) BY <2>2, <2>3, <2>4, <2>5, OneBar
  <2> QED BY <2>6 DEF after
<1> QED BY <1>2, <1>3, <1>4

LEMMA PnfJoinsOn ==
    ASSUME builder.kind = "pnf", NEW s \in PnfState, s.box = builder.size,
           s.reversal = builder.turn, NEW close \in Int, s.dir = 0 => s.top = s.bottom
    PROVE  JoinsOn(s, PnfUpdated(s, close))
<1> DEFINE after == PnfUpdated(s, close)
           t == after.s
           size == builder.size
           least == (builder.turn - 1) * builder.size
<1>1. /\ s.dir \in {-1, 0, 1} /\ s.top \in Int /\ s.bottom \in Int /\ TurnsAfter(s) \in Nat
      /\ size \in Nat /\ size > 0
  <2>1. s.box \in Nat \ {0} /\ TurnsAfter(s) \in Nat BY PnfFields
  <2>2. size = s.box OBVIOUS
  <2> HIDE DEF size
  <2>3. s.dir \in {-1, 0, 1} /\ s.top \in Int /\ s.bottom \in Int BY PnfFields
  <2> QED BY <2>1, <2>2, <2>3
<1>2. least = TurnsAfter(s) - size
  <2>1. builder.turn \in Nat /\ builder.size \in Nat BY PnfFields
  <2>2. (builder.turn - 1) * builder.size = builder.turn * builder.size - builder.size
    BY <2>1
  <2> QED BY <2>2 DEF TurnsAfter
<1>3. /\ t \in PnfState
      /\ \/ /\ after.bars = <<>>
            /\ s.dir = 1 => t.dir = 1 /\ t.top >= s.top /\ t.bottom = s.bottom
            /\ s.dir = -1 => t.dir = -1 /\ t.bottom <= s.bottom /\ t.top = s.top
         \/ /\ s.dir # 0 /\ after.bars = <<Column(s)>> /\ t.dir = -s.dir
            /\ s.dir = 1 => t.top = s.top - s.box /\ t.bottom <= s.top - TurnsAfter(s)
            /\ s.dir = -1 => t.bottom = s.bottom + s.box /\ t.top >= s.bottom + TurnsAfter(s)
  BY PnfSettles
<1>4. t.top \in Int /\ t.bottom \in Int BY <1>3, PnfFields
<1> HIDE DEF after, size, least
<1>5. ASSUME NEW old, EndsWith(s, old)
      PROVE  /\ old \in PriceBar /\ old.from \in Int /\ old.to \in Int
             /\ s.dir = -old.direction /\ old.direction \in {-1, 1}
             /\ s.dir = 1 => s.bottom = old.from + size
             /\ s.dir = -1 => s.top = old.to - size
             /\ s.top - s.bottom >= least
  BY <1>5 DEF EndsWith, PriceBar, size, least
<1>6. CASE after.bars = <<>>
            /\ (s.dir = 1 => t.dir = 1 /\ t.top >= s.top /\ t.bottom = s.bottom)
            /\ (s.dir = -1 => t.dir = -1 /\ t.bottom <= s.bottom /\ t.top = s.top)
  <2>1. ASSUME NEW old, EndsWith(s, old) PROVE EndsWith(t, old)
    <3>1. s.dir = 1 \/ s.dir = -1 BY <1>5, <2>1
    <3>2. t.dir = -old.direction /\ (t.dir = 1 => t.bottom = old.from + size)
          /\ (t.dir = -1 => t.top = old.to - size) /\ old \in PriceBar
      BY <1>5, <1>6, <2>1, <3>1
    <3>3. t.top - t.bottom >= least
      <4>1. least \in Int BY <1>1, <1>2
      <4>2. t.top >= s.top /\ t.bottom <= s.bottom /\ s.top - s.bottom >= least
        BY <1>1, <1>4, <1>5, <1>6, <2>1, <3>1
      <4> QED BY <1>1, <1>4, <4>1, <4>2
    <3> QED BY <3>2, <3>3 DEF EndsWith, size, least
  <2>2. <<>> \in Seq(PriceBar) /\ Len(<<>>) = 0 /\ 2 .. 0 = {} OBVIOUS
  <2>3. JoinsOn(s, after) BY <1>6, <2>1, <2>2 DEF JoinsOn
  <2> QED BY <2>3 DEF after
<1>7. CASE /\ s.dir # 0 /\ after.bars = <<Column(s)>> /\ t.dir = -s.dir
           /\ s.dir = 1 => t.top = s.top - s.box /\ t.bottom <= s.top - TurnsAfter(s)
           /\ s.dir = -1 => t.bottom = s.bottom + s.box /\ t.top >= s.bottom + TurnsAfter(s)
  <2> DEFINE bar == Column(s)
  <2>1. bar \in PriceBar /\ bar.from = s.bottom /\ bar.to = s.top /\ bar.direction = s.dir
    BY <1>1, <1>7 DEF PriceBar, Column
  <2> HIDE DEF bar
  <2>2. s.box = size BY DEF size
  <2>3. EndsWith(t, bar)
    <3>1. CASE s.dir = 1
      <4>1. t.dir = -1 /\ t.dir = -bar.direction /\ t.top = bar.to - size
        BY <1>7, <2>1, <2>2, <3>1
      <4>2. t.top - t.bottom >= least BY <1>1, <1>2, <1>4, <1>7, <2>2, <3>1
      <4> QED BY <2>1, <4>1, <4>2 DEF EndsWith, size, least
    <3>2. CASE s.dir = -1
      <4>1. t.dir = 1 /\ t.dir = -bar.direction /\ t.bottom = bar.from + size
        <5>1. t.bottom = s.bottom + s.box BY <1>7, <3>2
        <5>2. t.dir = -s.dir BY <1>7
        <5>3. s.dir \in Int /\ s.dir + 1 = 0 BY <1>1, <3>2
        <5>4. -s.dir = 1 BY ONLY <5>3
        <5> QED BY <2>1, <2>2, <5>1, <5>2, <5>4
      <4>2. t.top - t.bottom >= least BY <1>1, <1>2, <1>4, <1>7, <2>2, <3>2
      <4> QED BY <2>1, <4>1, <4>2 DEF EndsWith, size, least
    <3> QED BY <1>1, <1>7, <3>1, <3>2
  <2>4. ASSUME NEW old, EndsWith(s, old) PROVE Joins(old, bar)
    <3>1. bar.direction # old.direction /\ bar.to - bar.from >= least BY <1>5, <2>1, <2>4
    <3>2. IF bar.direction < 0 THEN bar.to = old.to - size ELSE bar.from = old.from + size
      BY <1>5, <2>1, <2>4
    <3> QED BY <3>1, <3>2 DEF Joins, size, least
  <2>5. JoinsOn(s, after) BY <1>7, <2>1, <2>3, <2>4, OneBar DEF bar
  <2> QED BY <2>5 DEF after
<1> QED BY <1>3, <1>6, <1>7

LEMMA LineBreakJoinsOn ==
    ASSUME builder.kind = "line_break", NEW s \in LineBreakState, NEW close \in Int
    PROVE  JoinsOn(s, LineBreakUpdated(s, close))
<1> DEFINE after == LineBreakUpdated(s, close)
           bar == Bar(LineFrom(s), close)
<1>1. \/ after = Built(s, <<>>)
      \/ /\ after.bars = <<bar>> /\ after.s.recent # <<>>
         /\ Last(after.s.recent) = bar
  BY LineBreakSettles
<1>2. CASE after = Built(s, <<>>)
  BY <1>2, NothingJoinsOn
<1>3. CASE after.bars = <<bar>> /\ after.s.recent # <<>> /\ Last(after.s.recent) = bar
  <2>1. LineFrom(s) \in Int
    <3>1. s.recent \in Seq(PriceBar) /\ s.seed \in One(Int) BY DEF LineBreakState
    <3>2. CASE s.recent = <<>>
      BY <3>1, <3>2 DEF LineFrom, One
    <3>3. CASE s.recent # <<>>
      BY <3>1, <3>3, RecentSpan DEF LineFrom, PriceBar
    <3> QED BY <3>2, <3>3
  <2>2. bar \in PriceBar /\ bar.from = LineFrom(s) /\ bar.to = close
    BY <2>1 DEF Bar, PriceBar
  <2> HIDE DEF after, bar
  <2>3. EndsWith(after.s, bar) BY <1>3, <2>2 DEF EndsWith
  <2>4. ASSUME NEW old, EndsWith(s, old) PROVE Joins(old, bar)
    <3>1. LineFrom(s) = old.to BY <2>4 DEF EndsWith, LineFrom
    <3> QED BY <2>2, <3>1 DEF Joins
  <2>5. JoinsOn(s, after) BY <1>3, <2>2, <2>3, <2>4, OneBar
  <2> QED BY <2>5 DEF after
<1> QED BY <1>1, <1>2, <1>3

LEMMA PriceBuildersJoinOn ==
    ASSUME BarsFed, builder.kind \in PriceDriven, NEW now \in Int, Settles(builder, state, now),
           NEW c \in Candles(builder)
    PROVE  JoinsOn(state, UpdatedBy(state, c))
<1>1. c.close \in Int BY DEF BarsFed, Priced
<1>2. CASE builder.kind = "renko"
  BY <1>1, <1>2, UpdatesOfKinds, RenkoJoinsOn DEF Settles
<1>3. CASE builder.kind = "range"
  BY <1>1, <1>3, UpdatesOfKinds, RangeJoinsOn DEF Settles
<1>4. CASE builder.kind = "kagi"
  BY <1>1, <1>4, UpdatesOfKinds, KagiJoinsOn DEF Settles
<1>5. CASE builder.kind = "pnf"
  <2>1. /\ state \in PnfState /\ state.box = builder.size /\ state.reversal = builder.turn
        /\ PnfSettled(state, Grid(state, now))
    BY <1>5 DEF Settles
  <2>2. state.dir = 0 => state.top = state.bottom BY <2>1 DEF PnfSettled
  <2> QED BY <1>1, <1>5, <2>1, <2>2, UpdatesOfKinds, PnfJoinsOn
<1>6. CASE builder.kind = "line_break"
  BY <1>1, <1>6, UpdatesOfKinds, LineBreakJoinsOn DEF Settles
<1> QED BY <1>2, <1>3, <1>4, <1>5, <1>6 DEF PriceDriven

\* The bars join on to each other, and the state knows the last one's end.
Linked ==
    builder.kind \in PriceDriven =>
        /\ made \in Seq([bar : PriceBar, at : Nat])
        /\ seen = <<>> => made = <<>>
        /\ \A i \in 2 .. Len(made) : Joins(made[i - 1].bar, made[i].bar)
        /\ made # <<>> => EndsWith(state, Last(made).bar)

\* One sequence behind another.
IsJoined(t, p, q) ==
    /\ Len(t) = Len(p) + Len(q)
    /\ \A i \in 1 .. Len(p) : t[i] = p[i]
    /\ \A i \in Len(p) + 1 .. Len(p) + Len(q) : t[i] = q[i - Len(p)]

LEMMA ConcatIsJoined ==
    ASSUME NEW S, NEW p \in Seq(S), NEW q \in Seq(S)
    PROVE  (p \o q) \in Seq(S) /\ IsJoined(p \o q, p, q)
<1>1. Len(p) \in Nat /\ Len(q) \in Nat OBVIOUS
<1>2. (p \o q) \in Seq(S) /\ Len(p \o q) = Len(p) + Len(q) BY ConcatProperties
<1>3. \A i \in 1 .. Len(p) + Len(q) :
          (p \o q)[i] = IF i <= Len(p) THEN p[i] ELSE q[i - Len(p)]
  BY ConcatProperties
<1>4. ASSUME NEW i \in 1 .. Len(p) PROVE (p \o q)[i] = p[i]
  <2>1. i \in 1 .. Len(p) + Len(q) /\ i <= Len(p) BY <1>1
  <2> QED BY <1>3, <2>1
<1>5. ASSUME NEW i \in Len(p) + 1 .. Len(p) + Len(q) PROVE (p \o q)[i] = q[i - Len(p)]
  <2>1. i \in 1 .. Len(p) + Len(q) /\ ~(i <= Len(p)) BY <1>1
  <2> QED BY <1>3, <2>1
<1> QED BY <1>2, <1>4, <1>5 DEF IsJoined

LEMMA LinkedByUpdate ==
    ASSUME BarsFed, Stands, Linked, builder.kind \in PriceDriven,
           NEW c \in Candles(builder), BarUpdate(c)
    PROVE  Linked'
<1> DEFINE R == [bar : PriceBar, at : Nat]
           after == UpdatedBy(state, c)
           at == Len(seen) + 1
           new == [i \in DOMAIN after.bars |-> [bar |-> after.bars[i], at |-> at]]
<1>1. /\ state' = after.s /\ made' = made \o new /\ seen' = Append(seen, c)
      /\ builder' = builder
  BY DEF BarUpdate
<1>2. made \in Seq(R) /\ at \in Nat /\ (\A i \in 2 .. Len(made) : Joins(made[i - 1].bar, made[i].bar))
  <2>1. Len(seen) \in Nat BY DEF BarsFed
  <2> QED BY <2>1 DEF Linked
<1>3. seen' # <<>> BY <1>1, LastSeen DEF BarsFed
<1>4. ASSUME NEW old, NEW bar PROVE Joins(old, bar)' = Joins(old, bar) BY <1>1 DEF Joins
<1>5. CASE seen = <<>>
  <2>1. state = NewBuilder(builder) /\ made = <<>> BY <1>5 DEF Stands, Linked
  <2>2. after.bars = <<>> BY <2>1, FirstClose
  <2>3. new = <<>> BY <2>2
  <2>4. made' = <<>> BY <1>1, <2>1, <2>3
  <2> QED BY <1>3, <2>4 DEF Linked
<1>6. CASE seen # <<>>
  <2>1. JoinsOn(state, after)
    <3>1. Settles(builder, state, Last(seen).close) /\ Last(seen).close \in Int
      BY <1>6, ClosesArePrices DEF Stands
    <3> QED BY <3>1, PriceBuildersJoinOn
  <2> DEFINE bars == after.bars
             n == Len(bars)
             m == Len(made)
  <2>2. bars \in Seq(PriceBar) /\ n \in Nat /\ DOMAIN bars = 1 .. n /\ m \in Nat
        /\ \A i \in 1 .. n : bars[i] \in PriceBar
    BY <1>2, <2>1 DEF JoinsOn
  <2> HIDE DEF after, at
  <2>3. new = [i \in 1 .. n |-> [bar |-> bars[i], at |-> at]] BY <2>2
  <2> HIDE DEF new, bars, n
  <2>4. \A i \in 1 .. n : [bar |-> bars[i], at |-> at] \in R BY <1>2, <2>2
  <2>5. new \in Seq(R) /\ Len(new) = n /\ \A i \in 1 .. n : new[i].bar = bars[i]
    <3>1. new \in Seq(R) BY <2>2, <2>3, <2>4
    <3>2. DOMAIN new = 1 .. n BY <2>3
    <3>3. Len(new) = n BY <2>2, <3>1, <3>2, LenProperties
    <3>4. \A i \in 1 .. n : new[i] = [bar |-> bars[i], at |-> at] BY <2>3
    <3> QED BY <3>1, <3>3, <3>4
  <2> HIDE DEF m, R
  <2>6. /\ made' \in Seq(R) /\ Len(made') = m + n
        /\ \A i \in 1 .. m : made'[i] = made[i]
        /\ \A i \in m + 1 .. m + n : made'[i] = new[i - m]
    <3>1. made' \in Seq(R) /\ IsJoined(made', made, new) BY <1>1, <1>2, <2>5, ConcatIsJoined
    <3>2. Len(made) = m /\ Len(new) = n BY <2>5 DEF m
    <3> QED BY ONLY <3>1, <3>2 DEF IsJoined
  <2>7. made # <<>> => m > 0 /\ Last(made) = made[m] BY <1>2 DEF m, Last
  <2>8. made = <<>> => m = 0 BY DEF m
  <2>9. bars = <<>> <=> n = 0 BY <2>2 DEF n
  <2>10. ASSUME NEW i \in 2 .. m + n PROVE Joins(made'[i - 1].bar, made'[i].bar)
    <3>1. CASE i <= m
      <4>1. i \in 1 .. m /\ i - 1 \in 1 .. m /\ i \in 2 .. m BY <2>2, <3>1
      <4> QED BY <1>2, <2>6, <4>1 DEF m
    <3>2. CASE i = m + 1
      <4>1. i - 1 \in 1 .. m /\ i \in m + 1 .. m + n /\ 1 \in 1 .. n /\ m > 0 /\ n > 0
            /\ i - m = 1 /\ i - 1 = m
        BY <2>2, <3>2
      <4>2. made'[i - 1] = Last(made) /\ made'[i].bar = bars[1]
        <5>1. made'[i - 1] = made[m] /\ made'[i] = new[1] BY <2>6, <4>1
        <5> QED BY <2>5, <2>7, <2>8, <4>1, <5>1
      <4>3. EndsWith(state, Last(made).bar) BY <2>8, <4>1 DEF Linked
      <4>4. Joins(Last(made).bar, bars[1])
        <5>1. bars # <<>> BY <2>9, <4>1
        <5>2. \A old : EndsWith(state, old) => Joins(old, bars[1])
          BY <2>1, <5>1 DEF JoinsOn, bars
        <5> QED BY <4>3, <5>2
      <4> QED BY <4>2, <4>4
    <3>3. CASE i > m + 1
      <4>1. /\ i \in m + 1 .. m + n /\ i - 1 \in m + 1 .. m + n /\ i - m \in 2 .. n
            /\ i - m \in 1 .. n /\ (i - 1) - m \in 1 .. n /\ (i - 1) - m = (i - m) - 1
        BY <2>2, <3>3
      <4>2. made'[i].bar = bars[i - m] /\ made'[i - 1].bar = bars[(i - m) - 1]
        BY <2>5, <2>6, <4>1
      <4>3. \A j \in 2 .. n : Joins(bars[j - 1], bars[j]) BY <2>1 DEF JoinsOn, bars, n
      <4> QED BY <4>1, <4>2, <4>3
    <3> QED BY <2>2, <3>1, <3>2, <3>3
  <2>11. made' # <<>> => EndsWith(state', Last(made').bar)
    <3>1. CASE n = 0
      <4>1. m + n = m /\ new = <<>> BY <2>2, <2>5, <3>1
      <4>2. made' = made BY <1>1, <1>2, <4>1
      <4>3. bars = <<>> BY <2>9, <3>1
      <4>4. \A old : EndsWith(state, old) => EndsWith(after.s, old)
        BY <2>1, <4>3 DEF JoinsOn, bars
      <4> QED BY <1>1, <4>2, <4>4 DEF Linked
    <3>2. CASE n > 0
      <4>1. m + n \in m + 1 .. m + n /\ (m + n) - m = n /\ n \in 1 .. n BY <2>2, <3>2
      <4>2. Last(made') = made'[m + n] /\ made'[m + n].bar = bars[n]
        <5>1. Last(made') = made'[m + n] BY <2>6 DEF Last
        <5> QED BY <2>5, <2>6, <4>1, <5>1
      <4>3. bars # <<>> /\ Last(bars) = bars[n] BY <2>2, <2>9, <3>2 DEF Last, n
      <4>4. EndsWith(after.s, Last(bars)) BY <2>1, <4>3 DEF JoinsOn, bars
      <4> QED BY <1>1, <4>2, <4>3, <4>4
    <3> QED BY <2>2, <3>1, <3>2
  <2>12. made' # <<>> => EndsWith(state, Last(made).bar)' BY <1>1, <2>11 DEF EndsWith
  <2>13. \A i \in 2 .. Len(made') : Joins(made[i - 1].bar, made[i].bar)'
    BY <1>1, <2>6, <2>10 DEF Joins
  <2> QED BY <1>3, <2>6, <2>12, <2>13 DEF Linked, R
<1> QED BY <1>5, <1>6

LEMMA LinkedAlways == BarSpec => []Linked
<1>1. BarInit => Linked
  <2> SUFFICES ASSUME BarInit PROVE Linked
    OBVIOUS
  <2>1. made = <<>> BY DEF BarInit
  <2>2. <<>> \in Seq([bar : PriceBar, at : Nat]) /\ Len(<<>>) = 0 /\ 2 .. 0 = {} OBVIOUS
  <2> QED BY <2>1, <2>2 DEF Linked
<1>2. BarsFed /\ Stands /\ Linked /\ [BarNext]_barVars => Linked'
  <2> SUFFICES ASSUME BarsFed, Stands, Linked, [BarNext]_barVars PROVE Linked'
    OBVIOUS
  <2>1. ASSUME NEW c \in Candles(builder), BarUpdate(c) PROVE Linked'
    <3>1. CASE builder.kind \in PriceDriven
      BY <2>1, <3>1, LinkedByUpdate
    <3>2. CASE builder.kind \notin PriceDriven
      <4>1. builder' = builder BY <2>1 DEF BarUpdate
      <4> QED BY <3>2, <4>1 DEF Linked
    <3> QED BY <3>1, <3>2
  <2>2. ASSUME BarReset PROVE Linked'
    <3>1. made' = <<>> BY <2>2 DEF BarReset
    <3>2. <<>> \in Seq([bar : PriceBar, at : Nat]) /\ Len(<<>>) = 0 /\ 2 .. 0 = {} OBVIOUS
    <3> QED BY <3>1, <3>2 DEF Linked
  <2>3. ASSUME UNCHANGED barVars PROVE Linked'
    <3>1. builder' = builder /\ state' = state /\ seen' = seen /\ made' = made
      BY <2>3 DEF barVars
    <3> QED BY <3>1 DEF Linked, Joins, EndsWith
  <2> QED BY <2>1, <2>2, <2>3 DEF BarNext
<1> QED BY <1>1, <1>2, BarsFedAlways, StandsAlways, PTL DEF BarSpec

-----------------------------------------------------------------------------
(* Sums of a part. *)

\* The sum of the values m to n of a function.
Part(g, m, n) == [i \in 1 .. n - m + 1 |-> g[m + i - 1]]

LEMMA PartGrows ==
    ASSUME NEW m \in Nat, NEW n \in Nat, m <= n, NEW g, NEW h,
           \A i \in m .. n : h[i] \in Int, \A i \in m .. n - 1 : g[i] = h[i]
    PROVE  /\ Added(Part(g, m, n - 1)) \in Int
           /\ Added(Part(h, m, n)) = Added(Part(g, m, n - 1)) + h[n]
<1> DEFINE N == n - m
           q == Part(g, m, n - 1)
           r == Part(h, m, n)
<1>1. N \in Nat /\ (n - 1) - m + 1 = N /\ n - m + 1 = N + 1 /\ m + (N + 1) - 1 = n OBVIOUS
<1>2. /\ DOMAIN q = 1 .. N /\ DOMAIN r = 1 .. N + 1
      /\ \A i \in 1 .. N : q[i] = g[m + i - 1]
      /\ \A i \in 1 .. N + 1 : r[i] = h[m + i - 1]
  BY <1>1 DEF Part
<1>3. /\ \A i \in 1 .. N : m + i - 1 \in m .. n - 1 /\ m + i - 1 \in m .. n /\ i \in 1 .. N + 1
      /\ \A i \in 1 .. N + 1 : m + i - 1 \in m .. n
      /\ N + 1 \in 1 .. N + 1
  OBVIOUS
<1> HIDE DEF N, q, r
<1>4. /\ \A i \in 1 .. N : q[i] \in Int /\ r[i] = q[i]
      /\ \A i \in 1 .. N + 1 : r[i] \in Int
  BY <1>2, <1>3
<1>5. Added(q) \in Int /\ Added(r) = Added(q) + r[N + 1]
  <2>1. DOMAIN q = 1 .. N /\ DOMAIN r = 1 .. N + 1 /\ N \in Nat BY <1>1, <1>2
  <2>2. /\ \A i \in 1 .. N : q[i] \in Int
        /\ \A i \in 1 .. N : r[i] = q[i]
    BY <1>4
  <2>3. \A i \in 1 .. N + 1 : r[i] \in Int BY <1>4
  <2> QED BY <2>1, <2>2, <2>3, AddedGrows
<1>6. r[N + 1] = h[n] BY <1>1, <1>2, <1>3
<1> QED BY <1>5, <1>6 DEF q, r

LEMMA PartOfNone ==
    ASSUME NEW m \in Nat, NEW g
    PROVE  Added(Part(g, m, m - 1)) = 0
<1>1. 1 .. (m - 1) - m + 1 = {} OBVIOUS
<1>2. DOMAIN Part(g, m, m - 1) = {} BY <1>1 DEF Part
<1> QED BY <1>2, AddedOfNone

-----------------------------------------------------------------------------
(* Bars that collect candles: the state. *)

\* The fields of a builder that collects candles.
Collector(kind, threshold, count, open, high, low, close, volume, measure, prev, sign) ==
    [kind |-> kind, threshold |-> threshold, count |-> count, open |-> open, high |-> high,
     low |-> low, close |-> close, volume |-> volume, measure |-> measure, prev |-> prev,
     sign |-> sign]

ActivityState ==
    [kind : Activity, threshold : Nat \ {0}, count : Nat, open : Int, high : Int, low : Int,
     close : Int, volume : Int, measure : Int, prev : {<<>>} \cup One(Int), sign : {-1, 0, 1}]

LEMMA CollectorFields ==
    ASSUME NEW k, NEW t, NEW n, NEW o, NEW h, NEW l, NEW x, NEW v, NEW m, NEW p, NEW g,
           NEW s, s = Collector(k, t, n, o, h, l, x, v, m, p, g)
    PROVE  /\ s.kind = k /\ s.threshold = t /\ s.count = n /\ s.open = o /\ s.high = h /\ s.low = l
           /\ s.close = x /\ s.volume = v /\ s.measure = m /\ s.prev = p /\ s.sign = g
  BY DEF Collector

LEMMA StateIsCollector ==
    ASSUME NEW s \in ActivityState
    PROVE  s = Collector(s.kind, s.threshold, s.count, s.open, s.high, s.low, s.close, s.volume,
                         s.measure, s.prev, s.sign)
  BY DEF Collector, ActivityState

LEMMA GatherIs ==
    ASSUME NEW k, NEW t, NEW n, NEW o, NEW h, NEW l, NEW x, NEW v, NEW m, NEW p, NEW g, NEW c
    PROVE  Gather(Collector(k, t, n, o, h, l, x, v, m, p, g), c)
           = Collector(k, t, n + 1, IF n = 0 THEN c.open ELSE o,
                       IF n = 0 \/ c.high > h THEN c.high ELSE h,
                       IF n = 0 \/ c.low < l THEN c.low ELSE l, c.close,
                       IF n = 0 THEN c.volume ELSE v + c.volume, m, <<c.close>>, g)
<1> DEFINE s == Collector(k, t, n, o, h, l, x, v, m, p, g)
           o2 == IF n = 0 THEN c.open ELSE o
           h2 == IF n = 0 \/ c.high > h THEN c.high ELSE h
           l2 == IF n = 0 \/ c.low < l THEN c.low ELSE l
           v2 == IF n = 0 THEN c.volume ELSE v + c.volume
           n2 == n + 1
           p2 == <<c.close>>
           e1 == [s EXCEPT !.open = IF n = 0 THEN c.open ELSE @]
           e2 == [e1 EXCEPT !.high = IF n = 0 \/ c.high > @ THEN c.high ELSE @]
           e3 == [e2 EXCEPT !.low = IF n = 0 \/ c.low < @ THEN c.low ELSE @]
           e4 == [e3 EXCEPT !.close = c.close]
           e5 == [e4 EXCEPT !.volume = IF n = 0 THEN c.volume ELSE @ + c.volume]
           e6 == [e5 EXCEPT !.count = @ + 1]
           e7 == [e6 EXCEPT !.prev = <<c.close>>]
<1>0. s.count = n /\ s.open = o /\ s.high = h /\ s.low = l /\ s.volume = v
  BY CollectorFields
<1>1. Gather(s, c) = e7
  <2>1. s.count = n BY <1>0
  <2> HIDE DEF s
  <2> QED BY <2>1 DEF Gather
<1> HIDE DEF o2, h2, l2, v2, n2, p2
<1>2. e1 = Collector(k, t, n, o2, h, l, x, v, m, p, g)
  <2>1. e1 = [s EXCEPT !.open = o2] BY <1>0 DEF o2
  <2>2. s = [kind |-> k, threshold |-> t, count |-> n, open |-> o, high |-> h, low |-> l,
             close |-> x, volume |-> v, measure |-> m, prev |-> p, sign |-> g]
    BY DEF Collector
  <2> HIDE DEF s, e1
  <2> QED BY <2>1, <2>2 DEF Collector
<1> HIDE DEF s, e1
<1>3. e2 = Collector(k, t, n, o2, h2, l, x, v, m, p, g)
  <2>1. e1.high = h BY <1>2, CollectorFields
  <2>2. e2 = [e1 EXCEPT !.high = h2] BY <2>1 DEF h2
  <2> HIDE DEF e2
  <2> QED BY <1>2, <2>2 DEF Collector
<1> HIDE DEF e2
<1>4. e3 = Collector(k, t, n, o2, h2, l2, x, v, m, p, g)
  <2>1. e2.low = l BY <1>3, CollectorFields
  <2>2. e3 = [e2 EXCEPT !.low = l2] BY <2>1 DEF l2
  <2> HIDE DEF e3
  <2> QED BY <1>3, <2>2 DEF Collector
<1> HIDE DEF e3
<1>5. e4 = Collector(k, t, n, o2, h2, l2, c.close, v, m, p, g)
  <2> DEFINE d == c.close
  <2>1. e4 = [e3 EXCEPT !.close = d] OBVIOUS
  <2> HIDE DEF e4, d
  <2>2. e4 = Collector(k, t, n, o2, h2, l2, d, v, m, p, g) BY <1>4, <2>1 DEF Collector
  <2> QED BY <2>2 DEF d
<1> HIDE DEF e4
<1>6. e5 = Collector(k, t, n, o2, h2, l2, c.close, v2, m, p, g)
  <2> DEFINE d == c.close
  <2>1. e4.volume = v BY <1>5, CollectorFields
  <2>2. e5 = [e4 EXCEPT !.volume = v2] BY <2>1 DEF v2
  <2> HIDE DEF e5, d
  <2>3. e4 = Collector(k, t, n, o2, h2, l2, d, v, m, p, g) BY <1>5 DEF d
  <2>4. e5 = Collector(k, t, n, o2, h2, l2, d, v2, m, p, g) BY <2>2, <2>3 DEF Collector
  <2> QED BY <2>4 DEF d
<1> HIDE DEF e5
<1>7. e6 = Collector(k, t, n2, o2, h2, l2, c.close, v2, m, p, g)
  <2> DEFINE d == c.close
  <2>1. e5.count = n BY <1>6, CollectorFields
  <2>2. e6 = [e5 EXCEPT !.count = n2] BY <2>1 DEF n2
  <2> HIDE DEF e6, d
  <2>3. e5 = Collector(k, t, n, o2, h2, l2, d, v2, m, p, g) BY <1>6 DEF d
  <2>4. e6 = Collector(k, t, n2, o2, h2, l2, d, v2, m, p, g) BY <2>2, <2>3 DEF Collector
  <2> QED BY <2>4 DEF d
<1> HIDE DEF e6
<1>8. e7 = Collector(k, t, n2, o2, h2, l2, c.close, v2, m, p2, g)
  <2> DEFINE d == c.close
  <2>1. e7 = [e6 EXCEPT !.prev = p2] BY DEF p2
  <2> HIDE DEF e7, d
  <2>2. e6 = Collector(k, t, n2, o2, h2, l2, d, v2, m, p, g) BY <1>7 DEF d
  <2>3. e7 = Collector(k, t, n2, o2, h2, l2, d, v2, m, p2, g) BY <2>1, <2>2 DEF Collector
  <2> QED BY <2>3 DEF d
<1> QED BY <1>1, <1>8 DEF s, o2, h2, l2, v2, n2, p2

\* What the candle makes of the measure and of the side.
MeasureAfter(s, c) ==
    CASE s.kind = "tick" -> s.count + 1
      [] s.kind = "volume" -> s.measure + c.volume
      [] s.kind = "dollar" -> s.measure + c.close * c.volume
      [] s.kind = "imbalance" /\ s.prev # <<>> -> TickRule(s, c).theta
      [] s.kind = "run" /\ s.prev # <<>> -> RunRule(s, c).len
      [] OTHER -> s.measure
SignAfter(s, c) ==
    CASE s.kind = "imbalance" /\ s.prev # <<>> -> TickRule(s, c).sign
      [] s.kind = "run" /\ s.prev # <<>> -> RunRule(s, c).sign
      [] OTHER -> s.sign

LEMMA MeasuredIs ==
    ASSUME NEW s \in ActivityState, NEW c
    PROVE  Measured(s, c) = Collector(s.kind, s.threshold, s.count, s.open, s.high, s.low, s.close,
                                      s.volume, MeasureAfter(s, c), s.prev, SignAfter(s, c))
<1> DEFINE of(y, z) == Collector(s.kind, s.threshold, s.count, s.open, s.high, s.low, s.close,
                                 s.volume, y, s.prev, z)
<1>1. s = of(s.measure, s.sign) BY StateIsCollector
<1>2. ASSUME NEW y, NEW z
      PROVE  /\ [s EXCEPT !.measure = y] = of(y, s.sign)
             /\ [s EXCEPT !.sign = z, !.measure = y] = of(y, z)
  <2>1. PICK k, t, n, o, h, l, x, v, p : k = s.kind /\ t = s.threshold
            /\ n = s.count /\ o = s.open /\ h = s.high /\ l = s.low /\ x = s.close
            /\ v = s.volume /\ p = s.prev
    OBVIOUS
  <2>2. PICK m, g : m = s.measure /\ g = s.sign OBVIOUS
  <2>3. s = Collector(k, t, n, o, h, l, x, v, m, p, g) BY <1>1, <2>1, <2>2
  <2>4. /\ [s EXCEPT !.measure = y] = Collector(k, t, n, o, h, l, x, v, y, p, g)
        /\ [s EXCEPT !.sign = z, !.measure = y] = Collector(k, t, n, o, h, l, x, v, y, p, z)
    <3>1. [s EXCEPT !.measure = y] = Collector(k, t, n, o, h, l, x, v, y, p, g)
      BY ONLY <2>3 DEF Collector
    <3> DEFINE e == [s EXCEPT !.sign = z]
    <3>2. e = Collector(k, t, n, o, h, l, x, v, m, p, z) BY ONLY <2>3 DEF Collector
    <3>3. [s EXCEPT !.sign = z, !.measure = y] = [e EXCEPT !.measure = y] OBVIOUS
    <3> HIDE DEF e
    <3>4. [e EXCEPT !.measure = y] = Collector(k, t, n, o, h, l, x, v, y, p, z)
      BY ONLY <3>2 DEF Collector
    <3> QED BY <3>1, <3>3, <3>4
  <2> QED BY <2>1, <2>2, <2>4
<1> HIDE DEF of
<1>3. CASE s.kind = "tick"
  <2>1. Measured(s, c) = [s EXCEPT !.measure = s.count + 1] BY <1>3 DEF Measured
  <2>2. MeasureAfter(s, c) = s.count + 1 /\ SignAfter(s, c) = s.sign
    BY <1>3 DEF MeasureAfter, SignAfter
  <2> QED BY <1>2, <2>1, <2>2 DEF of
<1>4. CASE s.kind = "volume"
  <2>1. Measured(s, c) = [s EXCEPT !.measure = s.measure + c.volume] BY <1>4 DEF Measured
  <2>2. MeasureAfter(s, c) = s.measure + c.volume /\ SignAfter(s, c) = s.sign
    BY <1>4 DEF MeasureAfter, SignAfter
  <2> QED BY <1>2, <2>1, <2>2 DEF of
<1>5. CASE s.kind = "dollar"
  <2>1. Measured(s, c) = [s EXCEPT !.measure = s.measure + c.close * c.volume]
    BY <1>5 DEF Measured
  <2>2. MeasureAfter(s, c) = s.measure + c.close * c.volume /\ SignAfter(s, c) = s.sign
    BY <1>5 DEF MeasureAfter, SignAfter
  <2> QED BY <1>2, <2>1, <2>2 DEF of
<1>6. CASE s.kind = "imbalance" /\ s.prev # <<>>
  <2>1. Measured(s, c) = [s EXCEPT !.sign = TickRule(s, c).sign, !.measure = TickRule(s, c).theta]
    BY <1>6 DEF Measured
  <2>2. MeasureAfter(s, c) = TickRule(s, c).theta /\ SignAfter(s, c) = TickRule(s, c).sign
    BY <1>6 DEF MeasureAfter, SignAfter
  <2> QED BY <1>2, <2>1, <2>2 DEF of
<1>7. CASE s.kind = "run" /\ s.prev # <<>>
  <2>1. Measured(s, c) = [s EXCEPT !.sign = RunRule(s, c).sign, !.measure = RunRule(s, c).len]
    BY <1>7 DEF Measured
  <2>2. MeasureAfter(s, c) = RunRule(s, c).len /\ SignAfter(s, c) = RunRule(s, c).sign
    BY <1>7 DEF MeasureAfter, SignAfter
  <2> QED BY <1>2, <2>1, <2>2 DEF of
<1>8. CASE s.kind \in {"imbalance", "run"} /\ s.prev = <<>>
  <2>1. Measured(s, c) = s BY <1>8 DEF Measured
  <2>2. MeasureAfter(s, c) = s.measure /\ SignAfter(s, c) = s.sign
    BY <1>8 DEF MeasureAfter, SignAfter
  <2> QED BY <1>1, <2>1, <2>2 DEF of
<1>9. s.kind \in {"tick", "volume", "dollar", "imbalance", "run"}
  BY DEF ActivityState, Activity
<1> QED BY <1>3, <1>4, <1>5, <1>6, <1>7, <1>8, <1>9

LEMMA Changes ==
    ASSUME NEW a \in Int, NEW b \in Int
    PROVE  Change(a, b) \in {-1, 0, 1}
  BY DEF Change

LEMMA AfterTypes ==
    ASSUME NEW s \in ActivityState, NEW c, Priced(c)
    PROVE  MeasureAfter(s, c) \in Int /\ SignAfter(s, c) \in {-1, 0, 1}
<1>1. /\ s.count \in Nat /\ s.measure \in Int /\ s.sign \in {-1, 0, 1} /\ c.volume \in Int
      /\ c.close \in Int /\ s.prev \in {<<>>} \cup One(Int)
      /\ s.kind \in {"tick", "volume", "dollar", "imbalance", "run"}
  BY DEF ActivityState, Priced, Activity
<1> DEFINE worth == c.close * c.volume
<1>2. worth \in Int BY <1>1
<1>3. s.prev # <<>> => s.prev[1] \in Int BY <1>1 DEF One
<1>4. s.prev # <<>> => Change(s.prev[1], c.close) \in {-1, 0, 1} BY <1>1, <1>3, Changes
<1> HIDE DEF worth
<1>5. CASE s.kind \in {"tick", "volume", "dollar"}
  <2>1. SignAfter(s, c) = s.sign BY <1>5 DEF SignAfter
  <2>2. MeasureAfter(s, c) \in {s.count + 1, s.measure + c.volume, s.measure + worth}
    BY <1>5 DEF MeasureAfter, worth
  <2> QED BY <1>1, <1>2, <2>1, <2>2
<1>6. CASE s.kind \in {"imbalance", "run"} /\ s.prev = <<>>
  <2>1. MeasureAfter(s, c) = s.measure /\ SignAfter(s, c) = s.sign
    BY <1>6 DEF MeasureAfter, SignAfter
  <2> QED BY <1>1, <2>1
<1>7. CASE s.kind = "imbalance" /\ s.prev # <<>>
  <2>1. MeasureAfter(s, c) = TickRule(s, c).theta /\ SignAfter(s, c) = TickRule(s, c).sign
    BY <1>7 DEF MeasureAfter, SignAfter
  <2>2. Change(s.prev[1], c.close) \in {-1, 0, 1} BY <1>4, <1>7
  <2> QED BY <1>1, <2>1, <2>2 DEF TickRule
<1>8. CASE s.kind = "run" /\ s.prev # <<>>
  <2>1. MeasureAfter(s, c) = RunRule(s, c).len /\ SignAfter(s, c) = RunRule(s, c).sign
    BY <1>8 DEF MeasureAfter, SignAfter
  <2>2. Change(s.prev[1], c.close) \in {-1, 0, 1} BY <1>4, <1>8
  <2> DEFINE d == Change(s.prev[1], c.close)
  <2>3. CASE d = 0 \/ d = s.sign
    <3>1. RunRule(s, c) = [sign |-> s.sign, len |-> IF s.sign = 0 THEN 0 ELSE s.measure + 1]
      BY <2>3 DEF RunRule
    <3> QED BY <1>1, <2>1, <3>1
  <2>4. CASE ~(d = 0 \/ d = s.sign)
    <3>1. RunRule(s, c) = [sign |-> d, len |-> 1] BY <2>4 DEF RunRule
    <3> HIDE DEF d
    <3> QED BY <2>1, <2>2, <3>1 DEF d
  <2> QED BY <2>3, <2>4
<1> QED BY <1>1, <1>5, <1>6, <1>7, <1>8

\* The state with the candle in the open bar, field by field.
LEMMA Gathers ==
    ASSUME NEW s \in ActivityState, NEW c, Priced(c), NEW g, g = Gather(Measured(s, c), c)
    PROVE  /\ g \in ActivityState /\ g.kind = s.kind /\ g.threshold = s.threshold
           /\ g.count = s.count + 1
           /\ g.open = IF s.count = 0 THEN c.open ELSE s.open
           /\ g.high = IF s.count = 0 \/ c.high > s.high THEN c.high ELSE s.high
           /\ g.low = IF s.count = 0 \/ c.low < s.low THEN c.low ELSE s.low
           /\ g.close = c.close
           /\ g.volume = IF s.count = 0 THEN c.volume ELSE s.volume + c.volume
           /\ g.measure = MeasureAfter(s, c) /\ g.prev = <<c.close>> /\ g.sign = SignAfter(s, c)
<1> DEFINE n == s.count
           o == s.open
           h == s.high
           l == s.low
           v == s.volume
           m == MeasureAfter(s, c)
           z == SignAfter(s, c)
           o2 == IF n = 0 THEN c.open ELSE o
           h2 == IF n = 0 \/ c.high > h THEN c.high ELSE h
           l2 == IF n = 0 \/ c.low < l THEN c.low ELSE l
           v2 == IF n = 0 THEN c.volume ELSE v + c.volume
           p2 == <<c.close>>
<1>1. /\ s.kind \in Activity /\ s.threshold \in Nat \ {0} /\ n \in Nat /\ o \in Int /\ h \in Int
      /\ l \in Int /\ v \in Int /\ c.open \in Int /\ c.high \in Int /\ c.low \in Int
      /\ c.close \in Int /\ c.volume \in Int /\ m \in Int /\ z \in {-1, 0, 1}
  BY AfterTypes DEF ActivityState, Priced
<1>2. g = Collector(s.kind, s.threshold, n + 1, o2, h2, l2, c.close, v2, m, p2, z)
  BY MeasuredIs, GatherIs
<1>3. o2 \in Int /\ h2 \in Int /\ l2 \in Int /\ v2 \in Int /\ p2 \in One(Int)
  BY <1>1 DEF One
<1> HIDE DEF n, o, h, l, v, m, z, o2, h2, l2, v2, p2
<1>4. g \in ActivityState
  <2>1. n + 1 \in Nat /\ p2 \in {<<>>} \cup One(Int) BY <1>1, <1>3
  <2> QED BY <1>1, <1>2, <1>3, <2>1 DEF Collector, ActivityState
<1>5. /\ g.kind = s.kind /\ g.threshold = s.threshold /\ g.count = n + 1 /\ g.open = o2
      /\ g.high = h2 /\ g.low = l2 /\ g.close = c.close /\ g.volume = v2 /\ g.measure = m
      /\ g.prev = p2 /\ g.sign = z
  BY <1>2, CollectorFields
<1> QED BY <1>4, <1>5 DEF n, o, h, l, v, m, z, o2, h2, l2, v2, p2

\* The state behind a completed bar.
LEMMA Completes ==
    ASSUME NEW s \in ActivityState, NEW t, t = Completed(s)
    PROVE  /\ t \in ActivityState /\ t.kind = s.kind /\ t.threshold = s.threshold
           /\ t.count = 0 /\ t.measure = 0 /\ t.prev = s.prev
           /\ t.sign = IF s.kind = "run" THEN 0 ELSE s.sign
<1>1. PICK none : none = 0 OBVIOUS
<1> DEFINE z == IF s.kind = "run" THEN none ELSE s.sign
           e1 == [s EXCEPT !.count = none]
           e2 == [e1 EXCEPT !.measure = none]
           e3 == [e2 EXCEPT !.sign = z]
           of(n, m, g) == Collector(s.kind, s.threshold, n, s.open, s.high, s.low, s.close,
                                    s.volume, m, s.prev, g)
<1>2. t = [[[s EXCEPT !.count = 0] EXCEPT !.measure = 0]
              EXCEPT !.sign = IF s.kind = "run" THEN 0 ELSE @]
  BY DEF Completed
<1>3. s = of(s.count, s.measure, s.sign) BY StateIsCollector
<1>4. e1 = of(none, s.measure, s.sign)
  <2>1. e1 = [s EXCEPT !.count = none] OBVIOUS
  <2> HIDE DEF e1
  <2> QED BY ONLY <1>3, <2>1 DEF Collector
<1> HIDE DEF e1
<1>5. e2 = of(none, none, s.sign)
  <2>1. e2 = [e1 EXCEPT !.measure = none] OBVIOUS
  <2> HIDE DEF e2
  <2> QED BY ONLY <1>4, <2>1 DEF Collector
<1> HIDE DEF e2
<1>6. e3 = of(none, none, z)
  <2>1. e3 = [e2 EXCEPT !.sign = z] OBVIOUS
  <2> HIDE DEF e3, z
  <2> QED BY ONLY <1>5, <2>1 DEF Collector
<1>7. e2.sign = s.sign BY <1>5, CollectorFields
<1>8. t = e3 BY <1>1, <1>2, <1>7 DEF e1, e2
<1> HIDE DEF e3, of
<1>9. t = of(0, 0, z) BY <1>1, <1>6, <1>8
<1>10. z = IF s.kind = "run" THEN 0 ELSE s.sign BY <1>1
<1> HIDE DEF z
<1>11. /\ t.kind = s.kind /\ t.threshold = s.threshold /\ t.count = 0 /\ t.measure = 0
       /\ t.prev = s.prev /\ t.sign = z
  BY <1>9, CollectorFields DEF of
<1>12. t \in ActivityState
  <2>1. /\ s.kind \in Activity /\ s.threshold \in Nat \ {0} /\ s.open \in Int /\ s.high \in Int
        /\ s.low \in Int /\ s.close \in Int /\ s.volume \in Int
        /\ s.prev \in {<<>>} \cup One(Int) /\ s.sign \in {-1, 0, 1}
    BY DEF ActivityState
  <2>2. z \in {-1, 0, 1} BY <1>10, <2>1
  <2> QED BY <1>9, <2>1, <2>2 DEF of, Collector, ActivityState
<1> QED BY <1>10, <1>11, <1>12

-----------------------------------------------------------------------------
(* Bars that collect candles: what is read off the candles. *)

\* Changes, sides and runs, of a sequence of candles.
MovesIn(q, n) == {i \in 2 .. n : q[i].close # q[i - 1].close}
SideIn(q, n) == IF MovesIn(q, n) = {} THEN 0
                ELSE Change(q[Max(MovesIn(q, n)) - 1].close, q[Max(MovesIn(q, n))].close)
RunIn(q, k, m, n) ==
    /\ k \in MovesIn(q, n) /\ k >= m
    /\ \A i \in k .. n : Change(q[i - 1].close, q[i].close) \in {0, SideIn(q, k)}
RunsIn(q, m, n) == {k \in m .. n : RunIn(q, k, m, n)}

ClosesUpTo(q, n) == \A i \in 1 .. n : q[i].close \in Int

LEMMA ChangeIsNone ==
    ASSUME NEW a \in Int, NEW b \in Int
    PROVE  Change(a, b) = 0 <=> b = a
  BY DEF Change

\* The last change is the one whose side it is.
LEMMA SideOfLast ==
    ASSUME NEW n \in Nat, NEW q, ClosesUpTo(q, n), NEW x \in MovesIn(q, n),
           \A y \in MovesIn(q, n) : y <= x
    PROVE  SideIn(q, n) = Change(q[x - 1].close, q[x].close) /\ SideIn(q, n) \in {-1, 1}
<1>1. x \in 2 .. n /\ q[x].close # q[x - 1].close /\ q[x].close \in Int /\ q[x - 1].close \in Int
  BY DEF MovesIn, ClosesUpTo
<1>2. MovesIn(q, n) \in SUBSET Int BY DEF MovesIn
<1>3. Max(MovesIn(q, n)) = x BY <1>2, MaxIs
<1>4. SideIn(q, n) = Change(q[x - 1].close, q[x].close) BY <1>3 DEF SideIn
<1>5. Change(q[x - 1].close, q[x].close) \in {-1, 0, 1} \ {0} BY <1>1, Changes, ChangeIsNone
<1> QED BY <1>4, <1>5

LEMMA LastMove ==
    ASSUME NEW n \in Nat, NEW q, MovesIn(q, n) # {}
    PROVE  \E x \in MovesIn(q, n) : \A y \in MovesIn(q, n) : y <= x
<1>1. /\ MovesIn(q, n) \in SUBSET Int
      /\ \A x \in MovesIn(q, n) : x <= n
  BY DEF MovesIn
<1>2. n \in Int OBVIOUS
<1> QED BY <1>1, <1>2, MaxOf

LEMMA SideSteps ==
    ASSUME NEW n \in Nat \ {0}, NEW q, ClosesUpTo(q, n + 1)
    PROVE  LET d == Change(q[n].close, q[n + 1].close)
           IN  /\ d \in {-1, 0, 1} /\ SideIn(q, n) \in {-1, 0, 1}
               /\ d = 0 => MovesIn(q, n + 1) = MovesIn(q, n) /\ SideIn(q, n + 1) = SideIn(q, n)
               /\ d # 0 => MovesIn(q, n + 1) = MovesIn(q, n) \cup {n + 1} /\ SideIn(q, n + 1) = d
<1> DEFINE d == Change(q[n].close, q[n + 1].close)
<1>1. q[n].close \in Int /\ q[n + 1].close \in Int /\ ClosesUpTo(q, n) BY DEF ClosesUpTo
<1>2. d \in {-1, 0, 1} /\ (d = 0 <=> q[n + 1].close = q[n].close)
  BY <1>1, Changes, ChangeIsNone
<1>3. SideIn(q, n) \in {-1, 0, 1}
  <2>1. CASE MovesIn(q, n) = {}
    BY <2>1 DEF SideIn
  <2>2. CASE MovesIn(q, n) # {}
    BY <1>1, <2>2, LastMove, SideOfLast
  <2> QED BY <2>1, <2>2
<1> HIDE DEF d
<1>4. (n + 1) - 1 = n /\ n \in Nat /\ n + 1 \in Nat /\ n + 1 \in 2 .. n + 1
      /\ 2 .. n + 1 = (2 .. n) \cup {n + 1}
  OBVIOUS
<1>5. ASSUME d = 0
      PROVE  MovesIn(q, n + 1) = MovesIn(q, n) /\ SideIn(q, n + 1) = SideIn(q, n)
  <2>1. MovesIn(q, n + 1) = MovesIn(q, n) BY <1>2, <1>4, <1>5 DEF MovesIn
  <2> QED BY <2>1 DEF SideIn
<1>6. ASSUME d # 0
      PROVE  MovesIn(q, n + 1) = MovesIn(q, n) \cup {n + 1} /\ SideIn(q, n + 1) = d
  <2>1. MovesIn(q, n + 1) = MovesIn(q, n) \cup {n + 1} BY <1>2, <1>4, <1>6 DEF MovesIn
  <2>2. \A y \in MovesIn(q, n + 1) : y <= n + 1 BY DEF MovesIn
  <2>3. n + 1 \in MovesIn(q, n + 1) BY <2>1
  <2>4. SideIn(q, n + 1) = Change(q[(n + 1) - 1].close, q[n + 1].close)
    BY <1>4, <2>2, <2>3, SideOfLast
  <2> QED BY <1>4, <2>1, <2>4 DEF d
<1> QED BY <1>2, <1>3, <1>5, <1>6 DEF d

LEMMA SideOfFirst ==
    ASSUME NEW q
    PROVE  MovesIn(q, 1) = {} /\ SideIn(q, 1) = 0 /\ \A m : RunsIn(q, m, 1) = {}
<1>1. MovesIn(q, 1) = {} BY DEF MovesIn
<1>2. SideIn(q, 1) = 0 BY <1>1 DEF SideIn
<1>3. ASSUME NEW m PROVE RunsIn(q, m, 1) = {} BY <1>1 DEF RunsIn, RunIn
<1> QED BY <1>1, <1>2, <1>3

\* A sequence that begins alike has the same changes, sides and runs.
LEMMA SameBeginning ==
    ASSUME NEW q, NEW r, NEW n \in Nat, \A i \in 1 .. n : r[i] = q[i]
    PROVE  /\ MovesIn(r, n) = MovesIn(q, n) /\ SideIn(r, n) = SideIn(q, n)
           /\ \A m \in Nat \ {0} : RunsIn(r, m, n) = RunsIn(q, m, n)
<1>1. ASSUME NEW k \in 0 .. n PROVE MovesIn(r, k) = MovesIn(q, k) /\ SideIn(r, k) = SideIn(q, k)
  <2>1. \A i \in 2 .. k : r[i] = q[i] /\ r[i - 1] = q[i - 1]
    <3> SUFFICES ASSUME NEW i \in 2 .. k PROVE r[i] = q[i] /\ r[i - 1] = q[i - 1]
      OBVIOUS
    <3>1. i \in 1 .. n /\ i - 1 \in 1 .. n OBVIOUS
    <3> QED BY <3>1
  <2>2. MovesIn(r, k) = MovesIn(q, k) BY <2>1 DEF MovesIn
  <2>3. CASE MovesIn(q, k) = {}
    BY <2>2, <2>3 DEF SideIn
  <2>4. CASE MovesIn(q, k) # {}
    <3> DEFINE x == Max(MovesIn(q, k))
    <3>1. x \in MovesIn(q, k)
      <4>1. MovesIn(q, k) \in SUBSET Int /\ k \in Int /\ \A y \in MovesIn(q, k) : y <= k
        BY DEF MovesIn
      <4> QED BY <2>4, <4>1, MaxOf
    <3>2. r[x] = q[x] /\ r[x - 1] = q[x - 1] BY <2>1, <3>1 DEF MovesIn
    <3> QED BY <2>2, <2>4, <3>2 DEF SideIn
  <2> QED BY <2>2, <2>3, <2>4
<1>2. MovesIn(r, n) = MovesIn(q, n) /\ SideIn(r, n) = SideIn(q, n) BY <1>1
<1>3. ASSUME NEW m \in Nat \ {0} PROVE RunsIn(r, m, n) = RunsIn(q, m, n)
  <2>1. ASSUME NEW k \in m .. n PROVE RunIn(r, k, m, n) <=> RunIn(q, k, m, n)
    <3>1. CASE k = 1
      <4>1. ~(k \in MovesIn(q, n)) /\ ~(k \in MovesIn(r, n)) BY <3>1 DEF MovesIn
      <4> QED BY <4>1 DEF RunIn
    <3>2. CASE k # 1
      <4>1. k \in 0 .. n /\ k \in 2 .. n BY <3>2
      <4>2. SideIn(r, k) = SideIn(q, k) /\ MovesIn(r, n) = MovesIn(q, n) BY <1>1, <1>2, <4>1
      <4>3. \A i \in k .. n : i \in 1 .. n /\ i - 1 \in 1 .. n BY <4>1
      <4>4. \A i \in k .. n : Change(r[i - 1].close, r[i].close) = Change(q[i - 1].close, q[i].close)
        BY <4>3
      <4> QED BY <4>2, <4>4 DEF RunIn
    <3> QED BY <3>1, <3>2
  <2> QED BY <2>1 DEF RunsIn
<1> QED BY <1>2, <1>3

\* A run is to the side of the last change.
LEMMA RunsToOneSide ==
    ASSUME NEW n \in Nat \ {0}, NEW q, ClosesUpTo(q, n), NEW m \in Nat \ {0}, NEW k \in RunsIn(q, m, n)
    PROVE  SideIn(q, k) = SideIn(q, n) /\ SideIn(q, n) \in {-1, 1} /\ k \in 2 .. n
<1>1. /\ k \in m .. n /\ k \in MovesIn(q, n)
      /\ \A i \in k .. n : Change(q[i - 1].close, q[i].close) \in {0, SideIn(q, k)}
  BY DEF RunsIn, RunIn
<1>2. k \in 2 .. n BY <1>1 DEF MovesIn
<1>3. PICK x \in MovesIn(q, n) : \A y \in MovesIn(q, n) : y <= x BY <1>1, LastMove
<1>4. SideIn(q, n) = Change(q[x - 1].close, q[x].close) /\ SideIn(q, n) \in {-1, 1}
  BY <1>3, SideOfLast
<1>5. x \in k .. n
  <2>1. k <= x BY <1>1, <1>3
  <2> QED BY <1>2, <2>1 DEF MovesIn
<1>6. SideIn(q, n) \in {0, SideIn(q, k)} BY <1>1, <1>4, <1>5
<1> QED BY <1>2, <1>4, <1>6

\* What the next candle does to the runs.
LEMMA RunsStep ==
    ASSUME NEW n \in Nat \ {0}, NEW q, ClosesUpTo(q, n + 1), NEW m \in Nat \ {0}, m <= n + 1
    PROVE  LET d == Change(q[n].close, q[n + 1].close)
           IN  /\ d = 0 => RunsIn(q, m, n + 1) = RunsIn(q, m, n)
               /\ d # 0 => RunsIn(q, m, n + 1)
                              = (IF d = SideIn(q, n) THEN RunsIn(q, m, n) ELSE {}) \cup {n + 1}
<1> DEFINE d == Change(q[n].close, q[n + 1].close)
<1>1. /\ d \in {-1, 0, 1}
      /\ d = 0 => MovesIn(q, n + 1) = MovesIn(q, n)
      /\ d # 0 => MovesIn(q, n + 1) = MovesIn(q, n) \cup {n + 1} /\ SideIn(q, n + 1) = d
  BY SideSteps
<1>2. ClosesUpTo(q, n) /\ (n + 1) - 1 = n BY DEF ClosesUpTo
<1>3. d = Change(q[(n + 1) - 1].close, q[n + 1].close) BY <1>2
<1> HIDE DEF d
<1>4. ASSUME NEW k \in m .. n
      PROVE  RunIn(q, k, m, n + 1) <=> RunIn(q, k, m, n) /\ d \in {0, SideIn(q, k)}
  <2>1. k \in MovesIn(q, n + 1) <=> k \in MovesIn(q, n) BY <1>1
  <2>2. k .. n + 1 = (k .. n) \cup {n + 1} OBVIOUS
  <2> QED BY <1>3, <2>1, <2>2 DEF RunIn
<1>5. RunIn(q, n + 1, m, n + 1) <=> d # 0
  <2>1. n + 1 \in MovesIn(q, n + 1) <=> d # 0
    <3>1. ~(n + 1 \in MovesIn(q, n)) BY DEF MovesIn
    <3> QED BY <1>1, <3>1
  <2>2. n + 1 .. n + 1 = {n + 1} OBVIOUS
  <2>3. d # 0 => SideIn(q, n + 1) = d BY <1>1
  <2> QED BY <1>3, <2>1, <2>2, <2>3 DEF RunIn
<1>6. m .. n + 1 = (m .. n) \cup {n + 1} OBVIOUS
<1>7. ASSUME NEW k \in m .. n, RunIn(q, k, m, n)
      PROVE  SideIn(q, k) = SideIn(q, n)
  <2>1. k \in RunsIn(q, m, n) BY <1>7 DEF RunsIn
  <2> QED BY <1>2, <2>1, RunsToOneSide
<1>8. d = 0 => RunsIn(q, m, n + 1) = RunsIn(q, m, n) BY <1>4, <1>5, <1>6 DEF RunsIn
<1>9. ASSUME d # 0, d = SideIn(q, n)
      PROVE  RunsIn(q, m, n + 1) = RunsIn(q, m, n) \cup {n + 1}
  BY <1>4, <1>5, <1>6, <1>7, <1>9 DEF RunsIn
<1>10. ASSUME d # 0, d # SideIn(q, n)
       PROVE  RunsIn(q, m, n + 1) = {n + 1}
  <2>1. ASSUME NEW k \in m .. n PROVE ~RunIn(q, k, m, n + 1) BY <1>4, <1>7, <1>10
  <2>2. RunIn(q, n + 1, m, n + 1) BY <1>5, <1>10
  <2> QED BY <1>6, <2>1, <2>2 DEF RunsIn
<1>11. d # 0 => RunsIn(q, m, n + 1)
                   = (IF d = SideIn(q, n) THEN RunsIn(q, m, n) ELSE {}) \cup {n + 1}
  BY <1>9, <1>10
<1> QED BY <1>8, <1>11 DEF d

\* What a run builder knows of the runs: where the longest began, and its side.
RunMarked(q, m, n, sign, len) ==
    \/ len = 0 /\ sign = 0 /\ RunsIn(q, m, n) = {}
    \/ /\ len \in Nat \ {0} /\ sign = SideIn(q, n) /\ sign # 0
       /\ n - len + 1 \in RunsIn(q, m, n)
       /\ \A k \in RunsIn(q, m, n) : n - len + 1 <= k

LEMMA RunMarkSteps ==
    ASSUME NEW n \in Nat \ {0}, NEW q, ClosesUpTo(q, n + 1), NEW m \in Nat \ {0}, m <= n + 1,
           NEW s, RunMarked(q, m, n, s.sign, s.measure), s.prev[1] = q[n].close,
           NEW c, c.close = q[n + 1].close
    PROVE  RunMarked(q, m, n + 1, RunRule(s, c).sign, RunRule(s, c).len)
<1> DEFINE d == Change(s.prev[1], c.close)
           side == SideIn(q, n)
           runs == RunsIn(q, m, n)
           next == RunsIn(q, m, n + 1)
<1>1. /\ d \in {-1, 0, 1}
      /\ d = 0 => next = runs /\ SideIn(q, n + 1) = side
      /\ d # 0 => next = (IF d = side THEN runs ELSE {}) \cup {n + 1} /\ SideIn(q, n + 1) = d
  BY SideSteps, RunsStep
<1>2. \A k \in runs \cup next : k \in Int /\ k <= n + 1 BY DEF RunsIn
<1>3. RunRule(s, c) = IF d = 0 \/ d = s.sign
                      THEN [sign |-> s.sign, len |-> IF s.sign = 0 THEN 0 ELSE s.measure + 1]
                      ELSE [sign |-> d, len |-> 1]
  BY DEF RunRule
<1>4. \/ s.measure = 0 /\ s.sign = 0 /\ runs = {}
      \/ /\ s.measure \in Nat \ {0} /\ s.sign = side /\ s.sign # 0
         /\ n - s.measure + 1 \in runs /\ \A k \in runs : n - s.measure + 1 <= k
  BY DEF RunMarked
<1>5. ASSUME RunRule(s, c).len = 1, RunRule(s, c).sign = d, d # 0, next = {n + 1}
      PROVE  RunMarked(q, m, n + 1, RunRule(s, c).sign, RunRule(s, c).len)
  <2>1. (n + 1) - 1 + 1 = n + 1 /\ SideIn(q, n + 1) = d BY <1>1, <1>5
  <2> QED BY <1>5, <2>1 DEF RunMarked
<1> HIDE DEF d, side, runs
<1>6. CASE s.measure = 0 /\ s.sign = 0 /\ runs = {}
  <2>1. CASE d = 0
    <3>1. RunRule(s, c).sign = 0 /\ RunRule(s, c).len = 0 BY <1>3, <1>6, <2>1
    <3>2. next = {} BY <1>1, <1>6, <2>1
    <3> QED BY <3>1, <3>2 DEF RunMarked
  <2>2. CASE d # 0
    <3>1. RunRule(s, c) = [sign |-> d, len |-> 1] BY <1>3, <1>6, <2>2
    <3>2. next = {n + 1} BY <1>1, <1>6, <2>2
    <3> QED BY <1>5, <2>2, <3>1, <3>2
  <2> QED BY <2>1, <2>2
<1>7. CASE /\ s.measure \in Nat \ {0} /\ s.sign = side /\ s.sign # 0
           /\ n - s.measure + 1 \in runs /\ \A k \in runs : n - s.measure + 1 <= k
  <2>1. CASE d = 0 \/ d = s.sign
    <3>1. RunRule(s, c).sign = s.sign /\ RunRule(s, c).len = s.measure + 1
      BY <1>3, <1>7, <2>1
    <3>2. SideIn(q, n + 1) = s.sign BY <1>1, <1>7, <2>1
    <3>3. next = runs \/ next = runs \cup {n + 1} BY <1>1, <1>7, <2>1
    <3>4. (n + 1) - (s.measure + 1) + 1 = n - s.measure + 1 /\ s.measure + 1 \in Nat \ {0}
          /\ n - s.measure + 1 <= n + 1
      BY <1>7
    <3>5. n - s.measure + 1 \in next /\ \A k \in next : n - s.measure + 1 <= k
      BY <1>7, <3>3, <3>4
    <3> QED BY <1>7, <3>1, <3>2, <3>4, <3>5 DEF RunMarked
  <2>2. CASE ~(d = 0 \/ d = s.sign)
    <3>1. RunRule(s, c) = [sign |-> d, len |-> 1] BY <1>3, <2>2
    <3>2. next = {n + 1} BY <1>1, <1>7, <2>2
    <3> QED BY <1>5, <2>2, <3>1, <3>2
  <2> QED BY <2>1, <2>2
<1> QED BY <1>4, <1>6, <1>7

\* The longest run, as a builder knows it.
LEMMA LongestRun ==
    ASSUME NEW n \in Nat, NEW m \in Nat \ {0}, NEW q, NEW sign, NEW len, RunMarked(q, m, n, sign, len)
    PROVE  Max({0} \cup {n - k + 1 : k \in RunsIn(q, m, n)}) = len
<1> DEFINE S == {0} \cup {n - k + 1 : k \in RunsIn(q, m, n)}
<1>1. \A k \in RunsIn(q, m, n) : k \in Int /\ k <= n BY DEF RunsIn
<1>2. S \in SUBSET Int BY <1>1
<1>3. CASE len = 0 /\ RunsIn(q, m, n) = {}
  BY <1>2, <1>3, MaxIs
<1>4. CASE /\ len \in Nat \ {0} /\ n - len + 1 \in RunsIn(q, m, n)
           /\ \A k \in RunsIn(q, m, n) : n - len + 1 <= k
  <2>1. n - (n - len + 1) + 1 = len BY <1>4
  <2>2. len \in S BY <1>4, <2>1
  <2>3. \A x \in S : x <= len BY <1>1, <1>4
  <2> QED BY <1>2, <2>2, <2>3, MaxIs
<1> QED BY <1>3, <1>4 DEF RunMarked

\* What the candles of a sequence bring.
VolumesOf(q) == [i \in Nat |-> q[i].volume]
WorthsOf(q) == [i \in Nat |-> q[i].close * q[i].volume]
SidesOf(q) == [i \in Nat |-> SideIn(q, i)]

VolumeIn(q, m, n) == Added(Part(VolumesOf(q), m, n))
WorthIn(q, m, n) == Added(Part(WorthsOf(q), m, n))
ThetaIn(q, m, n) == Added(Part(SidesOf(q), m, n))

MeasureIn(kind, q, m, n) ==
    CASE kind = "tick" -> n - m + 1
      [] kind = "volume" -> VolumeIn(q, m, n)
      [] kind = "dollar" -> WorthIn(q, m, n)
      [] kind = "imbalance" -> Distance(ThetaIn(q, m, n), 0)
      [] kind = "run" -> Max({0} \cup {n - k + 1 : k \in RunsIn(q, m, n)})

CoversIn(kind, q, bar, m, n) ==
    /\ bar.open = q[m].open /\ bar.close = q[n].close
    /\ bar.high = Max({q[i].high : i \in m .. n})
    /\ bar.low = Min({q[i].low : i \in m .. n})
    /\ kind \in {"tick", "volume", "dollar"} => bar.volume = VolumeIn(q, m, n)
    /\ kind # "imbalance" => bar.measure = MeasureIn(kind, q, m, n)
    /\ kind = "imbalance" => bar.measure = ThetaIn(q, m, n)
    /\ kind \in {"imbalance", "run"} => bar.direction = SideIn(q, n)

PricedUpTo(q, n) == \A i \in 1 .. n : Priced(q[i])

LEMMA PricedCloses ==
    ASSUME NEW q, NEW n \in Nat, PricedUpTo(q, n)
    PROVE  \A k \in 0 .. n : ClosesUpTo(q, k)
  BY DEF PricedUpTo, Priced, ClosesUpTo

LEMMA SidesAre ==
    ASSUME NEW q, NEW n \in Nat, PricedUpTo(q, n)
    PROVE  \A i \in 1 .. n : SideIn(q, i) \in {-1, 0, 1}
<1> SUFFICES ASSUME NEW i \in 1 .. n PROVE SideIn(q, i) \in {-1, 0, 1}
  OBVIOUS
<1>1. i \in Nat /\ ClosesUpTo(q, i) BY PricedCloses
<1>2. CASE MovesIn(q, i) = {}
  BY <1>2 DEF SideIn
<1>3. CASE MovesIn(q, i) # {}
  BY <1>1, <1>3, LastMove, SideOfLast
<1> QED BY <1>2, <1>3

\* One candle more adds itself to the sums.
SumsGrow(q, r, m, n) ==
    /\ VolumeIn(q, m, n) \in Int
    /\ VolumeIn(r, m, n + 1) = VolumeIn(q, m, n) + r[n + 1].volume
    /\ WorthIn(q, m, n) \in Int
    /\ WorthIn(r, m, n + 1) = WorthIn(q, m, n) + r[n + 1].close * r[n + 1].volume
    /\ ThetaIn(q, m, n) \in Int
    /\ ThetaIn(r, m, n + 1) = ThetaIn(q, m, n) + SideIn(r, n + 1)

LEMMA SumsStep ==
    ASSUME NEW q, NEW r, NEW n \in Nat, NEW m \in Nat \ {0}, m <= n + 1, PricedUpTo(r, n + 1),
           \A i \in 1 .. n : r[i] = q[i]
    PROVE  SumsGrow(q, r, m, n)
<1>1. /\ m \in Nat /\ n + 1 \in Nat /\ (n + 1) - 1 = n
      /\ \A i \in m .. n + 1 : i \in Nat /\ i \in 1 .. n + 1
      /\ \A i \in m .. n : i \in Nat /\ i \in 1 .. n
      /\ n + 1 \in m .. n + 1
  OBVIOUS
<1>2. ASSUME NEW g, NEW h, \A i \in m .. n + 1 : h[i] \in Int, \A i \in m .. n : g[i] = h[i]
      PROVE  /\ Added(Part(g, m, n)) \in Int
             /\ Added(Part(h, m, n + 1)) = Added(Part(g, m, n)) + h[n + 1]
  <2>1. PICK k \in Nat : k = n + 1 OBVIOUS
  <2>2. m <= k /\ k - 1 = n BY <2>1
  <2>3. (\A i \in m .. k : h[i] \in Int) /\ \A i \in m .. k - 1 : g[i] = h[i]
    <3>1. \A i \in m .. k : i \in m .. n + 1 BY <2>1, <2>2
    <3>2. \A i \in m .. k - 1 : i \in m .. n BY <2>1, <2>2
    <3>3. \A i \in m .. k : h[i] \in Int BY <1>2, <3>1
    <3>4. \A i \in m .. k - 1 : g[i] = h[i] BY <1>2, <3>2
    <3> QED BY <3>3, <3>4
  <2>4. /\ Added(Part(g, m, k - 1)) \in Int
        /\ Added(Part(h, m, k)) = Added(Part(g, m, k - 1)) + h[k]
    <3>1. m \in Nat /\ k \in Nat /\ m <= k BY <1>1, <2>1, <2>2
    <3> QED BY ONLY <2>3, <3>1, PartGrows
  <2> QED BY <2>1, <2>2, <2>4
<1>3. \A i \in 1 .. n + 1 : r[i].volume \in Int /\ r[i].close \in Int
  BY DEF PricedUpTo, Priced
<1>4. /\ VolumeIn(q, m, n) \in Int
      /\ VolumeIn(r, m, n + 1) = VolumeIn(q, m, n) + r[n + 1].volume
  <2> DEFINE g == VolumesOf(q)
             h == VolumesOf(r)
  <2>1. \A i \in m .. n + 1 : h[i] = r[i].volume BY <1>1 DEF VolumesOf
  <2>2. \A i \in m .. n : g[i] = h[i] BY <1>1 DEF VolumesOf
  <2> HIDE DEF g, h
  <2>3. \A i \in m .. n + 1 : h[i] \in Int BY <1>1, <1>3, <2>1
  <2>4. /\ Added(Part(g, m, n)) \in Int
        /\ Added(Part(h, m, n + 1)) = Added(Part(g, m, n)) + h[n + 1]
    BY <1>2, <2>2, <2>3
  <2>5. h[n + 1] = r[n + 1].volume BY <1>1, <2>1
  <2> QED BY <2>4, <2>5 DEF VolumeIn, g, h
<1>5. /\ WorthIn(q, m, n) \in Int
      /\ WorthIn(r, m, n + 1) = WorthIn(q, m, n) + r[n + 1].close * r[n + 1].volume
  <2> DEFINE g == WorthsOf(q)
             h == WorthsOf(r)
  <2>1. \A i \in m .. n + 1 : h[i] = r[i].close * r[i].volume BY <1>1 DEF WorthsOf
  <2>2. \A i \in m .. n : g[i] = h[i] BY <1>1 DEF WorthsOf
  <2> HIDE DEF g, h
  <2>3. \A i \in m .. n + 1 : h[i] \in Int
    <3>1. \A a, b \in Int : a * b \in Int OBVIOUS
    <3> QED BY <1>1, <1>3, <2>1, <3>1
  <2>4. /\ Added(Part(g, m, n)) \in Int
        /\ Added(Part(h, m, n + 1)) = Added(Part(g, m, n)) + h[n + 1]
    BY <1>2, <2>2, <2>3
  <2>5. h[n + 1] = r[n + 1].close * r[n + 1].volume BY <1>1, <2>1
  <2> QED BY <2>4, <2>5 DEF WorthIn, g, h
<1>6. /\ ThetaIn(q, m, n) \in Int
      /\ ThetaIn(r, m, n + 1) = ThetaIn(q, m, n) + SideIn(r, n + 1)
  <2> DEFINE g == SidesOf(q)
             h == SidesOf(r)
  <2>1. \A i \in m .. n + 1 : h[i] = SideIn(r, i) BY <1>1 DEF SidesOf
  <2>2. \A i \in m .. n : g[i] = h[i]
    <3> SUFFICES ASSUME NEW i \in m .. n PROVE SideIn(q, i) = SideIn(r, i)
      BY <1>1 DEF SidesOf
    <3>1. i \in Nat /\ \A j \in 1 .. i : r[j] = q[j] BY <1>1
    <3> QED BY <3>1, SameBeginning
  <2> HIDE DEF g, h
  <2>3. \A i \in m .. n + 1 : h[i] \in Int
    <3>1. \A i \in 1 .. n + 1 : SideIn(r, i) \in {-1, 0, 1} BY <1>1, SidesAre
    <3> QED BY <1>1, <2>1, <3>1
  <2>4. /\ Added(Part(g, m, n)) \in Int
        /\ Added(Part(h, m, n + 1)) = Added(Part(g, m, n)) + h[n + 1]
    BY <1>2, <2>2, <2>3
  <2>5. h[n + 1] = SideIn(r, n + 1) BY <1>1, <2>1
  <2> QED BY <2>4, <2>5 DEF ThetaIn, g, h
<1> QED BY <1>4, <1>5, <1>6 DEF SumsGrow

\* A sequence that begins alike measures alike, and its bars cover alike.
LEMMA SameMeasures ==
    ASSUME NEW kind, NEW q, NEW r, NEW n \in Nat, NEW m \in Nat \ {0}, \A i \in 1 .. n : r[i] = q[i]
    PROVE  /\ MeasureIn(kind, r, m, n) = MeasureIn(kind, q, m, n)
           /\ m <= n => \A bar : CoversIn(kind, q, bar, m, n) => CoversIn(kind, r, bar, m, n)
<1>1. /\ \A i \in 1 .. n - m + 1 : m + i - 1 \in 1 .. n /\ m + i - 1 \in Nat
      /\ \A i \in m .. n : i \in 1 .. n
  OBVIOUS
<1>2. ASSUME NEW g, NEW h, \A i \in 1 .. n : h[i] = g[i]
      PROVE  Part(h, m, n) = Part(g, m, n)
  BY <1>1, <1>2 DEF Part
<1>3. /\ \A i \in 1 .. n : VolumesOf(r)[i] = VolumesOf(q)[i]
      /\ \A i \in 1 .. n : WorthsOf(r)[i] = WorthsOf(q)[i]
  BY DEF VolumesOf, WorthsOf
<1>4. ASSUME NEW i \in 1 .. n PROVE SideIn(r, i) = SideIn(q, i)
  <2>1. i \in Nat /\ \A j \in 1 .. i : r[j] = q[j] OBVIOUS
  <2> QED BY <2>1, SameBeginning
<1>5. \A i \in 1 .. n : SidesOf(r)[i] = SidesOf(q)[i] BY <1>4 DEF SidesOf
<1>6. /\ VolumeIn(r, m, n) = VolumeIn(q, m, n) /\ WorthIn(r, m, n) = WorthIn(q, m, n)
      /\ ThetaIn(r, m, n) = ThetaIn(q, m, n)
  BY <1>2, <1>3, <1>5 DEF VolumeIn, WorthIn, ThetaIn
<1>7. RunsIn(r, m, n) = RunsIn(q, m, n) /\ SideIn(r, n) = SideIn(q, n) BY SameBeginning
<1>8. MeasureIn(kind, r, m, n) = MeasureIn(kind, q, m, n) BY <1>6, <1>7 DEF MeasureIn
<1>9. ASSUME m <= n, NEW bar, CoversIn(kind, q, bar, m, n) PROVE CoversIn(kind, r, bar, m, n)
  <2>1. r[m] = q[m] /\ r[n] = q[n] BY <1>9
  <2>2. /\ {r[i].high : i \in m .. n} = {q[i].high : i \in m .. n}
        /\ {r[i].low : i \in m .. n} = {q[i].low : i \in m .. n}
    BY <1>1
  <2> QED BY <1>6, <1>7, <1>8, <1>9, <2>1, <2>2 DEF CoversIn
<1> QED BY <1>8, <1>9

\* What the model reads off the candles is this.
LEMMA Readings ==
    ASSUME NEW m \in Nat \ {0}, NEW n \in Nat
    PROVE  /\ Measure(m, n) = MeasureIn(builder.kind, seen, m, n)
           /\ \A bar : Covers(bar, m, n) <=> CoversIn(builder.kind, seen, bar, m, n)
<1>1. \A i \in 1 .. n - m + 1 : m + i - 1 \in Nat OBVIOUS
<1>2. Sum(LAMBDA i : seen[i].volume, m, n) = VolumeIn(seen, m, n)
  <2>1. [i \in 1 .. n - m + 1 |-> seen[m + i - 1].volume] = Part(VolumesOf(seen), m, n)
    BY <1>1 DEF Part, VolumesOf
  <2> QED BY <2>1 DEF Sum, VolumeIn, Added
<1>3. Sum(LAMBDA i : seen[i].close * seen[i].volume, m, n) = WorthIn(seen, m, n)
  <2>1. [i \in 1 .. n - m + 1 |-> seen[m + i - 1].close * seen[m + i - 1].volume]
           = Part(WorthsOf(seen), m, n)
    BY <1>1 DEF Part, WorthsOf
  <2> QED BY <2>1 DEF Sum, WorthIn, Added
<1>4. \A i : Moves(i) = MovesIn(seen, i) /\ Side(i) = SideIn(seen, i)
  BY DEF Moves, MovesIn, Side, SideIn
<1>5. Sum(Side, m, n) = ThetaIn(seen, m, n)
  <2>1. [i \in 1 .. n - m + 1 |-> Side(m + i - 1)] = Part(SidesOf(seen), m, n)
    BY <1>1, <1>4 DEF Part, SidesOf
  <2> QED BY <2>1 DEF Sum, ThetaIn, Added
<1>6. \A k : IsRun(k, m, n) <=> RunIn(seen, k, m, n) BY <1>4 DEF IsRun, RunIn
<1>7. {k \in m .. n : IsRun(k, m, n)} = RunsIn(seen, m, n) BY <1>6 DEF RunsIn
<1>8. Measure(m, n) = MeasureIn(builder.kind, seen, m, n)
  BY <1>2, <1>3, <1>5, <1>7 DEF Measure, MeasureIn
<1>9. ASSUME NEW bar PROVE Covers(bar, m, n) <=> CoversIn(builder.kind, seen, bar, m, n)
  BY <1>2, <1>4, <1>5, <1>8 DEF Covers, CoversIn
<1> QED BY <1>8, <1>9

-----------------------------------------------------------------------------
(* Bars that collect candles: the open bar. *)

\* The open bar of the state holds candles m to n.
Gathered(q, m, n, s) ==
    /\ s.count = n - m + 1
    /\ s.prev = IF n = 0 THEN <<>> ELSE <<q[n].close>>
    /\ m <= n =>
          /\ s.open = q[m].open /\ s.close = q[n].close /\ s.volume = VolumeIn(q, m, n)
          /\ s.high \in {q[i].high : i \in m .. n} /\ \A i \in m .. n : q[i].high <= s.high
          /\ s.low \in {q[i].low : i \in m .. n} /\ \A i \in m .. n : s.low <= q[i].low

\* Its measure and its side are those of candles m to n.
Weighed(q, m, n, s) ==
    /\ s.kind = "tick" => s.measure = n - m + 1
    /\ s.kind = "volume" => s.measure = VolumeIn(q, m, n)
    /\ s.kind = "dollar" => s.measure = WorthIn(q, m, n)
    /\ s.kind = "imbalance" => s.measure = ThetaIn(q, m, n) /\ s.sign = SideIn(q, n)
    /\ s.kind = "run" => RunMarked(q, m, n, s.sign, s.measure)

LEMMA GatheredStep ==
    ASSUME NEW q, NEW r, NEW n \in Nat, NEW m \in Nat \ {0}, m <= n + 1, PricedUpTo(r, n + 1),
           \A i \in 1 .. n : r[i] = q[i],
           NEW s \in ActivityState, Gathered(q, m, n, s), NEW c, c = r[n + 1],
           NEW g, g = Gather(Measured(s, c), c)
    PROVE  Gathered(r, m, n + 1, g)
<1>1. Priced(c) /\ n + 1 \in 1 .. n + 1 /\ n + 1 # 0 BY DEF PricedUpTo
<1>2. /\ g.count = s.count + 1
      /\ g.open = IF s.count = 0 THEN c.open ELSE s.open
      /\ g.high = IF s.count = 0 \/ c.high > s.high THEN c.high ELSE s.high
      /\ g.low = IF s.count = 0 \/ c.low < s.low THEN c.low ELSE s.low
      /\ g.close = c.close
      /\ g.volume = IF s.count = 0 THEN c.volume ELSE s.volume + c.volume
      /\ g.prev = <<c.close>>
  BY <1>1, Gathers
<1>3. s.count = n - m + 1 /\ (s.count = 0 <=> m = n + 1) /\ (s.count # 0 <=> m <= n)
  BY DEF Gathered
<1>4. VolumeIn(q, m, n) \in Int /\ VolumeIn(r, m, n + 1) = VolumeIn(q, m, n) + c.volume
  <2>1. VolumeIn(q, m, n) \in Int /\ VolumeIn(r, m, n + 1) = VolumeIn(q, m, n) + r[n + 1].volume
    <3>1. SumsGrow(q, r, m, n) BY SumsStep
    <3> QED BY <3>1 DEF SumsGrow
  <2> QED BY <2>1, Zenon
<1>5. g.count = (n + 1) - m + 1 BY <1>2, <1>3
<1>6. g.prev = IF n + 1 = 0 THEN <<>> ELSE <<r[n + 1].close>>
  <2>1. g.prev = <<r[n + 1].close>> BY <1>2
  <2> QED BY <1>1, <2>1, Zenon
<1>7. m .. n + 1 = (m .. n) \cup {n + 1} OBVIOUS
<1>8. \A i \in m .. n : i \in 1 .. n /\ r[i] = q[i] OBVIOUS
<1>9. /\ \A i \in m .. n + 1 : r[i].high \in Int /\ r[i].low \in Int /\ i \in Int
      /\ c.high \in Int /\ c.low \in Int /\ c.volume \in Int
  <2>1. \A i \in m .. n + 1 : i \in 1 .. n + 1 OBVIOUS
  <2> QED BY <1>1, <2>1 DEF PricedUpTo, Priced
<1>10. CASE m = n + 1
  <2>1. s.count = 0 /\ m .. n + 1 = {n + 1} BY <1>3, <1>10
  <2>2. VolumeIn(q, m, n) = 0
    <3>1. m \in Nat /\ m - 1 = n BY <1>10
    <3>2. Added(Part(VolumesOf(q), m, m - 1)) = 0 BY <3>1, PartOfNone
    <3> QED BY <3>1, <3>2 DEF VolumeIn
  <2>3. g.open = r[m].open /\ g.close = r[n + 1].close /\ g.volume = VolumeIn(r, m, n + 1)
    BY <1>2, <1>4, <1>9, <1>10, <2>1, <2>2
  <2>4. g.high = r[n + 1].high /\ g.low = r[n + 1].low BY <1>2, <2>1
  <2>5. /\ g.high \in {r[i].high : i \in m .. n + 1} /\ \A i \in m .. n + 1 : r[i].high <= g.high
        /\ g.low \in {r[i].low : i \in m .. n + 1} /\ \A i \in m .. n + 1 : g.low <= r[i].low
    BY <1>9, <2>1, <2>4
  <2> QED BY <1>5, <1>6, <2>3, <2>5 DEF Gathered
<1>11. CASE m <= n
  <2>1. /\ s.open = q[m].open /\ s.volume = VolumeIn(q, m, n) /\ s.count # 0
        /\ s.high \in {q[i].high : i \in m .. n} /\ \A i \in m .. n : q[i].high <= s.high
        /\ s.low \in {q[i].low : i \in m .. n} /\ \A i \in m .. n : s.low <= q[i].low
    BY <1>3, <1>11 DEF Gathered
  <2>2. r[m] = q[m] BY <1>8, <1>11
  <2>3. g.open = r[m].open /\ g.close = r[n + 1].close /\ g.volume = VolumeIn(r, m, n + 1)
    BY <1>2, <1>4, <2>1, <2>2
  <2>4. s.high \in Int /\ s.low \in Int BY DEF ActivityState
  <2>5. g.high = (IF c.high > s.high THEN c.high ELSE s.high)
        /\ g.low = (IF c.low < s.low THEN c.low ELSE s.low)
    BY <1>2, <2>1
  <2>6. /\ s.high \in {r[i].high : i \in m .. n + 1} /\ c.high \in {r[i].high : i \in m .. n + 1}
        /\ s.low \in {r[i].low : i \in m .. n + 1} /\ c.low \in {r[i].low : i \in m .. n + 1}
    <3>1. PICK i \in m .. n : s.high = q[i].high BY <2>1
    <3>2. PICK j \in m .. n : s.low = q[j].low BY <2>1
    <3>3. i \in m .. n + 1 /\ j \in m .. n + 1 /\ r[i] = q[i] /\ r[j] = q[j] BY <1>7, <1>8
    <3> QED BY <1>7, <3>1, <3>2, <3>3
  <2>7. g.high \in {r[i].high : i \in m .. n + 1} /\ g.low \in {r[i].low : i \in m .. n + 1}
    BY <2>5, <2>6
  <2>8. g.high >= s.high /\ g.high >= c.high /\ g.low <= s.low /\ g.low <= c.low
        /\ g.high \in Int /\ g.low \in Int
    BY <1>9, <2>4, <2>5
  <2>9. ASSUME NEW i \in m .. n + 1 PROVE r[i].high <= g.high /\ g.low <= r[i].low
    <3>1. CASE i = n + 1
      BY <2>8, <3>1
    <3>2. CASE i \in m .. n
      <4>1. r[i].high <= s.high /\ s.low <= r[i].low BY <1>8, <2>1, <3>2
      <4> QED BY <1>9, <2>4, <2>8, <4>1
    <3> QED BY <1>7, <3>1, <3>2
  <2> QED BY <1>5, <1>6, <2>3, <2>7, <2>9 DEF Gathered
<1> QED BY <1>10, <1>11

LEMMA WeighedStep ==
    ASSUME NEW q, NEW r, NEW n \in Nat, NEW m \in Nat \ {0}, m <= n + 1, PricedUpTo(r, n + 1),
           \A i \in 1 .. n : r[i] = q[i],
           NEW s \in ActivityState, Gathered(q, m, n, s), Weighed(q, m, n, s),
           NEW c, c = r[n + 1], NEW g, g = Gather(Measured(s, c), c)
    PROVE  Weighed(r, m, n + 1, g)
<1>1. Priced(c) /\ n + 1 \in 1 .. n + 1 BY DEF PricedUpTo
<1>2. g.kind = s.kind /\ g.measure = MeasureAfter(s, c) /\ g.sign = SignAfter(s, c)
  BY <1>1, Gathers
<1>3. /\ VolumeIn(r, m, n + 1) = VolumeIn(q, m, n) + c.volume
      /\ WorthIn(r, m, n + 1) = WorthIn(q, m, n) + c.close * c.volume
      /\ ThetaIn(q, m, n) \in Int /\ ThetaIn(r, m, n + 1) = ThetaIn(q, m, n) + SideIn(r, n + 1)
  <2>1. /\ VolumeIn(r, m, n + 1) = VolumeIn(q, m, n) + r[n + 1].volume
        /\ WorthIn(r, m, n + 1) = WorthIn(q, m, n) + r[n + 1].close * r[n + 1].volume
        /\ ThetaIn(q, m, n) \in Int /\ ThetaIn(r, m, n + 1) = ThetaIn(q, m, n) + SideIn(r, n + 1)
    <3>1. SumsGrow(q, r, m, n) BY SumsStep
    <3> QED BY <3>1 DEF SumsGrow
  <2> QED BY <2>1, Zenon
<1>4. /\ s.count = n - m + 1
      /\ s.prev = IF n = 0 THEN <<>> ELSE <<q[n].close>>
  BY DEF Gathered
<1>5. ClosesUpTo(r, n + 1) /\ n + 1 \in 0 .. n + 1 /\ n + 1 \in Nat
  <2>1. n + 1 \in 0 .. n + 1 /\ n + 1 \in Nat OBVIOUS
  <2> QED BY <2>1, PricedCloses
<1>6. CASE s.kind = "tick"
  <2>1. MeasureAfter(s, c) = s.count + 1 /\ s.count = n - m + 1
    BY <1>4, <1>6 DEF MeasureAfter
  <2>2. g.measure = (n + 1) - m + 1 BY <1>2, <2>1
  <2> QED BY <1>2, <1>6, <2>2 DEF Weighed
<1>7. CASE s.kind = "volume"
  <2>1. MeasureAfter(s, c) = s.measure + c.volume /\ s.measure = VolumeIn(q, m, n)
    BY <1>7 DEF MeasureAfter, Weighed
  <2> QED BY <1>2, <1>3, <1>7, <2>1 DEF Weighed
<1>8. CASE s.kind = "dollar"
  <2>1. MeasureAfter(s, c) = s.measure + c.close * c.volume /\ s.measure = WorthIn(q, m, n)
    BY <1>8 DEF MeasureAfter, Weighed
  <2> QED BY <1>2, <1>3, <1>8, <2>1 DEF Weighed
<1>9. CASE n = 0
  <2>1. s.prev = <<>> /\ n + 1 = 1 /\ MovesIn(q, n) = {} BY <1>4, <1>9 DEF MovesIn
  <2>2. SideIn(q, n) = 0 /\ RunsIn(q, m, n) = {} BY <2>1 DEF SideIn, RunsIn, RunIn
  <2>3. SideIn(r, n + 1) = 0 /\ RunsIn(r, m, n + 1) = {} BY <2>1, SideOfFirst
  <2>4. CASE s.kind = "imbalance"
    <3>1. g.measure = ThetaIn(q, m, n) /\ g.sign = 0
      BY <1>2, <2>1, <2>2, <2>4 DEF MeasureAfter, SignAfter, Weighed
    <3>2. g.measure = ThetaIn(r, m, n + 1) BY <1>3, <2>3, <3>1
    <3> QED BY <1>2, <2>3, <2>4, <3>1, <3>2 DEF Weighed
  <2>5. CASE s.kind = "run"
    <3>1. s.measure = 0 /\ s.sign = 0 BY <2>2, <2>5 DEF Weighed, RunMarked
    <3>2. g.measure = 0 /\ g.sign = 0 BY <1>2, <2>1, <2>5, <3>1 DEF MeasureAfter, SignAfter
    <3> QED BY <1>2, <2>3, <2>5, <3>2 DEF Weighed, RunMarked
  <2> QED BY <1>6, <1>7, <1>8, <2>4, <2>5 DEF ActivityState, Activity
<1>10. CASE n # 0
  <2>1. n \in Nat \ {0} /\ n \in 1 .. n BY <1>10
  <2>2. s.prev # <<>> /\ s.prev[1] = r[n].close BY <1>4, <2>1
  <2>3. SideIn(r, n) = SideIn(q, n) /\ RunsIn(r, m, n) = RunsIn(q, m, n) BY SameBeginning
  <2> DEFINE d == Change(s.prev[1], c.close)
  <2>4. /\ d \in {-1, 0, 1} /\ SideIn(r, n) \in {-1, 0, 1}
        /\ d = 0 => SideIn(r, n + 1) = SideIn(r, n)
        /\ d # 0 => SideIn(r, n + 1) = d
    <3>1. d = Change(r[n].close, r[n + 1].close) BY <2>2
    <3> QED BY <1>5, <2>1, <3>1, SideSteps
  <2>5. CASE s.kind = "imbalance"
    <3>1. s.measure = ThetaIn(q, m, n) /\ s.sign = SideIn(r, n) BY <2>3, <2>5 DEF Weighed
    <3>2. TickRule(s, c) = [sign |-> IF d = 0 THEN s.sign ELSE d,
                            theta |-> s.measure + (IF d = 0 THEN s.sign ELSE d)]
      BY DEF TickRule
    <3> HIDE DEF d
    <3>3. (IF d = 0 THEN s.sign ELSE d) = SideIn(r, n + 1) BY <2>4, <3>1
    <3>4. TickRule(s, c).sign = SideIn(r, n + 1) /\ TickRule(s, c).theta = ThetaIn(r, m, n + 1)
      BY <1>3, <3>1, <3>2, <3>3
    <3>5. g.measure = TickRule(s, c).theta /\ g.sign = TickRule(s, c).sign
      BY <1>2, <2>2, <2>5 DEF MeasureAfter, SignAfter
    <3> QED BY <1>2, <2>5, <3>4, <3>5 DEF Weighed
  <2>6. CASE s.kind = "run"
    <3>1. RunMarked(r, m, n, s.sign, s.measure) BY <2>3, <2>6 DEF Weighed, RunMarked
    <3>2. RunMarked(r, m, n + 1, RunRule(s, c).sign, RunRule(s, c).len)
      BY <1>5, <2>1, <2>2, <3>1, RunMarkSteps
    <3>3. g.measure = RunRule(s, c).len /\ g.sign = RunRule(s, c).sign
      BY <1>2, <2>2, <2>6 DEF MeasureAfter, SignAfter
    <3> QED BY <1>2, <2>6, <3>2, <3>3 DEF Weighed
  <2> QED BY <1>6, <1>7, <1>8, <2>5, <2>6 DEF ActivityState, Activity
<1> QED BY <1>9, <1>10

\* An open bar without candles is sound: at the beginning, after a reset and
\* behind a completed bar.
LEMMA EmptyBar ==
    ASSUME NEW q, NEW n \in Nat, NEW s \in ActivityState, s.count = 0, s.measure = 0,
           s.prev = IF n = 0 THEN <<>> ELSE <<q[n].close>>,
           s.kind = "imbalance" => s.sign = SideIn(q, n), s.kind = "run" => s.sign = 0
    PROVE  Gathered(q, n + 1, n, s) /\ Weighed(q, n + 1, n, s) /\ ~Reached(s)
<1>1. n - (n + 1) + 1 = 0 /\ ~(n + 1 <= n) /\ (n + 1) .. n = {} /\ n + 1 \in Nat /\ (n + 1) - 1 = n
  OBVIOUS
<1>2. Gathered(q, n + 1, n, s)
  <2>1. s.count = n - (n + 1) + 1 BY <1>1
  <2> QED BY <1>1, <2>1 DEF Gathered
<1>3. \A g : Added(Part(g, n + 1, n)) = 0
  <2>1. PICK m \in Nat : m = n + 1 OBVIOUS
  <2>2. m - 1 = n BY <2>1
  <2>3. \A g : Added(Part(g, m, m - 1)) = 0 BY PartOfNone
  <2> QED BY <2>1, <2>2, <2>3
<1>4. /\ VolumeIn(q, n + 1, n) = 0 /\ WorthIn(q, n + 1, n) = 0 /\ ThetaIn(q, n + 1, n) = 0
      /\ RunsIn(q, n + 1, n) = {}
  BY <1>1, <1>3 DEF VolumeIn, WorthIn, ThetaIn, RunsIn
<1>5. s.measure = n - (n + 1) + 1 BY <1>1
<1>6. Weighed(q, n + 1, n, s) BY <1>4, <1>5 DEF Weighed, RunMarked
<1>7. ~Reached(s)
  <2>1. s.threshold \in Nat \ {0} BY DEF ActivityState
  <2> QED BY <2>1 DEF Reached
<1> QED BY <1>2, <1>6, <1>7

\* The threshold is reached when the candles of the bar reach it.
LEMMA ReachedWhenMeasured ==
    ASSUME NEW q, NEW n \in Nat, NEW m \in Nat \ {0}, NEW s \in ActivityState, Weighed(q, m, n, s)
    PROVE  /\ MeasureIn(s.kind, q, m, n) \in Int
           /\ Reached(s) <=> MeasureIn(s.kind, q, m, n) >= s.threshold
           /\ s.kind # "imbalance" => MeasureIn(s.kind, q, m, n) = s.measure
<1>1. s.measure \in Int /\ s.threshold \in Nat \ {0} /\ s.kind \in Activity
  BY DEF ActivityState
<1>2. CASE s.kind = "imbalance"
  <2>1. MeasureIn(s.kind, q, m, n) = Distance(s.measure, 0)
    <3>1. MeasureIn("imbalance", q, m, n) = Distance(ThetaIn(q, m, n), 0) BY DEF MeasureIn
    <3> QED BY <1>2, <3>1 DEF Weighed
  <2>2. Distance(s.measure, 0) = IF s.measure < 0 THEN -s.measure ELSE s.measure
    BY <1>1 DEF Distance
  <2> QED BY <1>1, <1>2, <2>1, <2>2 DEF Reached
<1>3. CASE s.kind # "imbalance"
  <2>1. ASSUME s.kind = "tick" PROVE MeasureIn(s.kind, q, m, n) = s.measure
    <3>1. MeasureIn("tick", q, m, n) = n - m + 1 BY DEF MeasureIn
    <3>2. s.measure = n - m + 1 BY <2>1 DEF Weighed
    <3> QED BY <2>1, <3>1, <3>2
  <2>2. ASSUME s.kind = "volume" PROVE MeasureIn(s.kind, q, m, n) = s.measure
    <3>1. MeasureIn("volume", q, m, n) = VolumeIn(q, m, n) BY DEF MeasureIn
    <3>2. s.measure = VolumeIn(q, m, n) BY <2>2 DEF Weighed
    <3> QED BY <2>2, <3>1, <3>2
  <2>3. ASSUME s.kind = "dollar" PROVE MeasureIn(s.kind, q, m, n) = s.measure
    <3>1. MeasureIn("dollar", q, m, n) = WorthIn(q, m, n) BY DEF MeasureIn
    <3>2. s.measure = WorthIn(q, m, n) BY <2>3 DEF Weighed
    <3> QED BY <2>3, <3>1, <3>2
  <2>4. ASSUME s.kind = "run" PROVE MeasureIn(s.kind, q, m, n) = s.measure
    <3>1. RunMarked(q, m, n, s.sign, s.measure) BY <2>4 DEF Weighed
    <3>2. Max({0} \cup {n - k + 1 : k \in RunsIn(q, m, n)}) = s.measure BY <3>1, LongestRun
    <3>3. MeasureIn("run", q, m, n) = Max({0} \cup {n - k + 1 : k \in RunsIn(q, m, n)})
      BY DEF MeasureIn
    <3> QED BY <2>4, <3>2, <3>3
  <2>5. MeasureIn(s.kind, q, m, n) = s.measure
    BY <1>1, <1>3, <2>1, <2>2, <2>3, <2>4 DEF Activity
  <2> QED BY <1>1, <1>3, <2>5 DEF Reached
<1> QED BY <1>2, <1>3

\* A bar that is handed out covers its candles.
LEMMA CollectedCovers ==
    ASSUME NEW q, NEW n \in Nat, NEW m \in Nat \ {0}, m <= n, PricedUpTo(q, n),
           NEW s \in ActivityState, Gathered(q, m, n, s), Weighed(q, m, n, s), Reached(s),
           NEW before \in Int, before < s.threshold, -before < s.threshold,
           s.kind = "imbalance" => s.measure = before + s.sign
    PROVE  CoversIn(s.kind, q, Collected(s), m, n)
<1> DEFINE bar == Collected(s)
<1>1. /\ bar.open = s.open /\ bar.high = s.high /\ bar.low = s.low /\ bar.close = s.close
      /\ bar.volume = IF s.kind \in {"imbalance", "run"} THEN 0 ELSE s.volume
      /\ bar.measure = s.measure
      /\ s.kind = "imbalance" => bar.direction = IF s.measure > 0 THEN 1 ELSE -1
      /\ s.kind = "run" => bar.direction = s.sign
  BY DEF Collected
<1> HIDE DEF bar
<1>2. /\ s.open = q[m].open /\ s.close = q[n].close /\ s.volume = VolumeIn(q, m, n)
      /\ s.high \in {q[i].high : i \in m .. n} /\ \A i \in m .. n : q[i].high <= s.high
      /\ s.low \in {q[i].low : i \in m .. n} /\ \A i \in m .. n : s.low <= q[i].low
  BY DEF Gathered
<1>3. \A i \in m .. n : q[i].high \in Int /\ q[i].low \in Int
  <2>1. \A i \in m .. n : i \in 1 .. n OBVIOUS
  <2> QED BY <2>1 DEF PricedUpTo, Priced
<1>4. bar.high = Max({q[i].high : i \in m .. n})
  <2> DEFINE S == {q[i].high : i \in m .. n}
  <2>1. S \in SUBSET Int /\ s.high \in S /\ \A x \in S : x <= s.high BY <1>2, <1>3
  <2> HIDE DEF S
  <2>2. Max(S) = s.high BY <2>1, MaxIs
  <2> QED BY <1>1, <2>2 DEF S
<1>5. bar.low = Min({q[i].low : i \in m .. n})
  <2> DEFINE S == {q[i].low : i \in m .. n}
  <2>1. S \in SUBSET Int /\ s.low \in S /\ \A x \in S : s.low <= x BY <1>2, <1>3
  <2> HIDE DEF S
  <2>2. Min(S) = s.low BY <2>1, MinIs
  <2> QED BY <1>1, <2>2 DEF S
<1>6. /\ s.kind # "imbalance" => bar.measure = MeasureIn(s.kind, q, m, n)
      /\ s.kind = "imbalance" => bar.measure = ThetaIn(q, m, n)
  <2>1. s.kind # "imbalance" => MeasureIn(s.kind, q, m, n) = s.measure
    BY ReachedWhenMeasured
  <2>2. s.kind = "imbalance" => s.measure = ThetaIn(q, m, n) BY DEF Weighed
  <2> QED BY <1>1, <2>1, <2>2
<1>7. /\ s.measure \in Int /\ s.threshold \in Nat \ {0} /\ s.sign \in {-1, 0, 1}
  BY DEF ActivityState
<1>8. s.kind = "imbalance" => bar.direction = SideIn(q, n)
  <2> SUFFICES ASSUME s.kind = "imbalance" PROVE bar.direction = SideIn(q, n)
    OBVIOUS
  <2>1. s.sign = SideIn(q, n) BY DEF Weighed
  <2>2. s.measure = before + s.sign /\ (s.measure >= s.threshold \/ -s.measure >= s.threshold)
    BY DEF Reached
  <2>3. (IF s.measure > 0 THEN 1 ELSE -1) = s.sign
    <3>1. CASE s.sign = 1
      BY <1>7, <2>2, <3>1
    <3>2. CASE s.sign = 0
      BY <1>7, <2>2, <3>2
    <3>3. CASE s.sign = -1
      BY <1>7, <2>2, <3>3
    <3> QED BY <1>7, <3>1, <3>2, <3>3
  <2> QED BY <1>1, <2>1, <2>3
<1>9. s.kind = "run" => bar.direction = SideIn(q, n)
  <2> SUFFICES ASSUME s.kind = "run" PROVE bar.direction = SideIn(q, n)
    OBVIOUS
  <2>1. RunMarked(q, m, n, s.sign, s.measure) BY DEF Weighed
  <2>2. s.measure # 0 BY <1>7 DEF Reached
  <2> QED BY <1>1, <2>1, <2>2 DEF RunMarked
<1>10. s.kind \in {"tick", "volume", "dollar"} => bar.volume = VolumeIn(q, m, n)
  BY <1>1, <1>2
<1>11. bar.open = q[m].open /\ bar.close = q[n].close BY <1>1, <1>2
<1> QED BY <1>4, <1>5, <1>6, <1>8, <1>9, <1>10, <1>11 DEF CoversIn, bar

LEMMA NewCollector ==
    ASSUME NEW kind \in Activity, NEW size \in Nat \ {0}, NEW s, s = NewActivity(kind, size)
    PROVE  /\ s \in ActivityState /\ s.kind = kind /\ s.threshold = size /\ s.count = 0
           /\ s.measure = 0 /\ s.prev = <<>> /\ s.sign = 0
<1>1. s = Collector(kind, size, 0, 0, 0, 0, 0, 0, 0, <<>>, 0) BY DEF NewActivity, Collector
<1>2. /\ s.kind = kind /\ s.threshold = size /\ s.count = 0 /\ s.measure = 0 /\ s.prev = <<>>
      /\ s.sign = 0
  BY <1>1, CollectorFields
<1>3. s \in ActivityState
  <2>1. PICK x, p : x = 0 /\ p = <<>> OBVIOUS
  <2>2. x \in Int /\ x \in Nat /\ x \in {-1, 0, 1} /\ p \in {<<>>} \cup One(Int) BY <2>1
  <2>3. s = Collector(kind, size, x, x, x, x, x, x, x, p, x) BY <1>1, <2>1
  <2> QED BY ONLY <2>2, <2>3, kind \in Activity, size \in Nat \ {0} DEF Collector, ActivityState
<1> QED BY <1>2, <1>3

LEMMA ClearedCollector ==
    ASSUME NEW s \in ActivityState, NEW t, t = ActivityCleared(s)
    PROVE  /\ t \in ActivityState /\ t.kind = s.kind /\ t.threshold = s.threshold /\ t.count = 0
           /\ t.measure = 0 /\ t.prev = <<>> /\ t.sign = 0
<1>1. PICK x, p : x = 0 /\ p = <<>> OBVIOUS
<1> DEFINE e1 == [s EXCEPT !.count = x]
           e2 == [e1 EXCEPT !.measure = x]
           e3 == [e2 EXCEPT !.sign = x]
           e4 == [e3 EXCEPT !.prev = p]
           e5 == [e4 EXCEPT !.volume = x]
           of(n, v, m, q, g) == Collector(s.kind, s.threshold, n, s.open, s.high, s.low, s.close,
                                          v, m, q, g)
<1>2. t = e5 BY <1>1 DEF ActivityCleared
<1>3. s = of(s.count, s.volume, s.measure, s.prev, s.sign) BY StateIsCollector
<1>4. e1 = of(x, s.volume, s.measure, s.prev, s.sign)
  <2>1. e1 = [s EXCEPT !.count = x] OBVIOUS
  <2> HIDE DEF e1
  <2> QED BY ONLY <1>3, <2>1 DEF Collector
<1> HIDE DEF e1
<1>5. e2 = of(x, s.volume, x, s.prev, s.sign)
  <2>1. e2 = [e1 EXCEPT !.measure = x] OBVIOUS
  <2> HIDE DEF e2
  <2> QED BY ONLY <1>4, <2>1 DEF Collector
<1> HIDE DEF e2
<1>6. e3 = of(x, s.volume, x, s.prev, x)
  <2>1. e3 = [e2 EXCEPT !.sign = x] OBVIOUS
  <2> HIDE DEF e3
  <2> QED BY ONLY <1>5, <2>1 DEF Collector
<1> HIDE DEF e3
<1>7. e4 = of(x, s.volume, x, p, x)
  <2>1. e4 = [e3 EXCEPT !.prev = p] OBVIOUS
  <2> HIDE DEF e4
  <2> QED BY ONLY <1>6, <2>1 DEF Collector
<1> HIDE DEF e4
<1>8. e5 = of(x, x, x, p, x)
  <2>1. e5 = [e4 EXCEPT !.volume = x] OBVIOUS
  <2> HIDE DEF e5
  <2> QED BY ONLY <1>7, <2>1 DEF Collector
<1> HIDE DEF e5
<1>9. t = Collector(s.kind, s.threshold, x, s.open, s.high, s.low, s.close, x, x, p, x)
  BY <1>2, <1>8
<1>10. /\ t.kind = s.kind /\ t.threshold = s.threshold /\ t.count = x /\ t.measure = x
       /\ t.prev = p /\ t.sign = x
  BY <1>9, CollectorFields
<1>11. t \in ActivityState
  <2>1. x \in Int /\ x \in Nat /\ x \in {-1, 0, 1} /\ p \in {<<>>} \cup One(Int) BY <1>1
  <2>2. /\ s.kind \in Activity /\ s.threshold \in Nat \ {0} /\ s.open \in Int /\ s.high \in Int
        /\ s.low \in Int /\ s.close \in Int
    BY DEF ActivityState
  <2> QED BY ONLY <1>9, <2>1, <2>2 DEF Collector, ActivityState
<1> QED BY <1>1, <1>10, <1>11

-----------------------------------------------------------------------------
(* Bars that collect candles: the bars. *)

\* Where bar i begins.
BeginsAt(bars, i) == IF i = 1 THEN 1 ELSE bars[i - 1].at + 1

\* Candles m to n do not reach the threshold, at no point on the way.
Short(kind, size, q, m, n) == \A j \in m .. n : MeasureIn(kind, q, m, j) < size

\* The bar covers its candles from m on, and ends with the first that reaches the
\* threshold.
IsComplete(kind, size, q, x, m) ==
    /\ m \in Nat \ {0} /\ x.at \in Nat /\ m <= x.at
    /\ CoversIn(kind, q, x.bar, m, x.at)
    /\ MeasureIn(kind, q, m, x.at) >= size
    /\ Short(kind, size, q, m, x.at - 1)

Collects ==
    builder.kind \in Activity =>
        LET m == BeginsAt(made, Len(made) + 1)
            n == Len(seen)
        IN  /\ made \in Seq([bar : {Collected(s) : s \in ActivityState}, at : Nat])
            /\ state \in ActivityState
            /\ state.kind = builder.kind /\ state.threshold = builder.size
            /\ \A i \in 1 .. Len(made) :
                  /\ IsComplete(builder.kind, builder.size, seen, made[i], BeginsAt(made, i))
                  /\ made[i].at <= n
            /\ m \in Nat \ {0} /\ m <= n + 1
            /\ Short(builder.kind, builder.size, seen, m, n)
            /\ Gathered(seen, m, n, state) /\ Weighed(seen, m, n, state)
            /\ ~Reached(state)

\* What a sequence measured stays measured when it goes on.
LEMMA CompleteStays ==
    ASSUME NEW kind, NEW size, NEW q, NEW r, NEW n \in Nat, \A i \in 1 .. n : r[i] = q[i],
           NEW x, x.at <= n, NEW m, IsComplete(kind, size, q, x, m)
    PROVE  IsComplete(kind, size, r, x, m)
<1>1. /\ m \in Nat \ {0} /\ x.at \in Nat /\ m <= x.at
      /\ CoversIn(kind, q, x.bar, m, x.at) /\ MeasureIn(kind, q, m, x.at) >= size
      /\ \A j \in m .. x.at - 1 : MeasureIn(kind, q, m, j) < size
  BY DEF IsComplete, Short
<1>2. ASSUME NEW k \in Nat, k <= n
      PROVE  /\ MeasureIn(kind, r, m, k) = MeasureIn(kind, q, m, k)
             /\ m <= k => \A bar : CoversIn(kind, q, bar, m, k) => CoversIn(kind, r, bar, m, k)
  <2>1. \A i \in 1 .. k : r[i] = q[i] BY <1>2
  <2> QED BY <1>1, <2>1, SameMeasures
<1>3. CoversIn(kind, r, x.bar, m, x.at) /\ MeasureIn(kind, r, m, x.at) >= size BY <1>1, <1>2
<1>4. ASSUME NEW j \in m .. x.at - 1 PROVE MeasureIn(kind, r, m, j) < size
  <2>1. j \in Nat /\ j <= n BY <1>1
  <2> QED BY <1>1, <1>2, <2>1
<1> QED BY <1>1, <1>3, <1>4 DEF IsComplete, Short

LEMMA ShortStays ==
    ASSUME NEW kind, NEW size, NEW q, NEW r, NEW n \in Nat, \A i \in 1 .. n : r[i] = q[i],
           NEW m \in Nat \ {0}, Short(kind, size, q, m, n)
    PROVE  Short(kind, size, r, m, n)
<1> SUFFICES ASSUME NEW j \in m .. n PROVE MeasureIn(kind, r, m, j) < size
  BY DEF Short
<1>1. j \in Nat /\ \A i \in 1 .. j : r[i] = q[i] OBVIOUS
<1>2. MeasureIn(kind, r, m, j) = MeasureIn(kind, q, m, j) BY <1>1, SameMeasures
<1> QED BY <1>2 DEF Short

\* Nothing collected yet: the beginning, and a reset.
Nothing ==
    /\ builder.kind \in Activity /\ seen = <<>> /\ made = <<>> /\ state \in ActivityState
    /\ state.kind = builder.kind /\ state.threshold = builder.size /\ state.count = 0
    /\ state.measure = 0 /\ state.prev = <<>> /\ state.sign = 0

LEMMA NothingCollects == Nothing => Collects
<1> SUFFICES ASSUME Nothing PROVE Collects
  OBVIOUS
<1> USE DEF Nothing
<1>1. /\ Len(made) = 0 /\ Len(seen) = 0 /\ 1 .. 0 = {} /\ 0 + 1 = 1 /\ 0 \in Nat /\ 1 \in Nat \ {0}
      /\ 1 <= 0 + 1
  OBVIOUS
<1>2. BeginsAt(made, Len(made) + 1) = 1 BY <1>1 DEF BeginsAt
<1>3. MovesIn(seen, 0) = {} BY DEF MovesIn
<1>4. SideIn(seen, 0) = 0 BY <1>3 DEF SideIn
<1>5. Gathered(seen, 0 + 1, 0, state) /\ Weighed(seen, 0 + 1, 0, state) /\ ~Reached(state)
  BY <1>4, EmptyBar
<1>6. Short(builder.kind, builder.size, seen, 1, 0) BY DEF Short
<1>7. made \in Seq([bar : {Collected(s) : s \in ActivityState}, at : Nat]) OBVIOUS
<1>8. \A i \in 1 .. Len(made) :
         /\ IsComplete(builder.kind, builder.size, seen, made[i], BeginsAt(made, i))
         /\ made[i].at <= Len(seen)
  BY <1>1
<1>9. Gathered(seen, 1, 0, state) /\ Weighed(seen, 1, 0, state) BY <1>1, <1>5
<1> QED BY <1>1, <1>2, <1>5, <1>6, <1>7, <1>8, <1>9 DEF Collects

\* The open bar of a builder after one more candle.
Goes(r, m, n, s) ==
    LET g == Gather(Measured(s, r[n + 1]), r[n + 1])
    IN  /\ g \in ActivityState /\ g.kind = s.kind /\ g.threshold = s.threshold
        /\ Gathered(r, m, n + 1, g) /\ Weighed(r, m, n + 1, g)
        /\ g.prev = <<r[n + 1].close>>
        /\ ~Reached(g) => Short(s.kind, s.threshold, r, m, n + 1)
        /\ Reached(g) => /\ MeasureIn(s.kind, r, m, n + 1) >= s.threshold
                         /\ CoversIn(s.kind, r, Collected(g), m, n + 1)

LEMMA OneCandleMore ==
    ASSUME NEW q, NEW r, NEW n \in Nat, NEW m \in Nat \ {0}, m <= n + 1, PricedUpTo(r, n + 1),
           \A i \in 1 .. n : r[i] = q[i],
           NEW s \in ActivityState, Gathered(q, m, n, s), Weighed(q, m, n, s), ~Reached(s),
           Short(s.kind, s.threshold, q, m, n)
    PROVE  Goes(r, m, n, s)
<1> DEFINE g == Gather(Measured(s, r[n + 1]), r[n + 1])
<1> DEFINE c == r[n + 1]
<1> HIDE DEF g
<1>0. g = Gather(Measured(s, c), c) BY DEF g
<1>1. Priced(c) /\ n + 1 \in Nat /\ m <= n + 1 /\ n + 1 \in 1 .. n + 1 BY DEF PricedUpTo
<1>2. /\ g \in ActivityState /\ g.kind = s.kind /\ g.threshold = s.threshold
      /\ g.measure = MeasureAfter(s, c) /\ g.sign = SignAfter(s, c) /\ g.prev = <<c.close>>
  BY <1>0, <1>1, Gathers
<1>3. Gathered(r, m, n + 1, g) BY <1>0, GatheredStep
<1>4. Weighed(r, m, n + 1, g) BY <1>0, WeighedStep
<1>5. Short(s.kind, s.threshold, r, m, n) BY ShortStays
<1>6. /\ MeasureIn(s.kind, r, m, n + 1) \in Int
      /\ Reached(g) <=> MeasureIn(s.kind, r, m, n + 1) >= s.threshold
  BY <1>1, <1>2, <1>4, ReachedWhenMeasured
<1>7. s.threshold \in Nat /\ s.measure \in Int BY DEF ActivityState
<1>8. ASSUME ~Reached(g) PROVE Short(s.kind, s.threshold, r, m, n + 1)
  <2> SUFFICES ASSUME NEW j \in m .. n + 1 PROVE MeasureIn(s.kind, r, m, j) < s.threshold
    BY DEF Short
  <2>1. CASE j \in m .. n
    BY <1>5, <2>1 DEF Short
  <2>2. CASE j = n + 1
    BY <1>6, <1>7, <1>8, <2>2
  <2> QED BY <2>1, <2>2
<1>9. ASSUME Reached(g) PROVE CoversIn(s.kind, r, Collected(g), m, n + 1)
  <2>1. s.kind = "imbalance" => s.measure < s.threshold /\ -s.measure < s.threshold
    BY <1>7 DEF Reached
  <2>2. g.kind = "imbalance" => g.measure = s.measure + g.sign
    <3> SUFFICES ASSUME s.kind = "imbalance" PROVE g.measure = s.measure + g.sign
      BY <1>2
    <3>1. CASE s.prev # <<>>
      <4>1. g.measure = TickRule(s, c).theta /\ g.sign = TickRule(s, c).sign
        BY <1>2, <3>1 DEF MeasureAfter, SignAfter
      <4>2. TickRule(s, c).theta = s.measure + TickRule(s, c).sign BY DEF TickRule
      <4> QED BY <4>1, <4>2
    <3>2. CASE s.prev = <<>>
      <4>1. g.measure = s.measure /\ g.sign = s.sign
        BY <1>2, <3>2 DEF MeasureAfter, SignAfter
      <4>2. n = 0
        <5>1. s.prev = IF n = 0 THEN <<>> ELSE <<q[n].close>> BY DEF Gathered
        <5>2. <<q[n].close>> # <<>> OBVIOUS
        <5> QED BY <3>2, <5>1, <5>2
      <4>3. SideIn(q, 0) = 0
        <5>1. MovesIn(q, 0) = {} BY DEF MovesIn
        <5> QED BY <5>1 DEF SideIn
      <4>4. s.sign = 0
        <5>1. s.sign = SideIn(q, n) BY DEF Weighed
        <5> QED BY <4>2, <4>3, <5>1
      <4> QED BY <1>7, <4>1, <4>4
    <3> QED BY <3>1, <3>2
  <2>3. \E before \in Int : /\ before < g.threshold /\ -before < g.threshold
                            /\ g.kind = "imbalance" => g.measure = before + g.sign
    <3>1. CASE s.kind = "imbalance"
      BY <1>2, <1>7, <2>1, <2>2, <3>1
    <3>2. CASE s.kind # "imbalance"
      <4>1. 0 \in Int /\ 0 < g.threshold /\ -0 < g.threshold BY <1>2 DEF ActivityState
      <4> QED BY <1>2, <3>2, <4>1
    <3> QED BY <3>1, <3>2
  <2>4. CoversIn(g.kind, r, Collected(g), m, n + 1)
    BY <1>1, <1>2, <1>3, <1>4, <1>9, <2>3, CollectedCovers
  <2> QED BY <1>2, <2>4
<1> QED BY <1>2, <1>3, <1>4, <1>6, <1>8, <1>9 DEF Goes, g

LEMMA SeenAfter ==
    ASSUME BarsFed, NEW c \in Candles(builder), NEW r, r = Append(seen, c)
    PROVE  /\ Len(seen) \in Nat /\ Len(r) = Len(seen) + 1 /\ r[Len(seen) + 1] = c
           /\ \A i \in 1 .. Len(seen) : r[i] = seen[i]
           /\ PricedUpTo(r, Len(seen) + 1)
<1>1. seen \in Seq(Candles(builder)) /\ \A d \in Candles(builder) : Priced(d) BY DEF BarsFed
<1>2. /\ Len(seen) \in Nat /\ Len(r) = Len(seen) + 1 /\ r[Len(seen) + 1] = c
      /\ \A i \in 1 .. Len(seen) : r[i] = seen[i]
  BY <1>1, AppendProperties
<1>3. \A i \in 1 .. Len(seen) : seen[i] \in Candles(builder) BY <1>1
<1>4. ASSUME NEW i \in 1 .. Len(seen) + 1 PROVE Priced(r[i])
  <2>1. i \in 1 .. Len(seen) \/ i = Len(seen) + 1 BY <1>2
  <2> QED BY <1>1, <1>2, <1>3, <2>1
<1> QED BY <1>2, <1>4 DEF PricedUpTo

LEMMA CollectsByUpdate ==
    ASSUME BarsFed, Collects, builder.kind \in Activity, NEW c \in Candles(builder), BarUpdate(c)
    PROVE  Collects'
<1> DEFINE R == [bar : {Collected(s) : s \in ActivityState}, at : Nat]
           kind == builder.kind
           size == builder.size
           q == seen
           r == Append(seen, c)
           n == Len(seen)
           M == Len(made)
           m == BeginsAt(made, M + 1)
           g == Gather(Measured(state, c), c)
<1>1. /\ made \in Seq(R) /\ state \in ActivityState /\ state.kind = kind /\ state.threshold = size
      /\ \A i \in 1 .. M : IsComplete(kind, size, q, made[i], BeginsAt(made, i)) /\ made[i].at <= n
      /\ m \in Nat \ {0} /\ m <= n + 1 /\ Short(kind, size, q, m, n)
      /\ Gathered(q, m, n, state) /\ Weighed(q, m, n, state) /\ ~Reached(state)
  BY DEF Collects
<1>2. /\ n \in Nat /\ Len(r) = n + 1 /\ r[n + 1] = c /\ \A i \in 1 .. n : r[i] = q[i]
      /\ PricedUpTo(r, n + 1)
  BY SeenAfter
<1>3. /\ builder' = builder /\ seen' = r /\ state' = UpdatedBy(state, c).s
      /\ made' = made \o [i \in DOMAIN UpdatedBy(state, c).bars |->
                             [bar |-> UpdatedBy(state, c).bars[i], at |-> n + 1]]
  BY DEF BarUpdate
<1>4. UpdatedBy(state, c) = IF Reached(g) THEN Built(Completed(g), <<Collected(g)>>)
                            ELSE Built(g, <<>>)
  BY UpdatesOfKinds DEF ActivityUpdated
<1> HIDE DEF kind, size, q, r, g
<1>5. M \in Nat BY <1>1
<1>6. g = Gather(Measured(state, r[n + 1]), r[n + 1]) BY <1>2 DEF g
<1> HIDE DEF n, M, m, R
<1>7. /\ g \in ActivityState /\ g.kind = kind /\ g.threshold = size
      /\ Gathered(r, m, n + 1, g) /\ Weighed(r, m, n + 1, g)
      /\ g.prev = <<r[n + 1].close>>
      /\ ~Reached(g) => Short(kind, size, r, m, n + 1)
      /\ Reached(g) => /\ MeasureIn(kind, r, m, n + 1) >= size
                       /\ CoversIn(kind, r, Collected(g), m, n + 1)
  <2>1. Goes(r, m, n, state)
    <3>1. Short(state.kind, state.threshold, q, m, n) BY <1>1
    <3> QED BY <1>1, <1>2, <3>1, OneCandleMore
  <2> QED BY <1>1, <1>6, <2>1 DEF Goes
<1>8. \A i \in 1 .. M : IsComplete(kind, size, r, made[i], BeginsAt(made, i)) /\ made[i].at <= n + 1
  <2> SUFFICES ASSUME NEW i \in 1 .. M
               PROVE  IsComplete(kind, size, r, made[i], BeginsAt(made, i)) /\ made[i].at <= n + 1
    OBVIOUS
  <2>1. IsComplete(kind, size, q, made[i], BeginsAt(made, i)) /\ made[i].at <= n BY <1>1
  <2>2. IsComplete(kind, size, r, made[i], BeginsAt(made, i)) BY <1>2, <2>1, CompleteStays
  <2>3. made[i].at \in Nat BY <2>1 DEF IsComplete
  <2> QED BY <1>2, <2>1, <2>2, <2>3
<1>9. n + 1 \in Nat /\ m <= (n + 1) + 1 BY <1>1, <1>2
<1>10. CASE ~Reached(g)
  <2>1. UpdatedBy(state, c).s = g /\ UpdatedBy(state, c).bars = <<>>
    BY <1>4, <1>10 DEF Built
  <2>2. [i \in DOMAIN UpdatedBy(state, c).bars |->
            [bar |-> UpdatedBy(state, c).bars[i], at |-> n + 1]] = <<>>
    BY <2>1
  <2>3. made' = made /\ state' = g BY <1>1, <1>3, <2>1, <2>2 DEF n
  <2> QED BY <1>1, <1>2, <1>3, <1>7, <1>8, <1>9, <1>10, <2>3 DEF Collects, kind, size, M, m, R
<1>11. CASE Reached(g)
  <2> DEFINE bar == Collected(g)
             x == [bar |-> bar, at |-> n + 1]
             t == Completed(g)
  <2>1. UpdatedBy(state, c).s = t /\ UpdatedBy(state, c).bars = <<bar>>
    BY <1>4, <1>11 DEF Built
  <2>2. bar \in {Collected(s) : s \in ActivityState} BY <1>7
  <2> HIDE DEF bar
  <2>3. [i \in DOMAIN UpdatedBy(state, c).bars |->
            [bar |-> UpdatedBy(state, c).bars[i], at |-> n + 1]] = <<x>>
    BY <2>1
  <2>4. x \in R /\ x.bar = bar /\ x.at = n + 1 BY <1>9, <2>2 DEF R
  <2> HIDE DEF x
  <2>5. made' = Append(made, x) /\ state' = t
    <3>1. made' = made \o <<x>> BY <1>3, <2>3 DEF n
    <3>2. made \o <<x>> = Append(made, x) BY <1>1, <2>4
    <3> QED BY <1>3, <2>1, <3>1, <3>2
  <2>6. /\ made' \in Seq(R) /\ Len(made') = M + 1 /\ made'[M + 1] = x
        /\ \A i \in 1 .. M : made'[i] = made[i]
    BY <1>1, <2>4, <2>5, AppendProperties DEF M
  <2>7. BeginsAt(made', M + 1) = m
    <3>1. CASE M = 0
      BY <3>1 DEF BeginsAt, m
    <3>2. CASE M # 0
      <4>1. (M + 1) - 1 = M /\ M \in 1 .. M /\ M + 1 # 1 BY <1>5, <3>2
      <4> QED BY <2>6, <4>1 DEF BeginsAt, m
    <3> QED BY <3>1, <3>2
  <2>8. ASSUME NEW i \in 1 .. M PROVE BeginsAt(made', i) = BeginsAt(made, i)
    <3>1. i # 1 => i - 1 \in 1 .. M BY <1>5
    <3> QED BY <2>6, <3>1 DEF BeginsAt
  <2>9. BeginsAt(made', (M + 1) + 1) = (n + 1) + 1
    <3>1. ((M + 1) + 1) - 1 = M + 1 /\ (M + 1) + 1 # 1 BY <1>5
    <3> QED BY <2>4, <2>6, <3>1 DEF BeginsAt
  <2>10. IsComplete(kind, size, r, x, m)
    <3>1. m \in Nat \ {0} /\ n + 1 \in Nat /\ m <= n + 1 /\ (n + 1) - 1 = n BY <1>1, <1>2
    <3>2. Short(kind, size, r, m, n) BY <1>1, <1>2, ShortStays
    <3>3. Short(kind, size, r, m, (n + 1) - 1) BY <3>1, <3>2
    <3> QED BY <1>7, <1>11, <2>4, <3>1, <3>3 DEF IsComplete, bar
  <2>11. \A i \in 1 .. M + 1 :
            IsComplete(kind, size, r, made'[i], BeginsAt(made', i)) /\ made'[i].at <= n + 1
    <3> SUFFICES ASSUME NEW i \in 1 .. M + 1
                 PROVE  IsComplete(kind, size, r, made'[i], BeginsAt(made', i)) /\ made'[i].at <= n + 1
      OBVIOUS
    <3>1. CASE i \in 1 .. M
      BY <1>8, <2>6, <2>8, <3>1
    <3>2. CASE i = M + 1
      BY <1>9, <2>4, <2>6, <2>7, <2>10, <3>2
    <3> QED BY <1>5, <3>1, <3>2
  <2>12. /\ t \in ActivityState /\ t.kind = kind /\ t.threshold = size
         /\ t.count = 0 /\ t.measure = 0 /\ t.prev = <<r[n + 1].close>>
         /\ t.sign = IF kind = "run" THEN 0 ELSE g.sign
    BY <1>7, Completes
  <2> HIDE DEF t
  <2>13. /\ Gathered(r, (n + 1) + 1, n + 1, t) /\ Weighed(r, (n + 1) + 1, n + 1, t)
         /\ ~Reached(t)
    <3>1. PICK k \in Nat : k = n + 1 /\ k # 0 BY <1>2
    <3>2. t.kind = "imbalance" => t.sign = SideIn(r, k) BY <1>7, <2>12, <3>1 DEF Weighed
    <3>3. t.kind = "run" => t.sign = 0 BY <2>12
    <3>4. t.prev = IF k = 0 THEN <<>> ELSE <<r[k].close>>
      <4>1. t.prev = <<r[k].close>> BY <2>12, <3>1
      <4> QED BY <3>1, <4>1
    <3>5. Gathered(r, k + 1, k, t) /\ Weighed(r, k + 1, k, t) /\ ~Reached(t)
      <4>1. t \in ActivityState /\ t.count = 0 /\ t.measure = 0 BY <2>12
      <4> QED BY ONLY k \in Nat, <3>2, <3>3, <3>4, <4>1, EmptyBar
    <3> QED BY <3>1, <3>5
  <2>14. Short(kind, size, r, (n + 1) + 1, n + 1)
    <3>1. ((n + 1) + 1) .. (n + 1) = {} BY <1>2
    <3> QED BY <3>1 DEF Short
  <2>15. (n + 1) + 1 \in Nat \ {0} /\ (n + 1) + 1 <= (n + 1) + 1 BY <1>2
  <2> QED BY <1>2, <1>3, <2>5, <2>6, <2>9, <2>11, <2>12, <2>13, <2>14, <2>15
          DEF Collects, kind, size, R
<1> QED BY <1>10, <1>11

LEMMA CollectsAlways == BarSpec => []Collects
<1>0. Nothing' => Collects' BY NothingCollects, PTL
<1>1. ASSUME BarInit PROVE Collects
  <2>1. CASE builder.kind \in Activity
    <3>1. builder \in Builders /\ seen = <<>> /\ made = <<>> /\ state = NewBuilder(builder)
      BY <1>1 DEF BarInit
    <3>2. builder.size \in Nat \ {0} BY <3>1, BarBuilderAssumption
    <3>3. state = NewActivity(builder.kind, builder.size) BY <2>1, <3>1, NewOfKinds
    <3> QED BY <2>1, <3>1, <3>2, <3>3, NewCollector, NothingCollects DEF Nothing
  <2>2. CASE builder.kind \notin Activity
    BY <2>2 DEF Collects
  <2> QED BY <2>1, <2>2
<1>2. BarsFed /\ Collects /\ [BarNext]_barVars => Collects'
  <2> SUFFICES ASSUME BarsFed, Collects, [BarNext]_barVars PROVE Collects'
    OBVIOUS
  <2>1. builder' = builder BY DEF BarNext, BarUpdate, BarReset, barVars
  <2>2. CASE builder.kind \notin Activity
    BY <2>1, <2>2 DEF Collects
  <2>3. CASE builder.kind \in Activity
    <3>1. ASSUME NEW c \in Candles(builder), BarUpdate(c) PROVE Collects'
      BY <2>3, <3>1, CollectsByUpdate
    <3>2. ASSUME BarReset PROVE Collects'
      <4>1. seen' = <<>> /\ made' = <<>> /\ state' = ActivityCleared(state)
        BY <2>3, <3>2 DEF BarReset
      <4>2. /\ state \in ActivityState /\ state.kind = builder.kind
            /\ state.threshold = builder.size
        BY <2>3 DEF Collects
      <4>3. /\ state' \in ActivityState /\ state'.kind = builder.kind
            /\ state'.threshold = builder.size /\ state'.count = 0 /\ state'.measure = 0
            /\ state'.prev = <<>> /\ state'.sign = 0
        BY <4>1, <4>2, ClearedCollector
      <4>4. Nothing' BY <2>1, <2>3, <4>1, <4>3 DEF Nothing
      <4> QED BY <1>0, <4>4
    <3>3. ASSUME UNCHANGED barVars PROVE Collects'
      <4>1. builder' = builder /\ state' = state /\ seen' = seen /\ made' = made
        BY <3>3 DEF barVars
      <4> QED BY <4>1 DEF Collects
    <3> QED BY <3>1, <3>2, <3>3 DEF BarNext
  <2> QED BY <2>2, <2>3
<1> QED BY <1>1, <1>2, BarsFedAlways, PTL DEF BarSpec

\* THEOREM.  The bars a builder hands out cover the stream of candles in order,
\* without a gap or an overlap, for every builder, every candle and every number of
\* candles: a collected bar is exactly its candles and ends with the first of them
\* that reaches the threshold, and a price-driven bar joins on to the one before it.
THEOREM BarsCoverStream == BarSpec => []BarsCoverTheStream
<1>1. ASSUME BarsFed, Linked, Collects PROVE BarsCoverTheStream
  <2>1. builder.kind \in PriceDriven =>
           \A i \in 2 .. Len(made) : Joins(made[i - 1].bar, made[i].bar)
    BY <1>1 DEF Linked
  <2>2. ASSUME builder.kind \in Activity
        PROVE  LET begin(i) == IF i = 1 THEN 1 ELSE made[i - 1].at + 1
               IN  /\ \A i \in DOMAIN made :
                         /\ Covers(made[i].bar, begin(i), made[i].at)
                         /\ Measure(begin(i), made[i].at) >= builder.size
                         /\ \A n \in begin(i) .. made[i].at - 1 : Measure(begin(i), n) < builder.size
                   /\ \A n \in begin(Len(made) + 1) .. Len(seen) :
                         Measure(begin(Len(made) + 1), n) < builder.size
    <3> DEFINE R == [bar : {Collected(s) : s \in ActivityState}, at : Nat]
    <3>1. /\ made \in Seq(R)
          /\ \A i \in 1 .. Len(made) :
                IsComplete(builder.kind, builder.size, seen, made[i], BeginsAt(made, i))
          /\ BeginsAt(made, Len(made) + 1) \in Nat \ {0}
          /\ Short(builder.kind, builder.size, seen, BeginsAt(made, Len(made) + 1), Len(seen))
      BY <1>1, <2>2 DEF Collects
    <3>2. DOMAIN made = 1 .. Len(made) /\ Len(seen) \in Nat BY <1>1, <3>1 DEF BarsFed
    <3> HIDE DEF R
    <3>3. ASSUME NEW i \in 1 .. Len(made)
          PROVE  /\ Covers(made[i].bar, BeginsAt(made, i), made[i].at)
                 /\ Measure(BeginsAt(made, i), made[i].at) >= builder.size
                 /\ \A n \in BeginsAt(made, i) .. made[i].at - 1 :
                       Measure(BeginsAt(made, i), n) < builder.size
      <4> DEFINE m == BeginsAt(made, i)
                 at == made[i].at
      <4>1. /\ m \in Nat \ {0} /\ at \in Nat /\ m <= at
            /\ CoversIn(builder.kind, seen, made[i].bar, m, at)
            /\ MeasureIn(builder.kind, seen, m, at) >= builder.size
            /\ \A j \in m .. at - 1 : MeasureIn(builder.kind, seen, m, j) < builder.size
        BY <3>1 DEF IsComplete, Short
      <4> HIDE DEF m, at
      <4>2. Covers(made[i].bar, m, at) /\ Measure(m, at) >= builder.size BY <4>1, Readings
      <4>3. ASSUME NEW j \in m .. at - 1 PROVE Measure(m, j) < builder.size
        <5>1. j \in Nat BY <4>1
        <5> QED BY <4>1, <5>1, Readings
      <4> QED BY <4>2, <4>3 DEF m, at
    <3>4. ASSUME NEW n \in BeginsAt(made, Len(made) + 1) .. Len(seen)
          PROVE  Measure(BeginsAt(made, Len(made) + 1), n) < builder.size
      <4>1. n \in Nat BY <3>1, <3>2
      <4> QED BY <3>1, <4>1, Readings DEF Short
    <3> QED BY <3>2, <3>3, <3>4 DEF BeginsAt
  <2> QED BY <2>1, <2>2 DEF BarsCoverTheStream
<1> QED BY <1>1, BarsFedAlways, LinkedAlways, CollectsAlways, PTL

=============================================================================
