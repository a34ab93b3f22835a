---------------------------- MODULE Chain_proofs ----------------------------
(***************************************************************************)
(* Chains of indicators, whatever the kinds, the periods, the number of    *)
(* stages and the inputs, infinities included: readiness and warm-up; and  *)
(* that what a stage answers is the function of its window that defines    *)
(* its kind, however the indicator gets there.                             *)
(***************************************************************************)
EXTENDS Chain, SequenceTheorems, FiniteSetTheorems, WellFoundedInduction, TLAPS

-----------------------------------------------------------------------------
(* Induction, with a set in place of a predicate. *)

LEMMA SmallestOf ==
    ASSUME NEW S \in SUBSET Nat, S # {}
    PROVE  \E x \in S : \A y \in S : ~(y < x)
<1> DEFINE R == {ss \in Nat \X Nat : ss[1] < ss[2]}
<1>1. IsWellFoundedOn(R, Nat)
  BY NatLessThanWellFounded DEF OpToRel
<1>2. \A x, y \in Nat : y < x => <<y, x>> \in R
  OBVIOUS
<1> HIDE DEF R
<1>3. \E x \in S : \A y \in S : ~(<<y, x>> \in R)
  BY <1>1, WFMin
<1> QED BY <1>2, <1>3

LEMMA SetInduction ==
    ASSUME NEW S, 0 \in S, \A n \in Nat : n \in S => n + 1 \in S
    PROVE  \A n \in Nat : n \in S
<1> SUFFICES ASSUME NEW k \in Nat, k \notin S PROVE FALSE
  OBVIOUS
<1> DEFINE T == {n \in Nat : n \notin S}
<1>1. T \in SUBSET Nat /\ T # {}
  OBVIOUS
<1>2. PICK x \in T : \A y \in T : ~(y < x)
  BY <1>1, SmallestOf
<1>3. x # 0 /\ x - 1 \in Nat /\ x - 1 < x
  BY <1>2
<1>4. x - 1 \in S
  BY <1>2, <1>3
<1>5. (x - 1) + 1 = x
  BY <1>2
<1> QED BY <1>2, <1>3, <1>4, <1>5

-----------------------------------------------------------------------------
(* A stage counts the inputs of its warm-up.  Its windows hold values of   *)
(* any set: infinities pass through some kinds and not through others.     *)

Stage == [kind : Kinds, period : Nat \ {0}]
IsSeq(w) == \E S : w \in Seq(S)

LEMMA SeqEmpty == IsSeq(<<>>) /\ Len(<<>>) = 0
<1>1. <<>> \in Seq({}) /\ Len(<<>>) = 0
  OBVIOUS
<1> QED BY <1>1 DEF IsSeq

LEMMA SeqGrows ==
    ASSUME NEW w, IsSeq(w), NEW x
    PROVE  IsSeq(Append(w, x)) /\ Len(Append(w, x)) = Len(w) + 1 /\ Len(w) \in Nat
<1>1. PICK S : w \in Seq(S)
  BY DEF IsSeq
<1>2. w \in Seq(S \cup {x}) /\ x \in S \cup {x}
  BY <1>1
<1>3. Append(w, x) \in Seq(S \cup {x}) /\ Len(Append(w, x)) = Len(w) + 1
  BY <1>2, AppendProperties
<1> QED BY <1>1, <1>3, LenProperties DEF IsSeq

LEMMA SeqShrinks ==
    ASSUME NEW w, IsSeq(w), Len(w) # 0
    PROVE  IsSeq(Tail(w)) /\ Len(Tail(w)) = Len(w) - 1
<1>1. PICK S : w \in Seq(S)
  BY DEF IsSeq
<1>2. w # <<>>
  BY <1>1
<1>3. Tail(w) \in Seq(S) /\ Len(Tail(w)) = Len(w) - 1
  BY <1>1, <1>2, HeadTailProperties
<1> QED BY <1>3 DEF IsSeq

\* The inputs a stage has taken, up to its warm-up.
Taken(stage, s) ==
    CASE stage.kind \in {"sma", "wma"} -> s.count
      [] stage.kind \in {"median", "mad"} -> Len(s.window)
      [] stage.kind = "stddev" -> IF s.last # None THEN stage.period ELSE Len(s.window)
      [] stage.kind = "max_drawdown" -> IF s.last # None THEN stage.period ELSE Len(s.back)
      [] stage.kind = "ulcer" -> IF s.last # None THEN 2 * stage.period - 1 ELSE s.count
      [] OTHER -> IF s.seen THEN 1 ELSE 0

\* What the counting rests on, kind by kind.
RingSound(stage, s, fields) ==
    DOMAIN s = fields /\ s.period = stage.period /\ s.count \in 0 .. stage.period
SmaFields == {"period", "buf", "head", "count", "sum", "since"}
WmaFields == {"period", "buf", "head", "count", "weightSum", "valueSum", "laps"}

SortedSound(stage, s) ==
    /\ DOMAIN s = {"period", "window", "sorted"}
    /\ s.period = stage.period /\ IsSeq(s.window) /\ Len(s.window) <= stage.period

StdDevSound(stage, s) ==
    /\ DOMAIN s = {"period", "window", "moments", "last"}
    /\ s.period = stage.period
    /\ s.last = None => IsSeq(s.window) /\ Len(s.window) < stage.period

\* Until it is full, a drawdown's window is all in the newer half.
MaxDrawdownSound(stage, s) ==
    /\ DOMAIN s = {"period", "front", "back", "records", "cursor", "closedWorst", "last"}
    /\ s.period = stage.period
    /\ s.last = None => s.front = <<>> /\ IsSeq(s.back) /\ Len(s.back) < stage.period

\* The squares begin once the first window of an ulcer index is full.
UlcerSound(stage, s) ==
    /\ DOMAIN s = {"period", "count", "deque", "squares", "sum", "last"}
    /\ s.period = stage.period
    /\ s.last = None =>
          /\ s.count \in 0 .. 2 * stage.period - 2 /\ IsSeq(s.squares)
          /\ Len(s.squares) = IF s.count < stage.period THEN 0
                              ELSE s.count - stage.period + 1

Sound(stage, s) ==
    CASE stage.kind = "sma" -> RingSound(stage, s, SmaFields)
      [] stage.kind = "wma" -> RingSound(stage, s, WmaFields)
      [] stage.kind \in {"median", "mad"} -> SortedSound(stage, s)
      [] stage.kind = "stddev" -> StdDevSound(stage, s)
      [] stage.kind = "max_drawdown" -> MaxDrawdownSound(stage, s)
      [] stage.kind = "ulcer" -> UlcerSound(stage, s)
      [] stage.kind = "running_drawdown" ->
             DOMAIN s = {"peak", "current", "max", "seen"} /\ s.seen \in BOOLEAN
      [] stage.kind = "drawdown_duration" ->
             DOMAIN s = {"peak", "underWater", "seen"} /\ s.seen \in BOOLEAN

LEMMA KindCases ==
    ASSUME NEW stage \in Stage
    PROVE  /\ stage.period \in Nat \ {0}
           /\ \/ stage.kind = "sma" \/ stage.kind = "wma"
              \/ stage.kind = "median" \/ stage.kind = "mad"
              \/ stage.kind = "stddev" \/ stage.kind = "max_drawdown"
              \/ stage.kind = "ulcer" \/ stage.kind = "running_drawdown"
              \/ stage.kind = "drawdown_duration"
  BY DEF Stage, Kinds, Windowed

\* A stage that counts the inputs of its warm-up.
Counts(stage, s, n) == Sound(stage, s) /\ Taken(stage, s) = n

LEMMA StageNew ==
    ASSUME NEW stage \in Stage
    PROVE  Counts(stage, New(stage), 0)
<1>0. stage.period \in Nat \ {0}
  BY KindCases
<1>1. CASE stage.kind = "sma"
  BY <1>0, <1>1 DEF New, NewSma, Counts, Sound, RingSound, SmaFields, Taken
<1>2. CASE stage.kind = "wma"
  <2>1. New(stage) = NewWma(stage.period)
    BY <1>2 DEF New
  <2>2. /\ DOMAIN NewWma(stage.period) = WmaFields
        /\ NewWma(stage.period).period = stage.period
        /\ NewWma(stage.period).count = 0
    BY DEF NewWma, WmaFields
  <2> QED BY <1>0, <1>2, <2>1, <2>2 DEF Counts, Sound, RingSound, Taken
<1>3. CASE stage.kind = "median" \/ stage.kind = "mad"
  <2>1. New(stage) = NewSortedWindow(stage.period)
    BY <1>3 DEF New
  <2>2. SortedSound(stage, NewSortedWindow(stage.period))
        /\ NewSortedWindow(stage.period).window = <<>>
    BY <1>0, SeqEmpty DEF NewSortedWindow, SortedSound
  <2> QED BY <1>3, <2>1, <2>2, SeqEmpty DEF Counts, Sound, Taken
<1>4. CASE stage.kind = "stddev"
  BY <1>0, <1>4, SeqEmpty DEF New, NewStdDev, Counts, Sound, StdDevSound, Taken, None
<1>5. CASE stage.kind = "max_drawdown"
  BY <1>0, <1>5, SeqEmpty
     DEF New, NewMaxDrawdown, Counts, Sound, MaxDrawdownSound, Taken, None
<1>6. CASE stage.kind = "ulcer"
  BY <1>0, <1>6, SeqEmpty DEF New, NewUlcer, Counts, Sound, UlcerSound, Taken, None
<1>7. CASE stage.kind = "running_drawdown"
  BY <1>7 DEF New, NewRunningDrawdown, Counts, Sound, Taken
<1>8. CASE stage.kind = "drawdown_duration"
  BY <1>8 DEF New, NewDrawdownDuration, Counts, Sound, Taken
<1> QED BY <1>1, <1>2, <1>3, <1>4, <1>5, <1>6, <1>7, <1>8, KindCases

LEMMA StageCleared ==
    ASSUME NEW stage \in Stage, NEW s, Sound(stage, s)
    PROVE  Counts(stage, Cleared(stage, s), 0)
<1>0. stage.period \in Nat \ {0}
  BY KindCases
<1>1. CASE stage.kind = "sma"
  <2>1. Cleared(stage, s) = Clear(s) /\ RingSound(stage, s, SmaFields)
    BY <1>1 DEF Cleared, Sound
  <2>2. RingSound(stage, Clear(s), SmaFields) /\ Clear(s).count = 0
    BY <1>0, <2>1 DEF Clear, RingSound, SmaFields
  <2> QED BY <1>1, <2>1, <2>2 DEF Counts, Sound, Taken
<1>2. CASE stage.kind = "wma"
  <2>1. Cleared(stage, s) = WmaCleared(s) /\ RingSound(stage, s, WmaFields)
    BY <1>2 DEF Cleared, Sound
  <2>2. RingSound(stage, WmaCleared(s), WmaFields) /\ WmaCleared(s).count = 0
    BY <1>0, <2>1 DEF WmaCleared, RingSound, WmaFields
  <2> QED BY <1>2, <2>1, <2>2 DEF Counts, Sound, Taken
<1>3. CASE ~(stage.kind = "sma" \/ stage.kind = "wma")
  BY <1>3, StageNew DEF Cleared
<1> QED BY <1>1, <1>2, <1>3

LEMMA StageRange ==
    ASSUME NEW stage \in Stage, NEW s, Sound(stage, s)
    PROVE  /\ WarmupOfStage(stage) \in Nat \ {0}
           /\ Taken(stage, s) \in 0 .. WarmupOfStage(stage)
           /\ IsReadyStage(stage, s) <=> Taken(stage, s) = WarmupOfStage(stage)
<1>0. stage.period \in Nat \ {0}
  BY KindCases
<1>1. CASE stage.kind = "sma" \/ stage.kind = "wma"
  <2>1. WarmupOfStage(stage) = stage.period
    BY <1>1 DEF WarmupOfStage, Windowed
  <2>2. s.period = stage.period /\ s.count \in 0 .. stage.period
    BY <1>1 DEF Sound, RingSound
  <2> QED BY <1>0, <1>1, <2>1, <2>2 DEF Taken, IsReadyStage
<1>2. CASE stage.kind = "median" \/ stage.kind = "mad"
  <2>1. WarmupOfStage(stage) = stage.period
    BY <1>2 DEF WarmupOfStage, Windowed
  <2>2. s.period = stage.period /\ Len(s.window) \in 0 .. stage.period
    <3>1. SortedSound(stage, s)
      BY <1>2 DEF Sound
    <3>2. IsSeq(s.window) /\ Len(s.window) <= stage.period /\ s.period = stage.period
      BY <3>1 DEF SortedSound
    <3> QED BY <1>0, <3>2, SeqGrows
  <2> QED BY <1>0, <1>2, <2>1, <2>2 DEF Taken, IsReadyStage
<1>3. CASE stage.kind = "stddev"
  <2>1. WarmupOfStage(stage) = stage.period
    BY <1>3 DEF WarmupOfStage, Windowed
  <2>2. s.last = None => Len(s.window) \in 0 .. stage.period /\ Len(s.window) # stage.period
    BY <1>0, <1>3, SeqGrows DEF Sound, StdDevSound
  <2> QED BY <1>0, <1>3, <2>1, <2>2 DEF Taken, IsReadyStage
<1>4. CASE stage.kind = "max_drawdown"
  <2>1. WarmupOfStage(stage) = stage.period
    BY <1>4 DEF WarmupOfStage, Windowed
  <2>2. s.last = None => Len(s.back) \in 0 .. stage.period /\ Len(s.back) # stage.period
    BY <1>0, <1>4, SeqGrows DEF Sound, MaxDrawdownSound
  <2> QED BY <1>0, <1>4, <2>1, <2>2 DEF Taken, IsReadyStage
<1>5. CASE stage.kind = "ulcer"
  <2>1. WarmupOfStage(stage) = 2 * stage.period - 1
    BY <1>5 DEF WarmupOfStage, Windowed
  <2>2. s.last = None => s.count \in 0 .. 2 * stage.period - 2
    BY <1>5 DEF Sound, UlcerSound
  <2> QED BY <1>0, <1>5, <2>1, <2>2 DEF Taken, IsReadyStage
<1>6. CASE stage.kind = "running_drawdown" \/ stage.kind = "drawdown_duration"
  <2>1. WarmupOfStage(stage) = 1
    BY <1>6 DEF WarmupOfStage, Windowed
  <2>2. s.seen \in BOOLEAN
    BY <1>6 DEF Sound
  <2>3. Taken(stage, s) = (IF s.seen THEN 1 ELSE 0) /\ (IsReadyStage(stage, s) <=> s.seen)
    BY <1>6 DEF Taken, IsReadyStage
  <2> QED BY <2>1, <2>2, <2>3
<1> QED BY <1>1, <1>2, <1>3, <1>4, <1>5, <1>6, KindCases

\* A stage that is ready has a value, and no other has.
LEMMA StageValue ==
    ASSUME NEW stage \in Stage, NEW s
    PROVE  ValueOf(stage, s) # None <=> IsReadyStage(stage, s)
<1>1. CASE stage.kind = "sma"
  BY <1>1 DEF ValueOf, IsReadyStage, Value, Full, Some, None
<1>2. CASE stage.kind = "wma"
  BY <1>2 DEF ValueOf, IsReadyStage, Some, None
<1>3. CASE stage.kind = "median" \/ stage.kind = "mad"
  BY <1>3 DEF ValueOf, IsReadyStage, Some, None
<1>4. CASE stage.kind = "stddev" \/ stage.kind = "max_drawdown" \/ stage.kind = "ulcer"
  BY <1>4 DEF ValueOf, IsReadyStage, None
<1>5. CASE stage.kind = "running_drawdown" \/ stage.kind = "drawdown_duration"
  BY <1>5 DEF ValueOf, IsReadyStage, Some, None
<1> QED BY <1>1, <1>2, <1>3, <1>4, <1>5, KindCases

-----------------------------------------------------------------------------
(* One finite input, kind by kind. *)

\* One more input is counted, up to the warm-up.
OneMore(stage, n) == IF n = WarmupOfStage(stage) THEN n ELSE n + 1

LEMMA SmaFed ==
    ASSUME NEW stage \in Stage, stage.kind = "sma", NEW s, Sound(stage, s),
           NEW x, IsFinite(x)
    PROVE  Counts(stage, Fed(stage, s, x), OneMore(stage, Taken(stage, s)))
<1>0. stage.period \in Nat \ {0} /\ WarmupOfStage(stage) = stage.period
  BY KindCases DEF WarmupOfStage, Windowed
<1>1. RingSound(stage, s, SmaFields) /\ Taken(stage, s) = s.count
  BY DEF Sound, Taken
<1>2. Fed(stage, s, x) = Updated(s, x)
  BY DEF Fed
<1> DEFINE e == Enter(s, x)
<1>3. /\ DOMAIN e = SmaFields /\ e.period = stage.period
      /\ e.count = IF s.count = stage.period THEN s.count ELSE s.count + 1
  BY <1>1 DEF Enter, Full, RingSound, SmaFields
<1>4. Updated(s, x) = Reseed(e, e.head)
  BY DEF Updated
<1> HIDE DEF e
<1>5. /\ DOMAIN Reseed(e, e.head) = SmaFields
      /\ Reseed(e, e.head).period = stage.period
      /\ Reseed(e, e.head).count = e.count
  BY <1>3 DEF Reseed, SmaFields
<1>6. e.count = OneMore(stage, s.count) /\ e.count \in 0 .. stage.period
  BY <1>0, <1>1, <1>3 DEF RingSound, OneMore
<1> QED BY <1>1, <1>2, <1>4, <1>5, <1>6 DEF Counts, Sound, RingSound, Taken

LEMMA WmaFed ==
    ASSUME NEW stage \in Stage, stage.kind = "wma", NEW s, Sound(stage, s), NEW x
    PROVE  Counts(stage, Fed(stage, s, x), OneMore(stage, Taken(stage, s)))
<1>0. stage.period \in Nat \ {0} /\ WarmupOfStage(stage) = stage.period
  BY KindCases DEF WarmupOfStage, Windowed
<1>1. RingSound(stage, s, WmaFields) /\ Taken(stage, s) = s.count
  BY DEF Sound, Taken
<1>2. Fed(stage, s, x) = WmaUpdated(s, x)
  BY DEF Fed
<1> DEFINE moved == [s EXCEPT !.buf[s.head] = x,
                              !.head = IF s.head = s.period THEN 1 ELSE @ + 1]
<1>3. DOMAIN moved = WmaFields /\ moved.period = s.period /\ moved.count = s.count
  BY <1>1 DEF RingSound, WmaFields
<1> DEFINE t == WmaUpdated(s, x)
<1>4. \/ /\ s.count < s.period
         /\ \E w : t = [moved EXCEPT !.valueSum = @ + x, !.count = @ + 1, !.weightSum = w]
      \/ /\ ~(s.count < s.period)
         /\ \E v, w, l : t = [moved EXCEPT !.valueSum = v, !.weightSum = w, !.laps = l]
  <2> DEFINE wraps == s.head = s.period
             sums == SlideSums(s, x)
             reseeds == wraps /\ s.laps + 1 = ReseedEvery
  <2>1. CASE s.count < s.period
    <3>1. t = [moved EXCEPT
                  !.valueSum = @ + x,
                  !.count = @ + 1,
                  !.weightSum = IF s.count + 1 = s.period THEN Weighted(OldestFirst(moved))
                                ELSE @]
      BY <2>1 DEF WmaUpdated
    <3> HIDE DEF moved, t
    <3> QED BY <2>1, <3>1
  <2>2. CASE ~(s.count < s.period)
    <3>1. t = [moved EXCEPT
                  !.valueSum = IF reseeds THEN Sigma(moved.buf) ELSE sums.values,
                  !.weightSum = IF reseeds THEN Weighted(OldestFirst(moved))
                                ELSE sums.weights,
                  !.laps = IF reseeds THEN 0 ELSE IF wraps THEN @ + 1 ELSE @]
      BY <2>2 DEF WmaUpdated
    <3> HIDE DEF moved, t, sums, reseeds, wraps
    <3> QED BY <2>2, <3>1
  <2> QED BY <2>1, <2>2
<1> HIDE DEF moved, t
<1>5. /\ DOMAIN t = WmaFields /\ t.period = s.period
      /\ t.count = IF s.count < s.period THEN s.count + 1 ELSE s.count
  BY <1>3, <1>4 DEF WmaFields
<1>6. t.count = OneMore(stage, s.count) /\ t.count \in 0 .. stage.period
  BY <1>0, <1>1, <1>5 DEF RingSound, OneMore
<1> QED BY <1>1, <1>2, <1>5, <1>6 DEF Counts, Sound, RingSound, Taken, t

LEMMA SortedFed ==
    ASSUME NEW stage \in Stage, stage.kind = "median" \/ stage.kind = "mad",
           NEW s, Sound(stage, s), NEW x
    PROVE  Counts(stage, Fed(stage, s, x), OneMore(stage, Taken(stage, s)))
<1>0. stage.period \in Nat \ {0} /\ WarmupOfStage(stage) = stage.period
  BY KindCases DEF WarmupOfStage, Windowed
<1>1. SortedSound(stage, s) /\ Taken(stage, s) = Len(s.window)
  BY DEF Sound, Taken
<1>2. Fed(stage, s, x) = SortedWindowUpdated(s, x)
  BY DEF Fed
<1> DEFINE t == SortedWindowUpdated(s, x)
           kept == IF Len(s.window) = s.period THEN Tail(s.window) ELSE s.window
<1>3. /\ DOMAIN t = {"period", "window", "sorted"}
      /\ t.period = s.period /\ t.window = Append(kept, x)
  BY <1>1 DEF SortedWindowUpdated, SortedSound
<1>4. /\ s.period = stage.period /\ IsSeq(s.window) /\ Len(s.window) <= stage.period
      /\ Len(s.window) \in Nat
  BY <1>1, SeqGrows DEF SortedSound
<1>5. /\ IsSeq(kept)
      /\ Len(kept) = IF Len(s.window) = stage.period THEN stage.period - 1
                     ELSE Len(s.window)
  BY <1>0, <1>4, SeqShrinks
<1> HIDE DEF t, kept
<1>6. /\ IsSeq(t.window)
      /\ Len(t.window) = OneMore(stage, Len(s.window))
      /\ Len(t.window) <= stage.period
  BY <1>0, <1>3, <1>4, <1>5, SeqGrows DEF OneMore
<1>7. SortedSound(stage, t)
  BY <1>3, <1>4, <1>6 DEF SortedSound
<1> QED BY <1>1, <1>2, <1>6, <1>7 DEF Counts, Sound, Taken, t

LEMMA StdDevFed ==
    ASSUME NEW stage \in Stage, stage.kind = "stddev", NEW s, Sound(stage, s), NEW x
    PROVE  Counts(stage, Fed(stage, s, x), OneMore(stage, Taken(stage, s)))
<1>0. stage.period \in Nat \ {0} /\ WarmupOfStage(stage) = stage.period
  BY KindCases DEF WarmupOfStage, Windowed
<1>1. /\ StdDevSound(stage, s)
      /\ Taken(stage, s) = IF s.last # None THEN stage.period ELSE Len(s.window)
  BY DEF Sound, Taken
<1>2. Fed(stage, s, x) = StdDevUpdated(s, x)
  BY DEF Fed
<1> DEFINE t == StdDevUpdated(s, x)
           kept == IF Len(s.window) = s.period THEN Tail(s.window) ELSE s.window
<1>3. \E v : /\ DOMAIN t = {"period", "window", "moments", "last"}
             /\ t.period = s.period /\ t.window = Append(kept, x)
             /\ t.last = IF Len(t.window) < s.period THEN s.last ELSE <<v>>
  <2> DEFINE w == Append(kept, x)
  <2>1. \E m : t = [s EXCEPT !.window = w, !.moments = m,
                             !.last = IF Len(w) < s.period THEN @
                                      ELSE <<Variance(m, s.period)>>]
    BY DEF StdDevUpdated
  <2>2. DOMAIN s = {"period", "window", "moments", "last"}
    BY <1>1 DEF StdDevSound
  <2> HIDE DEF w, t
  <2>3. PICK m : t = [s EXCEPT !.window = w, !.moments = m,
                               !.last = IF Len(w) < s.period THEN @
                                        ELSE <<Variance(m, s.period)>>]
    BY <2>1
  <2>4. /\ DOMAIN t = {"period", "window", "moments", "last"}
        /\ t.period = s.period /\ t.window = w
        /\ t.last = IF Len(w) < s.period THEN s.last ELSE <<Variance(m, s.period)>>
    BY <2>2, <2>3
  <2> QED BY <2>4 DEF w
<1>4. s.period = stage.period
  BY <1>1 DEF StdDevSound
<1> HIDE DEF t
<1>5. CASE s.last # None
  <2>1. t.last # None
    BY <1>3, <1>5 DEF None
  <2> QED BY <1>0, <1>1, <1>2, <1>3, <1>4, <1>5, <2>1
          DEF Counts, Sound, StdDevSound, Taken, OneMore, t
<1>6. CASE s.last = None
  <2>1. IsSeq(s.window) /\ Len(s.window) < stage.period /\ Len(s.window) \in Nat
    BY <1>1, <1>6, SeqGrows DEF StdDevSound
  <2>2. kept = s.window
    BY <1>0, <1>4, <2>1
  <2>3. IsSeq(t.window) /\ Len(t.window) = Len(s.window) + 1
    BY <1>3, <2>1, <2>2, SeqGrows
  <2>4. t.last = None <=> Len(t.window) < stage.period
    BY <1>3, <1>4, <1>6 DEF None
  <2>5. StdDevSound(stage, t)
    BY <1>3, <1>4, <2>3, <2>4 DEF StdDevSound
  <2>6. Taken(stage, t) = Len(s.window) + 1
    BY <1>0, <2>1, <2>3, <2>4 DEF Taken
  <2> QED BY <1>0, <1>1, <1>2, <1>6, <2>1, <2>5, <2>6 DEF Counts, Sound, OneMore, t
<1> QED BY <1>5, <1>6

\* As long as a maximum drawdown has no value, inputs only enter the newer half.
LEMMA PushBackFields ==
    ASSUME NEW s, NEW x,
           DOMAIN s = {"period", "front", "back", "records", "cursor", "closedWorst", "last"}
    PROVE  LET t == PushBack(s, x)
           IN  /\ DOMAIN t = DOMAIN s
               /\ t.period = s.period /\ t.front = s.front /\ t.last = s.last
               /\ t.back = Append(s.back, x)
<1> DEFINE n == Len(s.records)
<1>1. CASE n > 0 /\ x <= s.records[n].peak
  <2>1. PushBack(s, x) = [s EXCEPT
                             !.back = Append(@, x),
                             !.records[n].low = Smaller(@, x),
                             !.records[n].lowSoFar = Smaller(@, x)]
    BY <1>1 DEF PushBack
  <2> HIDE DEF n
  <2> QED BY <2>1
<1>2. CASE ~(n > 0 /\ x <= s.records[n].peak)
  <2>1. \E w, r : PushBack(s, x) = [s EXCEPT !.back = Append(@, x), !.closedWorst = w,
                                             !.records = r]
    BY <1>2 DEF PushBack
  <2> QED BY <2>1
<1> QED BY <1>1, <1>2

LEMMA WorstFields ==
    ASSUME NEW s,
           DOMAIN s = {"period", "front", "back", "records", "cursor", "closedWorst", "last"}
    PROVE  /\ DOMAIN Worst(s) = DOMAIN s /\ Worst(s).period = s.period
           /\ Worst(s).last # None
<1> DEFINE entry == IF s.front = <<>> THEN [peak |-> Bottom, worst |-> 0] ELSE Last(s.front)
           m == MoveCursor(s, entry.peak)
<1>1. DOMAIN m = DOMAIN s /\ m.period = s.period
  BY DEF MoveCursor
<1>2. \E v : Worst(s) = [m EXCEPT !.last = <<v>>]
  BY DEF Worst
<1> HIDE DEF m
<1> QED BY <1>1, <1>2 DEF None

LEMMA MaxDrawdownFed ==
    ASSUME NEW stage \in Stage, stage.kind = "max_drawdown", NEW s, Sound(stage, s), NEW x
    PROVE  Counts(stage, Fed(stage, s, x), OneMore(stage, Taken(stage, s)))
<1>0. stage.period \in Nat \ {0} /\ WarmupOfStage(stage) = stage.period
  BY KindCases DEF WarmupOfStage, Windowed
<1>1. /\ MaxDrawdownSound(stage, s)
      /\ Taken(stage, s) = IF s.last # None THEN stage.period ELSE Len(s.back)
  BY DEF Sound, Taken
<1>2. Fed(stage, s, x) = MaxDrawdownUpdated(s, x)
  BY DEF Fed
<1> DEFINE fields == {"period", "front", "back", "records", "cursor", "closedWorst", "last"}
           pushed == PushBack(s, x)
           full == Len(pushed.front) + Len(pushed.back) > s.period
           refilled == IF full /\ pushed.front = <<>> THEN RefillFront(pushed) ELSE pushed
           slid == IF full THEN [refilled EXCEPT !.front = Front(@)] ELSE refilled
           t == MaxDrawdownUpdated(s, x)
<1>3. t = IF Len(slid.front) + Len(slid.back) < s.period THEN slid ELSE Worst(slid)
  BY DEF MaxDrawdownUpdated
<1>4. DOMAIN s = fields /\ s.period = stage.period
  BY <1>1 DEF MaxDrawdownSound
<1>5. /\ DOMAIN pushed = fields /\ pushed.period = s.period /\ pushed.front = s.front
      /\ pushed.last = s.last /\ pushed.back = Append(s.back, x)
  BY <1>4, PushBackFields
<1> HIDE DEF pushed, t
<1>6. DOMAIN refilled = fields /\ refilled.period = s.period /\ refilled.last = s.last
  BY <1>5 DEF RefillFront
<1> HIDE DEF refilled
<1>7. DOMAIN slid = fields /\ slid.period = s.period /\ slid.last = s.last
  BY <1>6
<1>8. CASE s.last # None
  <2>1. DOMAIN t = fields /\ t.period = stage.period /\ t.last # None
    <3> HIDE DEF slid
    <3> QED BY <1>3, <1>4, <1>7, <1>8, WorstFields
  <2> QED BY <1>0, <1>1, <1>2, <1>8, <2>1
          DEF Counts, Sound, MaxDrawdownSound, Taken, OneMore, t
<1>9. CASE s.last = None
  <2>1. /\ s.front = <<>> /\ IsSeq(s.back) /\ Len(s.back) < stage.period
        /\ Len(s.back) \in Nat
    BY <1>1, <1>9, SeqGrows DEF MaxDrawdownSound
  <2>2. IsSeq(pushed.back) /\ Len(pushed.back) = Len(s.back) + 1
    BY <1>5, <2>1, SeqGrows
  <2>3. Len(pushed.front) = 0 /\ pushed.front = <<>>
    BY <1>5, <2>1, SeqEmpty
  <2>4. ~full
    BY <1>0, <1>4, <2>1, <2>2, <2>3
  <2>5. slid = pushed
    BY <2>4 DEF refilled
  <2> HIDE DEF slid
  <2>a. Len(slid.front) = 0 /\ Len(slid.back) = Len(s.back) + 1
    BY <2>2, <2>3, <2>5
  <2>6. CASE Len(s.back) + 1 < stage.period
    <3>1. t = pushed
      <4>1. Len(slid.front) + Len(slid.back) < s.period
        BY <1>0, <1>4, <2>1, <2>a, <2>6
      <4> QED BY <1>3, <2>5, <4>1
    <3>2. MaxDrawdownSound(stage, t) /\ Taken(stage, t) = Len(s.back) + 1
      BY <1>4, <1>5, <1>9, <2>2, <2>3, <2>6, <3>1 DEF MaxDrawdownSound, Taken
    <3> QED BY <1>0, <1>1, <1>2, <1>9, <2>1, <3>2 DEF Counts, Sound, OneMore, t
  <2>7. CASE Len(s.back) + 1 = stage.period
    <3>1. t = Worst(pushed)
      <4>1. ~(Len(slid.front) + Len(slid.back) < s.period)
        BY <1>0, <1>4, <2>1, <2>a, <2>7
      <4> QED BY <1>3, <2>5, <4>1
    <3>2. DOMAIN t = fields /\ t.period = stage.period /\ t.last # None
      BY <1>4, <1>5, <3>1, WorstFields
    <3>3. MaxDrawdownSound(stage, t) /\ Taken(stage, t) = stage.period
      BY <3>2 DEF MaxDrawdownSound, Taken
    <3> QED BY <1>0, <1>1, <1>2, <1>9, <2>1, <2>7, <3>3 DEF Counts, Sound, OneMore, t
  <2> QED BY <1>0, <2>1, <2>6, <2>7
<1> QED BY <1>8, <1>9

LEMMA UlcerFed ==
    ASSUME NEW stage \in Stage, stage.kind = "ulcer", NEW s, Sound(stage, s), NEW x
    PROVE  Counts(stage, Fed(stage, s, x), OneMore(stage, Taken(stage, s)))
<1>0. stage.period \in Nat \ {0} /\ WarmupOfStage(stage) = 2 * stage.period - 1
  BY KindCases DEF WarmupOfStage, Windowed
<1>1. /\ UlcerSound(stage, s)
      /\ Taken(stage, s) = IF s.last # None THEN 2 * stage.period - 1 ELSE s.count
  BY DEF Sound, Taken
<1>2. Fed(stage, s, x) = UlcerUpdated(s, x)
  BY DEF Fed
<1> DEFINE fields == {"period", "count", "deque", "squares", "sum", "last"}
           t == UlcerUpdated(s, x)
           kept == IF Len(s.squares) = s.period THEN Tail(s.squares) ELSE s.squares
<1>3. DOMAIN s = fields /\ s.period = stage.period
  BY <1>1 DEF UlcerSound
<1>4. PICK deque, square, sum :
          LET moved == [s EXCEPT !.count = @ + 1, !.deque = deque]
              squares == Append(kept, square)
          IN  t = IF moved.count < s.period THEN moved
                  ELSE [moved EXCEPT !.squares = squares, !.sum = sum,
                                     !.last = IF Len(squares) < s.period THEN @ ELSE <<sum>>]
  <2> DEFINE deque == TrailingPeaks(s, x)
             square == SquaredDrawdown(deque[1].value, x)
             sum == s.sum - (IF Len(s.squares) = s.period THEN Head(s.squares) ELSE 0) + square
             moved == [s EXCEPT !.count = @ + 1, !.deque = deque]
             squares == Append(kept, square)
  <2>1. squares = Append(IF Len(s.squares) = s.period THEN Tail(s.squares) ELSE s.squares,
                         square)
    OBVIOUS
  <2>2. t = IF moved.count < s.period THEN moved
            ELSE [moved EXCEPT !.squares = squares, !.sum = sum,
                               !.last = IF Len(squares) < s.period THEN @ ELSE <<sum>>]
    BY <2>1 DEF UlcerUpdated
  <2> HIDE DEF deque, square, sum, kept, t
  <2> QED BY <2>2
<1> DEFINE moved == [s EXCEPT !.count = @ + 1, !.deque = deque]
           squares == Append(kept, square)
           begun == [moved EXCEPT !.squares = squares, !.sum = sum,
                                  !.last = IF Len(squares) < s.period THEN @ ELSE <<sum>>]
<1>5. t = IF moved.count < s.period THEN moved ELSE begun
  BY <1>4
<1> HIDE DEF t, kept
<1>6. /\ DOMAIN moved = fields /\ moved.period = s.period /\ moved.last = s.last
      /\ moved.count = s.count + 1 /\ moved.squares = s.squares
  BY <1>3
<1> HIDE DEF moved, squares
<1>7. /\ DOMAIN begun = fields /\ begun.period = s.period /\ begun.count = s.count + 1
      /\ begun.squares = squares
      /\ begun.last = IF Len(squares) < s.period THEN s.last ELSE <<sum>>
  BY <1>6
<1> HIDE DEF begun
<1>8. CASE s.last # None
  <2>1. DOMAIN t = fields /\ t.period = stage.period /\ t.last # None
    <3>1. begun.last # None
      BY <1>7, <1>8 DEF None
    <3> QED BY <1>3, <1>5, <1>6, <1>7, <1>8, <3>1
  <2> QED BY <1>0, <1>1, <1>2, <1>8, <2>1 DEF Counts, Sound, UlcerSound, Taken, OneMore, t
<1>9. CASE s.last = None
  <2> DEFINE p == stage.period
  <2>1. /\ s.count \in 0 .. 2 * p - 2 /\ IsSeq(s.squares)
        /\ Len(s.squares) = IF s.count < p THEN 0 ELSE s.count - p + 1
    BY <1>1, <1>9 DEF UlcerSound
  <2>2. kept = s.squares
    BY <1>0, <1>3, <2>1 DEF kept
  <2>3. IsSeq(squares) /\ Len(squares) = Len(s.squares) + 1
    BY <2>1, <2>2, SeqGrows DEF squares
  <2>4. CASE s.count + 1 < p
    <3>1. t = moved
      BY <1>0, <1>3, <1>5, <1>6, <2>1, <2>4
    <3>2. s.count + 1 \in 0 .. 2 * p - 2 /\ s.count < p /\ s.count # 2 * p - 1
      BY <1>0, <2>1, <2>4
    <3>3. UlcerSound(stage, moved)
      BY <1>0, <1>3, <1>6, <2>1, <2>4, <3>2 DEF UlcerSound
    <3>4. Taken(stage, moved) = s.count + 1
      BY <1>6, <1>9 DEF Taken
    <3> QED BY <1>0, <1>1, <1>2, <1>9, <3>1, <3>2, <3>3, <3>4 DEF Counts, Sound, OneMore, t
  <2>5. CASE ~(s.count + 1 < p)
    <3>1. t = begun
      BY <1>0, <1>3, <1>5, <1>6, <2>1, <2>5
    <3>2. Len(squares) = s.count + 1 - p + 1 /\ s.count # 2 * p - 1
      BY <1>0, <2>1, <2>3, <2>5
    <3>3. CASE s.count + 1 < 2 * p - 1
      <4>1. begun.last = None
        BY <1>0, <1>3, <1>7, <1>9, <2>1, <3>2, <3>3
      <4>2. UlcerSound(stage, begun)
        <5>1. DOMAIN begun = fields /\ begun.period = p /\ begun.count = s.count + 1
          BY <1>3, <1>7
        <5>2. s.count + 1 \in 0 .. 2 * p - 2 /\ ~(s.count + 1 < p)
          BY <1>0, <2>1, <2>5, <3>3
        <5>3. IsSeq(begun.squares) /\ Len(begun.squares) = s.count + 1 - p + 1
          BY <1>7, <2>3, <3>2
        <5>4. begun.count \in 0 .. 2 * p - 2 /\ ~(begun.count < p)
          BY <5>1, <5>2
        <5>5. Len(begun.squares) = IF begun.count < p THEN 0 ELSE begun.count - p + 1
          BY <1>0, <2>1, <5>1, <5>3, <5>4
        <5> QED BY <5>1, <5>3, <5>4, <5>5 DEF UlcerSound
      <4>3. Taken(stage, begun) = s.count + 1
        BY <1>7, <4>1 DEF Taken
      <4> QED BY <1>0, <1>1, <1>2, <1>9, <3>1, <3>2, <4>2, <4>3
              DEF Counts, Sound, OneMore, t
    <3>4. CASE ~(s.count + 1 < 2 * p - 1)
      <4>1. s.count + 1 = 2 * p - 1
        BY <1>0, <2>1, <3>4
      <4>2. begun.last # None
        BY <1>0, <1>3, <1>7, <2>1, <3>2, <4>1 DEF None
      <4>3. UlcerSound(stage, begun)
        BY <1>3, <1>7, <4>2 DEF UlcerSound
      <4>4. Taken(stage, begun) = s.count + 1
        BY <4>1, <4>2 DEF Taken
      <4> QED BY <1>0, <1>1, <1>2, <1>9, <3>1, <3>2, <4>3, <4>4
              DEF Counts, Sound, OneMore, t
    <3> QED BY <3>3, <3>4
  <2> QED BY <2>4, <2>5
<1> QED BY <1>8, <1>9

\* Every kind counts a finite input of its warm-up, and none after it.
LEMMA StageFed ==
    ASSUME NEW stage \in Stage, NEW s, Sound(stage, s), NEW x, IsFinite(x)
    PROVE  Counts(stage, Fed(stage, s, x), OneMore(stage, Taken(stage, s)))
<1>1. CASE stage.kind = "sma"
  BY <1>1, SmaFed
<1>2. CASE stage.kind = "wma"
  BY <1>2, WmaFed
<1>3. CASE stage.kind = "median" \/ stage.kind = "mad"
  BY <1>3, SortedFed
<1>4. CASE stage.kind = "stddev"
  BY <1>4, StdDevFed
<1>5. CASE stage.kind = "max_drawdown"
  BY <1>5, MaxDrawdownFed
<1>6. CASE stage.kind = "ulcer"
  BY <1>6, UlcerFed
<1>7. CASE stage.kind = "running_drawdown" \/ stage.kind = "drawdown_duration"
  <2>1. /\ s.seen \in BOOLEAN /\ Taken(stage, s) = IF s.seen THEN 1 ELSE 0
        /\ WarmupOfStage(stage) = 1
    BY <1>7 DEF Sound, Taken, WarmupOfStage, Windowed
  <2>2. OneMore(stage, Taken(stage, s)) = 1
    BY <2>1 DEF OneMore
  <2>3. CASE stage.kind = "running_drawdown"
    <3> DEFINE t == RunningDrawdownUpdated(s, x)
    <3>1. DOMAIN t = {"peak", "current", "max", "seen"} /\ t.seen = TRUE
      BY DEF RunningDrawdownUpdated
    <3>2. Fed(stage, s, x) = t
      BY <2>3 DEF Fed
    <3> HIDE DEF t
    <3> QED BY <2>2, <2>3, <3>1, <3>2 DEF Counts, Sound, Taken
  <2>4. CASE stage.kind = "drawdown_duration"
    <3> DEFINE t == DrawdownDurationUpdated(s, x)
    <3>1. DOMAIN s = {"peak", "underWater", "seen"}
      BY <2>4 DEF Sound
    <3>2. DOMAIN t = {"peak", "underWater", "seen"} /\ t.seen = TRUE
      BY <2>1, <3>1 DEF DrawdownDurationUpdated
    <3>3. Fed(stage, s, x) = t
      BY <2>4 DEF Fed
    <3> HIDE DEF t
    <3> QED BY <2>2, <2>4, <3>2, <3>3 DEF Counts, Sound, Taken
  <2> QED BY <1>7, <2>3, <2>4
<1> QED BY <1>1, <1>2, <1>3, <1>4, <1>5, <1>6, <1>7, KindCases

-----------------------------------------------------------------------------
(* An update visits the stages one after the other. *)

LEMMA StepsFacts ==
    ASSUME NEW x, Len(lineup) \in Nat
    PROVE  /\ Steps(x)[0].answer = Some(x)
           /\ \A n \in 1 .. Len(lineup) :
                  Steps(x)[n] = Step(lineup[n], stages[n], Steps(x)[n - 1].answer)
<1> DEFINE N == Len(lineup)
           first == [s |-> <<>>, answer |-> Some(x)]
           Upto(g, k) ==
               /\ g = [n \in 0 .. k |-> g[n]] /\ g[0] = first
               /\ \A n \in 1 .. k : g[n] = Step(lineup[n], stages[n], g[n - 1].answer)
           S == {k \in Nat : \E g : Upto(g, k)}
<1>1. 0 \in S
  <2> DEFINE g == [n \in 0 .. 0 |-> first]
  <2>1. g = [n \in 0 .. 0 |-> g[n]] /\ g[0] = first
    OBVIOUS
  <2>2. Upto(g, 0)
    BY <2>1
  <2> HIDE DEF Upto, g
  <2> QED BY <2>2
<1>2. \A k \in Nat : k \in S => k + 1 \in S
  <2> SUFFICES ASSUME NEW k \in Nat, k \in S PROVE k + 1 \in S
    OBVIOUS
  <2>1. PICK g : Upto(g, k)
    OBVIOUS
  <2> DEFINE h == [n \in 0 .. k + 1 |->
                      IF n = k + 1 THEN Step(lineup[n], stages[n], g[k].answer) ELSE g[n]]
  <2>2. h[0] = first /\ h[k + 1] = Step(lineup[k + 1], stages[k + 1], g[k].answer)
    BY <2>1
  <2>3. \A n \in 0 .. k : h[n] = g[n]
    OBVIOUS
  <2>4. h = [n \in 0 .. k + 1 |-> h[n]]
    OBVIOUS
  <2> HIDE DEF h, first
  <2>5. \A n \in 1 .. k : h[n] = Step(lineup[n], stages[n], h[n - 1].answer)
    <3> SUFFICES ASSUME NEW n \in 1 .. k
                 PROVE  h[n] = Step(lineup[n], stages[n], h[n - 1].answer)
      OBVIOUS
    <3>1. h[n] = g[n] /\ h[n - 1] = g[n - 1]
      BY <2>3
    <3> QED BY <2>1, <3>1
  <2>6. h[k + 1] = Step(lineup[k + 1], stages[k + 1], h[(k + 1) - 1].answer)
    <3>1. (k + 1) - 1 = k /\ h[k] = g[k]
      BY <2>3
    <3> QED BY <2>2, <3>1
  <2>7. \A n \in 1 .. k + 1 : h[n] = Step(lineup[n], stages[n], h[n - 1].answer)
    <3>1. \A n \in 1 .. k + 1 : n \in 1 .. k \/ n = k + 1
      OBVIOUS
    <3> QED BY <2>5, <2>6, <3>1
  <2>8. Upto(h, k + 1)
    BY <2>2, <2>4, <2>7, Zenon
  <2>9. k + 1 \in Nat
    OBVIOUS
  <2> HIDE DEF Upto
  <2> QED BY <2>8, <2>9
<1> HIDE DEF S
<1>3. N \in S
  BY <1>1, <1>2, SetInduction
<1> DEFINE Is(g) == g = [n \in 0 .. N |->
                            IF n = 0 THEN first
                            ELSE Step(lineup[n], stages[n], g[n - 1].answer)]
<1>4. \E g : Is(g)
  <2>1. PICK g : Upto(g, N)
    <3> HIDE DEF Upto
    <3> QED BY <1>3 DEF S
  <2>2. \A n \in 0 .. N : n = 0 \/ n \in 1 .. N
    OBVIOUS
  <2> HIDE DEF first
  <2>3. \A n \in 0 .. N : g[n] = IF n = 0 THEN first
                                 ELSE Step(lineup[n], stages[n], g[n - 1].answer)
    BY <2>1, <2>2
  <2>4. Is(g)
    BY <2>1, <2>3
  <2> QED BY <2>4
<1>5. Steps(x) = CHOOSE g : Is(g)
  BY DEF Steps
<1> HIDE DEF first
<1>6. Is(Steps(x))
  <2> HIDE DEF Is
  <2> QED BY <1>4, <1>5
<1>7. \A n \in 0 .. N : Steps(x)[n] = IF n = 0 THEN first
                            ELSE Step(lineup[n], stages[n], Steps(x)[n - 1].answer)
  BY <1>6
<1>8. 0 \in 0 .. N /\ \A n \in 1 .. N : n \in 0 .. N /\ n # 0
  OBVIOUS
<1> QED BY <1>7, <1>8 DEF first

-----------------------------------------------------------------------------
(* The warm-up of a chain, stage by stage. *)

LEMMA LineupFacts ==
    ASSUME lineup \in Lineups
    PROVE  /\ Len(lineup) \in Nat \ {0} /\ Stages = 1 .. Len(lineup)
           /\ \A n \in Stages : /\ lineup[n] \in Stage
                                /\ WarmupOfStage(lineup[n]) \in Nat \ {0}
<1>1. lineup \in Seq(Stage) /\ lineup # <<>>
  BY ChainAssumption DEF Stage
<1>2. Len(lineup) \in Nat \ {0} /\ Stages = 1 .. Len(lineup)
  BY <1>1, LenProperties DEF Stages
<1>3. \A n \in Stages : lineup[n] \in Stage
  BY <1>1, <1>2, ElementOfSeq
<1>4. \A stage \in Stage : WarmupOfStage(stage) \in Nat \ {0}
  BY StageNew, StageRange DEF Counts
<1> QED BY <1>2, <1>3, <1>4

\* V[n] is the warm-up of the first n stages.
AreWarmups(V) ==
    /\ V[0] = 1 /\ V[Len(lineup)] = Warmup
    /\ \A n \in 0 .. Len(lineup) : V[n] \in Nat \ {0}
    /\ \A n \in Stages : V[n] = V[n - 1] + WarmupOfStage(lineup[n]) - 1
Warmups == CHOOSE V : AreWarmups(V)

LEMMA LargestOf ==
    ASSUME NEW k \in Nat, NEW s \in SUBSET (1 .. k), s # {}
    PROVE  Max(s) \in s /\ \A y \in s : Max(s) >= y
<1> DEFINE T == {k - y : y \in s}
<1>0. \A y \in s : k - y \in Nat
  OBVIOUS
<1>1. T \in SUBSET Nat /\ T # {}
  BY <1>0
<1>2. PICK t \in T : \A u \in T : ~(u < t)
  BY <1>1, SmallestOf
<1>3. PICK x \in s : t = k - x
  BY <1>2
<1>4. \A y \in s : x >= y
  <2> SUFFICES ASSUME NEW y \in s PROVE x >= y
    OBVIOUS
  <2>1. ~(k - y < k - x)
    BY <1>2, <1>3
  <2> QED BY <2>1
<1> QED BY <1>3, <1>4 DEF Max

LEMMA WarmupsExist ==
    ASSUME lineup \in Lineups
    PROVE  AreWarmups(Warmups)
<1> DEFINE N == Len(lineup)
           Ws == [n \in Stages |-> WarmupOfStage(lineup[n])]
           Next1(g, s) == IF s = {} THEN 1 ELSE WarmupOf(g[s \ {Max(s)}], Ws[Max(s)])
           Upto(g, k) == /\ g = [s \in SUBSET (1 .. k) |-> g[s]]
                         /\ \A s \in SUBSET (1 .. k) : g[s] = Next1(g, s)
           S == {k \in Nat : \E g : Upto(g, k)}
<1>0. /\ N \in Nat \ {0} /\ Stages = 1 .. N
      /\ \A n \in Stages : Ws[n] = WarmupOfStage(lineup[n]) /\ Ws[n] \in Nat \ {0}
  BY LineupFacts
<1> HIDE DEF Ws
<1>1. 0 \in S
  <2> DEFINE g == [s \in SUBSET (1 .. 0) |-> 1]
  <2>1. g = [s \in SUBSET (1 .. 0) |-> g[s]]
    OBVIOUS
  <2>2. \A s \in SUBSET (1 .. 0) : s = {} /\ g[s] = 1
    OBVIOUS
  <2> HIDE DEF g
  <2>3. Upto(g, 0)
    BY <2>1, <2>2, Zenon
  <2> HIDE DEF Upto
  <2> QED BY <2>3
<1>2. \A k \in Nat : k \in S => k + 1 \in S
  <2> SUFFICES ASSUME NEW k \in Nat, k \in S PROVE k + 1 \in S
    OBVIOUS
  <2>1. PICK g : Upto(g, k)
    OBVIOUS
  <2> DEFINE h == [s \in SUBSET (1 .. k + 1) |->
                      IF k + 1 \in s THEN WarmupOf(g[s \ {k + 1}], Ws[k + 1]) ELSE g[s]]
  <2>2. h = [s \in SUBSET (1 .. k + 1) |-> h[s]]
    OBVIOUS
  <2>3. \A s \in SUBSET (1 .. k) : s \in SUBSET (1 .. k + 1) /\ ~(k + 1 \in s)
    OBVIOUS
  <2>4. \A s \in SUBSET (1 .. k) : h[s] = g[s]
    BY <2>3
  <2>5. \A s \in SUBSET (1 .. k + 1) :
            k + 1 \in s => h[s] = WarmupOf(g[s \ {k + 1}], Ws[k + 1])
    OBVIOUS
  <2> HIDE DEF h
  <2>6. ASSUME NEW s \in SUBSET (1 .. k + 1) PROVE h[s] = Next1(h, s)
    <3>1. CASE k + 1 \in s
      <4>1. Max(s) \in s /\ \A y \in s : Max(s) >= y
        BY <3>1, LargestOf
      <4>2. Max(s) = k + 1
        BY <3>1, <4>1
      <4>3. s \ {k + 1} \in SUBSET (1 .. k)
        OBVIOUS
      <4>4. h[s] = WarmupOf(h[s \ {k + 1}], Ws[k + 1])
        BY <2>4, <2>5, <3>1, <4>3
      <4>5. s # {}
        BY <3>1
      <4> QED BY <4>2, <4>4, <4>5
    <3>2. CASE ~(k + 1 \in s)
      <4>1. s \in SUBSET (1 .. k)
        BY <3>2
      <4>2. h[s] = g[s] /\ g[s] = Next1(g, s)
        BY <2>1, <2>4, <4>1
      <4>3. CASE s = {}
        BY <4>2, <4>3
      <4>4. CASE s # {}
        <5>1. s \ {Max(s)} \in SUBSET (1 .. k)
          BY <4>1
        <5>2. h[s \ {Max(s)}] = g[s \ {Max(s)}]
          BY <2>4, <5>1
        <5> QED BY <4>2, <4>4, <5>2
      <4> QED BY <4>3, <4>4
    <3> QED BY <3>1, <3>2
  <2>7. Upto(h, k + 1)
    <3> HIDE DEF Next1
    <3> QED BY <2>2, <2>6, Zenon
  <2>8. k + 1 \in Nat
    OBVIOUS
  <2> HIDE DEF Upto
  <2> QED BY <2>7, <2>8
<1> HIDE DEF S
<1>3. N \in S
  BY <1>0, <1>1, <1>2, SetInduction
<1> DEFINE Is(g) == g = [s \in SUBSET DOMAIN Ws |-> Next1(g, s)]
           iter == CHOOSE g : Is(g)
<1>4. DOMAIN Ws = 1 .. N
  BY <1>0 DEF Ws
<1>5. \E g : Is(g)
  <2>1. PICK g : Upto(g, N)
    <3> HIDE DEF Upto
    <3> QED BY <1>3 DEF S
  <2>2. Is(g)
    <3> HIDE DEF Next1
    <3>1. g = [s \in SUBSET (1 .. N) |-> Next1(g, s)]
      BY <2>1
    <3> QED BY <1>4, <3>1
  <2> HIDE DEF Is
  <2> QED BY <2>2
<1>6. Is(iter)
  <2> HIDE DEF Is
  <2> QED BY <1>5
<1>7. Warmup = iter[1 .. N]
  <2>1. Warmup = (CHOOSE g : g = [s \in SUBSET DOMAIN Ws |->
                      IF s = {} THEN 1 ELSE WarmupOf(g[s \ {Max(s)}], Ws[Max(s)])])[DOMAIN Ws]
    BY DEF Warmup, FoldLeft, MapThenFoldSet, Ws
  <2> QED BY <1>4, <2>1
<1> HIDE DEF iter
<1>8. \A s \in SUBSET (1 .. N) : iter[s] = Next1(iter, s)
  <2> HIDE DEF Next1
  <2> QED BY <1>4, <1>6
<1> DEFINE V == [k \in 0 .. N |-> iter[1 .. k]]
<1>9. V[0] = 1 /\ V[N] = Warmup
  <2>1. 1 .. 0 = {} /\ {} \in SUBSET (1 .. N) /\ 0 \in 0 .. N /\ N \in 0 .. N
    BY <1>0
  <2>2. iter[{}] = 1
    BY <1>8, <2>1
  <2> QED BY <1>7, <2>1, <2>2
<1>10. \A k \in 1 .. N : V[k] = WarmupOf(V[k - 1], Ws[k])
  <2> SUFFICES ASSUME NEW k \in 1 .. N PROVE V[k] = WarmupOf(V[k - 1], Ws[k])
    OBVIOUS
  <2>1. /\ 1 .. k \in SUBSET (1 .. N) /\ 1 .. k # {} /\ k \in 1 .. k
        /\ (1 .. k) \ {k} = 1 .. k - 1 /\ k \in 0 .. N /\ k - 1 \in 0 .. N
    BY <1>0
  <2>2. Max(1 .. k) \in 1 .. k /\ \A y \in 1 .. k : Max(1 .. k) >= y
    <3>1. k \in Nat
      BY <1>0
    <3> QED BY <2>1, <3>1, LargestOf
  <2>3. Max(1 .. k) = k
    BY <1>0, <2>1, <2>2
  <2>4. iter[1 .. k] = WarmupOf(iter[1 .. k - 1], Ws[k])
    BY <1>8, <2>1, <2>3
  <2> QED BY <2>1, <2>4
<1> HIDE DEF V
<1>11. \A k \in Nat : k \in {j \in Nat : j <= N => V[j] \in Nat \ {0}}
  <2> DEFINE P == {j \in Nat : j <= N => V[j] \in Nat \ {0}}
  <2>1. 0 \in P
    BY <1>9
  <2>2. \A k \in Nat : k \in P => k + 1 \in P
    <3> SUFFICES ASSUME NEW k \in Nat, k \in P, k + 1 <= N PROVE V[k + 1] \in Nat \ {0}
      BY <1>0
    <3>1. k + 1 \in 1 .. N /\ (k + 1) - 1 = k /\ k <= N
      BY <1>0
    <3>2. V[k] \in Nat \ {0} /\ V[k + 1] = WarmupOf(V[k], Ws[k + 1])
      BY <1>10, <3>1
    <3>3. Ws[k + 1] \in Nat \ {0}
      BY <1>0, <3>1
    <3> QED BY <3>2, <3>3 DEF WarmupOf
  <2> HIDE DEF P
  <2>3. \A k \in Nat : k \in P
    BY <2>1, <2>2, SetInduction
  <2> QED BY <2>3 DEF P
<1>12. AreWarmups(V)
  <2>1. \A n \in 0 .. N : V[n] \in Nat \ {0}
    BY <1>0, <1>11
  <2>2. \A n \in 1 .. N : V[n] = V[n - 1] + Ws[n] - 1
    <3> SUFFICES ASSUME NEW n \in 1 .. N PROVE V[n] = V[n - 1] + Ws[n] - 1
      OBVIOUS
    <3>1. V[n - 1] \in Nat \ {0} /\ Ws[n] \in Nat \ {0}
      BY <1>0, <2>1
    <3> QED BY <1>10, <3>1 DEF WarmupOf
  <2> QED BY <1>0, <1>9, <2>1, <2>2 DEF AreWarmups
<1> QED BY <1>12 DEF Warmups

LEMMA WarmupsGrow ==
    ASSUME lineup \in Lineups
    PROVE  \A n \in 0 .. Len(lineup) : Warmups[n] <= Warmup
<1> DEFINE N == Len(lineup)
           V == Warmups
           P == {j \in Nat : j <= N => V[N - j] <= V[N]}
<1>1. /\ N \in Nat \ {0} /\ Stages = 1 .. N
      /\ \A n \in Stages : WarmupOfStage(lineup[n]) \in Nat \ {0}
  BY LineupFacts
<1>2. /\ V[N] = Warmup /\ \A n \in 0 .. N : V[n] \in Nat \ {0}
      /\ \A n \in Stages : V[n] = V[n - 1] + WarmupOfStage(lineup[n]) - 1
  BY WarmupsExist DEF AreWarmups
<1> HIDE DEF V
<1>3. 0 \in P
  BY <1>1, <1>2
<1>4. \A k \in Nat : k \in P => k + 1 \in P
  <2> SUFFICES ASSUME NEW k \in Nat, k \in P, k + 1 <= N PROVE V[N - (k + 1)] <= V[N]
    BY <1>1
  <2>1. /\ N - k \in 1 .. N /\ (N - k) - 1 = N - (k + 1) /\ N - (k + 1) \in 0 .. N
        /\ N - k \in 0 .. N /\ N \in 0 .. N /\ k <= N
    BY <1>1
  <2>2. V[N - k] = V[N - (k + 1)] + WarmupOfStage(lineup[N - k]) - 1
    BY <1>1, <1>2, <2>1
  <2>3. V[N - k] <= V[N]
    BY <2>1
  <2>4. /\ V[N - k] \in Nat /\ V[N - (k + 1)] \in Nat /\ V[N] \in Nat
        /\ WarmupOfStage(lineup[N - k]) \in Nat \ {0}
    BY <1>1, <1>2, <2>1
  <2> QED BY <2>2, <2>3, <2>4
<1> HIDE DEF P
<1>5. \A k \in Nat : k \in P
  BY <1>3, <1>4, SetInduction
<1> SUFFICES ASSUME NEW n \in 0 .. N PROVE V[n] <= V[N]
  BY <1>2 DEF V
<1>6. N - n \in Nat /\ N - n <= N /\ N - (N - n) = n
  BY <1>1
<1> QED BY <1>5, <1>6 DEF P

-----------------------------------------------------------------------------
(* The inductive invariant. *)

TakenBy(n) == Taken(lineup[n], stages[n])
WarmupAt(n) == WarmupOfStage(lineup[n])
Least(a, b) == IF a < b THEN a ELSE b
Most(a, b) == IF a < b THEN b ELSE a

StagesSound ==
    /\ stages = [n \in Stages |-> stages[n]] /\ DOMAIN stages = Stages
    /\ \A n \in Stages : Sound(lineup[n], stages[n])

\* Nothing reaches a stage before the one upstream of it is ready.
InOrder == \A n \in Stages : n > 1 /\ TakenBy(n) > 0 => TakenBy(n - 1) = WarmupAt(n - 1)

EmittedWhenFull == emitted <=> TakenBy(Len(lineup)) = WarmupAt(Len(lineup))

\* Infinities may hold a stage up, ...
NoneTooSoon ==
    \A n \in Stages : TakenBy(n) > 0 => accepted >= Warmups[n - 1] - 1 + TakenBy(n)

\* ... and nothing else does.
NoneTooLate ==
    ~overflowed =>
        \A n \in Stages :
            TakenBy(n) = Least(WarmupAt(n), Most(0, accepted - Warmups[n - 1] + 1))

IInv ==
    /\ lineup \in Lineups
    /\ emitted \in BOOLEAN /\ overflowed \in BOOLEAN /\ accepted \in 0 .. Warmup
    /\ StagesSound
    /\ InOrder
    /\ EmittedWhenFull
    /\ NoneTooSoon
    /\ NoneTooLate

\* What the invariant says of numbers, for the proofs below.
LEMMA NumberFacts ==
    ASSUME lineup \in Lineups, StagesSound
    PROVE  /\ Len(lineup) \in Nat \ {0} /\ Stages = 1 .. Len(lineup)
           /\ \A n \in Stages :
                  /\ lineup[n] \in Stage
                  /\ WarmupAt(n) \in Nat \ {0} /\ TakenBy(n) \in 0 .. WarmupAt(n)
                  /\ Warmups[n - 1] \in Nat \ {0} /\ Warmups[n] \in Nat \ {0}
                  /\ Warmups[n] = Warmups[n - 1] + WarmupAt(n) - 1
                  /\ Warmups[n - 1] <= Warmups[n] /\ Warmups[n] <= Warmup
           /\ Warmups[0] = 1 /\ Warmups[Len(lineup)] = Warmup /\ Warmup \in Nat \ {0}
<1> DEFINE N == Len(lineup)
           V == Warmups
<1>1. /\ N \in Nat \ {0} /\ Stages = 1 .. N
      /\ \A n \in Stages : lineup[n] \in Stage /\ WarmupAt(n) \in Nat \ {0}
  BY LineupFacts DEF WarmupAt
<1>2. /\ V[0] = 1 /\ V[N] = Warmup
      /\ \A n \in 0 .. N : V[n] \in Nat \ {0}
      /\ \A n \in Stages : V[n] = V[n - 1] + WarmupAt(n) - 1
  BY WarmupsExist DEF AreWarmups, WarmupAt
<1>3. \A n \in 0 .. N : V[n] <= Warmup
  BY WarmupsGrow
<1>4. \A n \in Stages : TakenBy(n) \in 0 .. WarmupAt(n)
  BY <1>1, StageRange DEF StagesSound, TakenBy, WarmupAt
<1> HIDE DEF V, N
<1>5. \A n \in Stages : n \in 0 .. N /\ n - 1 \in 0 .. N
  BY <1>1
<1>6. ASSUME NEW n \in Stages
      PROVE  /\ V[n - 1] \in Nat \ {0} /\ V[n] \in Nat \ {0}
             /\ V[n - 1] <= V[n] /\ V[n] <= Warmup
  <2>1. V[n - 1] \in Nat \ {0} /\ V[n] \in Nat \ {0} /\ V[n] <= Warmup
    BY <1>2, <1>3, <1>5
  <2>2. V[n] = V[n - 1] + WarmupAt(n) - 1 /\ WarmupAt(n) \in Nat \ {0}
    BY <1>1, <1>2
  <2> QED BY <2>1, <2>2
<1>7. N \in 0 .. N
  BY <1>1
<1>8. Warmup \in Nat \ {0}
  BY <1>2, <1>7
<1> QED BY <1>1, <1>2, <1>4, <1>6, <1>8 DEF V, N

LEMMA InitInvariant == Init => IInv
<1> SUFFICES ASSUME Init PROVE IInv
  OBVIOUS
<1>1. /\ Len(lineup) \in Nat \ {0} /\ Stages = 1 .. Len(lineup)
      /\ \A n \in Stages : lineup[n] \in Stage
  BY LineupFacts DEF Init
<1>2. StagesSound /\ \A n \in Stages : TakenBy(n) = 0
  <2> SUFFICES ASSUME NEW n \in Stages PROVE Counts(lineup[n], stages[n], 0)
    BY DEF StagesSound, TakenBy, Counts, Init
  <2>1. stages[n] = New(lineup[n])
    BY DEF Init
  <2> QED BY <1>1, <2>1, StageNew
<1>3. lineup \in Lineups /\ accepted = 0 /\ emitted = FALSE /\ overflowed = FALSE
  BY DEF Init
<1>4. /\ \A n \in Stages : WarmupAt(n) \in Nat \ {0} /\ Warmups[n - 1] \in Nat \ {0}
      /\ Warmup \in Nat \ {0} /\ Len(lineup) \in Stages
  BY <1>1, <1>2, <1>3, NumberFacts
<1>5. InOrder /\ NoneTooSoon
  BY <1>2 DEF InOrder, NoneTooSoon
<1>6. EmittedWhenFull
  BY <1>2, <1>3, <1>4 DEF EmittedWhenFull
<1>7. NoneTooLate
  <2> SUFFICES ASSUME NEW n \in Stages
               PROVE  TakenBy(n) = Least(WarmupAt(n), Most(0, accepted - Warmups[n - 1] + 1))
    BY DEF NoneTooLate
  <2>1. Most(0, accepted - Warmups[n - 1] + 1) = 0
    BY <1>3, <1>4 DEF Most
  <2> QED BY <1>2, <1>4, <2>1 DEF Least
<1>8. emitted \in BOOLEAN /\ overflowed \in BOOLEAN
  BY <1>3, Zenon
<1>9. accepted \in 0 .. Warmup
  <2>1. accepted = 0
    BY <1>3
  <2> QED BY <1>4, <2>1
<1> QED BY <1>2, <1>3, <1>5, <1>6, <1>7, <1>8, <1>9 DEF IInv

LEMMA ResetInvariant == IInv /\ Reset => IInv'
<1> SUFFICES ASSUME IInv, Reset PROVE IInv'
  OBVIOUS
<1>1. lineup \in Lineups /\ StagesSound /\ lineup' = lineup /\ Stages' = Stages
  BY DEF IInv, Reset, Stages
<1>2. /\ Len(lineup) \in Nat \ {0} /\ Stages = 1 .. Len(lineup)
      /\ \A n \in Stages : lineup[n] \in Stage
  BY <1>1, LineupFacts
<1>3. StagesSound' /\ \A n \in Stages : (TakenBy(n))' = 0
  <2> SUFFICES ASSUME NEW n \in Stages PROVE Counts(lineup[n], stages'[n], 0)
    BY <1>1 DEF StagesSound, TakenBy, Counts, Reset
  <2>1. stages'[n] = Cleared(lineup[n], stages[n]) /\ Sound(lineup[n], stages[n])
    BY <1>1 DEF Reset, StagesSound
  <2> QED BY <1>2, <2>1, StageCleared
<1>4. accepted' = 0 /\ emitted' = FALSE /\ overflowed' = FALSE
  BY DEF Reset
<1>5. /\ Warmup' = Warmup /\ Warmups' = Warmups
      /\ \A n \in Stages : (WarmupAt(n))' = WarmupAt(n)
  BY <1>1 DEF Warmup, Warmups, AreWarmups, WarmupAt, Stages
<1>6. /\ \A n \in Stages : WarmupAt(n) \in Nat \ {0} /\ Warmups[n - 1] \in Nat \ {0}
      /\ Warmup \in Nat \ {0} /\ Len(lineup) \in Stages
  BY <1>1, <1>2, NumberFacts
<1>7. InOrder' /\ NoneTooSoon'
  BY <1>1, <1>3 DEF InOrder, NoneTooSoon
<1>8. EmittedWhenFull'
  BY <1>1, <1>3, <1>4, <1>5, <1>6 DEF EmittedWhenFull
<1>9. NoneTooLate'
  <2> SUFFICES ASSUME NEW n \in Stages
               PROVE  (TakenBy(n))' = Least((WarmupAt(n))',
                                            Most(0, accepted' - Warmups'[n - 1] + 1))
    BY <1>1 DEF NoneTooLate
  <2>1. Most(0, accepted' - Warmups'[n - 1] + 1) = 0
    BY <1>4, <1>5, <1>6 DEF Most
  <2> QED BY <1>3, <1>5, <1>6, <2>1 DEF Least
<1>10. emitted' \in BOOLEAN /\ overflowed' \in BOOLEAN
  BY <1>4, Zenon
<1>11. accepted' \in 0 .. Warmup'
  <2>1. accepted' = 0 /\ Warmup' \in Nat
    BY <1>4, <1>5, <1>6
  <2> QED BY <2>1
<1> QED BY <1>1, <1>3, <1>7, <1>8, <1>9, <1>10, <1>11 DEF IInv

\* What an update does, said by the set of the stages that take what they are handed.
Takers(x, tk) ==
    /\ tk \in SUBSET Stages
    /\ 1 \in tk <=> IsFinite(x)
    /\ lineup' = lineup
    /\ stages' = [n \in Stages |-> stages'[n]] /\ DOMAIN stages' = Stages
    /\ \A n \in Stages :
           IF n \in tk
           THEN Counts(lineup[n], stages'[n], OneMore(lineup[n], TakenBy(n)))
           ELSE stages'[n] = stages[n]
    /\ \A n \in tk : n > 1 => n - 1 \in tk /\ Taken(lineup[n - 1], stages'[n - 1]) = WarmupAt(n - 1)
    /\ out' # None <=> /\ Len(lineup) \in tk
                       /\ Taken(lineup[Len(lineup)], stages'[Len(lineup)])
                              = WarmupAt(Len(lineup))
    /\ ~overflowed' =>
           /\ ~overflowed
           /\ \A n \in tk :
                  /\ n < Len(lineup)
                  /\ Taken(lineup[n], stages'[n]) = WarmupAt(n)
                  => n + 1 \in tk

LEMMA UpdateTakers ==
    ASSUME IInv, NEW x, Update(x)
    PROVE  \E tk : Takers(x, tk)
<1> DEFINE N == Len(lineup)
           step == Steps(x)
           takes(n) == step[n - 1].answer # None /\ IsFinite(step[n - 1].answer[1])
           tk == {n \in Stages : takes(n)}
<1>1. /\ lineup \in Lineups /\ N \in Nat \ {0} /\ Stages = 1 .. N
      /\ \A n \in Stages : lineup[n] \in Stage /\ Sound(lineup[n], stages[n])
  BY LineupFacts DEF IInv, StagesSound
<1>2. /\ step[0].answer = Some(x)
      /\ \A n \in Stages : step[n] = Step(lineup[n], stages[n], step[n - 1].answer)
  BY <1>1, StepsFacts
<1>3. /\ stages' = [n \in Stages |-> step[n].s]
      /\ out' = step[N].answer
      /\ overflowed' = (overflowed \/ \E n \in Stages :
                           step[n].answer # None /\ ~IsFinite(step[n].answer[1]))
      /\ lineup' = lineup
  BY DEF Update
<1> HIDE DEF step
<1>4. ASSUME NEW n \in Stages
      PROVE  /\ IF takes(n)
                THEN /\ step[n].s = Fed(lineup[n], stages[n], step[n - 1].answer[1])
                     /\ step[n].answer = ValueOf(lineup[n], step[n].s)
                ELSE step[n].s = stages[n] /\ step[n].answer = None
  <2>1. PICK handed : handed = step[n - 1].answer
    OBVIOUS
  <2>2. step[n] = Step(lineup[n], stages[n], handed)
    BY <1>2, <2>1
  <2>3. CASE takes(n)
    <3>1. ~(handed = None \/ ~IsFinite(handed[1]))
      BY <2>1, <2>3
    <3>2. step[n] = [s |-> Fed(lineup[n], stages[n], handed[1]),
                     answer |-> ValueOf(lineup[n], Fed(lineup[n], stages[n], handed[1]))]
      BY <2>2, <3>1 DEF Step
    <3> QED BY <2>1, <2>3, <3>2
  <2>4. CASE ~takes(n)
    <3>1. step[n] = [s |-> stages[n], answer |-> None]
      BY <2>1, <2>2, <2>4 DEF Step
    <3> QED BY <2>4, <3>1
  <2> QED BY <2>3, <2>4
<1>5. ASSUME NEW n \in Stages
      PROVE  IF takes(n) THEN Counts(lineup[n], stages'[n], OneMore(lineup[n], TakenBy(n)))
             ELSE stages'[n] = stages[n]
  <2>1. stages'[n] = step[n].s
    BY <1>3
  <2>2. CASE takes(n)
    <3>1. stages'[n] = Fed(lineup[n], stages[n], step[n - 1].answer[1])
      BY <1>4, <2>1, <2>2
    <3> QED BY <1>1, <2>2, <3>1, StageFed DEF TakenBy
  <2> QED BY <1>4, <2>1, <2>2
<1>6. ASSUME NEW n \in Stages
      PROVE  step[n].answer # None
                 <=> takes(n) /\ Taken(lineup[n], stages'[n]) = WarmupAt(n)
  <2>1. stages'[n] = step[n].s
    BY <1>3
  <2>2. CASE takes(n)
    <3>1. Sound(lineup[n], stages'[n])
      BY <1>5, <2>2 DEF Counts
    <3>2. IsReadyStage(lineup[n], stages'[n])
              <=> Taken(lineup[n], stages'[n]) = WarmupAt(n)
      BY <1>1, <3>1, StageRange DEF WarmupAt
    <3>3. step[n].answer = ValueOf(lineup[n], stages'[n])
      BY <1>4, <2>1, <2>2
    <3> QED BY <1>1, <2>2, <3>2, <3>3, StageValue
  <2> QED BY <1>4, <2>2
<1>7. 1 \in tk <=> IsFinite(x)
  <2>1. 1 \in Stages /\ 1 - 1 = 0
    BY <1>1
  <2>2. Some(x) # None /\ Some(x)[1] = x
    BY DEF Some, None
  <2> QED BY <1>2, <2>1, <2>2
<1> HIDE DEF takes
<1>8. ASSUME NEW n \in tk, n > 1
      PROVE  n - 1 \in tk /\ Taken(lineup[n - 1], stages'[n - 1]) = WarmupAt(n - 1)
  <2>1. n - 1 \in Stages
    BY <1>1, <1>8
  <2>2. step[n - 1].answer # None
    BY DEF takes
  <2> QED BY <1>6, <2>1, <2>2
<1>9. out' # None <=> N \in tk /\ Taken(lineup[N], stages'[N]) = WarmupAt(N)
  <2>1. N \in Stages
    BY <1>1
  <2> QED BY <1>3, <1>6, <2>1
<1>10. ASSUME ~overflowed', NEW n \in tk, n < N, Taken(lineup[n], stages'[n]) = WarmupAt(n)
       PROVE  n + 1 \in tk
  <2>1. n \in Stages /\ n + 1 \in Stages /\ (n + 1) - 1 = n
    BY <1>1, <1>10
  <2>2. step[n].answer # None
    BY <1>6, <1>10, <2>1
  <2>3. IsFinite(step[n].answer[1])
    BY <1>3, <1>10, <2>1, <2>2
  <2> QED BY <2>1, <2>2, <2>3 DEF takes
<1>11. ~overflowed' => ~overflowed
  BY <1>3
<1>12. Takers(x, tk)
  <2>0. stages' = [n \in Stages |-> stages'[n]]
    <3>1. \A n \in Stages : stages'[n] = step[n].s
      BY <1>3
    <3> QED BY <1>3, <3>1
  <2>1. DOMAIN stages' = Stages /\ tk \in SUBSET Stages
    BY <1>3
  <2>2. \A n \in Stages :
            IF n \in tk THEN Counts(lineup[n], stages'[n], OneMore(lineup[n], TakenBy(n)))
            ELSE stages'[n] = stages[n]
    BY <1>5
  <2> HIDE DEF tk, N
  <2> QED BY <1>3, <1>7, <1>8, <1>9, <1>10, <1>11, <2>0, <2>1, <2>2 DEF Takers, N
<1> QED BY <1>12

LEMMA UpdateNumbers ==
    ASSUME IInv, NEW x, NEW tk, Takers(x, tk)
    PROVE  /\ 1 \in Stages
           /\ tk # {} => IsFinite(x)
           /\ \A n \in Stages :
                  /\ Sound(lineup[n], stages'[n])
                  /\ (TakenBy(n))' = Taken(lineup[n], stages'[n])
                  /\ (TakenBy(n))' \in 0 .. WarmupAt(n)
                  /\ (TakenBy(n))' = IF n \in tk /\ TakenBy(n) # WarmupAt(n)
                                     THEN TakenBy(n) + 1 ELSE TakenBy(n)
<1>1. /\ lineup \in Lineups /\ Len(lineup) \in Nat \ {0} /\ Stages = 1 .. Len(lineup)
      /\ \A n \in Stages : lineup[n] \in Stage /\ Sound(lineup[n], stages[n])
  BY LineupFacts DEF IInv, StagesSound
<1>2. ASSUME NEW n \in Stages
      PROVE  /\ Sound(lineup[n], stages'[n])
             /\ (TakenBy(n))' = Taken(lineup[n], stages'[n])
             /\ (TakenBy(n))' \in 0 .. WarmupAt(n)
             /\ (TakenBy(n))' = IF n \in tk /\ TakenBy(n) # WarmupAt(n)
                                THEN TakenBy(n) + 1 ELSE TakenBy(n)
  <2>1. (TakenBy(n))' = Taken(lineup[n], stages'[n])
    BY DEF TakenBy, Takers
  <2>2. CASE n \in tk
    <3>1. Counts(lineup[n], stages'[n], OneMore(lineup[n], TakenBy(n)))
      BY <2>2 DEF Takers
    <3>2. Sound(lineup[n], stages'[n])
      BY <3>1 DEF Counts
    <3>3. Taken(lineup[n], stages'[n]) \in 0 .. WarmupAt(n)
      BY <1>1, <3>2, StageRange DEF WarmupAt
    <3>4. Taken(lineup[n], stages'[n])
              = IF TakenBy(n) = WarmupAt(n) THEN TakenBy(n) ELSE TakenBy(n) + 1
      BY <3>1 DEF Counts, OneMore, WarmupAt
    <3> QED BY <2>1, <2>2, <3>2, <3>3, <3>4
  <2>3. CASE ~(n \in tk)
    <3>1. stages'[n] = stages[n]
      BY <2>3 DEF Takers
    <3>2. Taken(lineup[n], stages[n]) \in 0 .. WarmupAt(n)
      BY <1>1, StageRange DEF WarmupAt
    <3> QED BY <1>1, <2>1, <2>3, <3>1, <3>2 DEF TakenBy
  <2> QED BY <2>2, <2>3
<1>3. ASSUME NEW n \in tk PROVE IsFinite(x)
  <2> DEFINE P == {k \in Nat : k + 1 \in tk => IsFinite(x)}
  <2>1. 0 \in P
    BY DEF Takers
  <2>2. \A k \in Nat : k \in P => k + 1 \in P
    <3> SUFFICES ASSUME NEW k \in Nat, k \in P, (k + 1) + 1 \in tk PROVE IsFinite(x)
      OBVIOUS
    <3> HIDE DEF P
    <3>0. (\A m \in tk : m > 1 => m - 1 \in tk) /\ (k + 1) + 1 > 1
      BY DEF Takers
    <3>1. ((k + 1) + 1) - 1 \in tk
      BY <3>0
    <3>2. ((k + 1) + 1) - 1 = k + 1
      OBVIOUS
    <3> QED BY <3>1, <3>2 DEF P
  <2> HIDE DEF P
  <2>3. \A k \in Nat : k \in P
    BY <2>1, <2>2, SetInduction
  <2>4. n - 1 \in Nat /\ (n - 1) + 1 = n
    BY <1>1 DEF Takers
  <2>5. n - 1 \in P
    BY <2>3, <2>4
  <2> QED BY <2>4, <2>5 DEF P
<1>4. 1 \in Stages
  BY <1>1
<1>5. tk # {} => IsFinite(x)
  BY <1>3
<1> QED BY <1>2, <1>4, <1>5

LEMMA UpdateInOrder ==
    ASSUME IInv, NEW x, NEW tk, Takers(x, tk)
    PROVE  InOrder'
<1>1. /\ lineup \in Lineups /\ StagesSound /\ InOrder
      /\ lineup' = lineup /\ Stages' = Stages
      /\ \A n \in Stages : (WarmupAt(n))' = WarmupAt(n)
  BY DEF IInv, Takers, WarmupAt, Stages
<1>2. /\ Len(lineup) \in Nat \ {0} /\ Stages = 1 .. Len(lineup)
      /\ \A n \in Stages : WarmupAt(n) \in Nat \ {0} /\ TakenBy(n) \in 0 .. WarmupAt(n)
  BY <1>1, NumberFacts
<1> SUFFICES ASSUME NEW n \in Stages, n > 1, (TakenBy(n))' > 0
             PROVE  (TakenBy(n - 1))' = WarmupAt(n - 1)
  <2>1. \A n \in Stages : n > 1 => n - 1 \in Stages
    BY <1>2
  <2> QED BY <1>1, <2>1 DEF InOrder
<1>3. n - 1 \in Stages
  BY <1>2
<1>4. CASE n \in tk
  <2>1. Taken(lineup[n - 1], stages'[n - 1]) = WarmupAt(n - 1)
    BY <1>4 DEF Takers
  <2> QED BY <1>3, <2>1, UpdateNumbers
<1>5. CASE ~(n \in tk)
  <2>1. (TakenBy(n))' = TakenBy(n)
    BY <1>5, UpdateNumbers
  <2>2. TakenBy(n - 1) = WarmupAt(n - 1)
    BY <1>1, <2>1 DEF InOrder
  <2> QED BY <1>3, <2>2, UpdateNumbers
<1> QED BY <1>4, <1>5

LEMMA UpdateEmitted ==
    ASSUME IInv, NEW x, NEW tk, Takers(x, tk), emitted' = (emitted \/ out' # None)
    PROVE  EmittedWhenFull'
<1>0. PICK N : N = Len(lineup)
  OBVIOUS
<1>1. /\ lineup \in Lineups /\ StagesSound /\ EmittedWhenFull /\ emitted \in BOOLEAN
      /\ lineup' = lineup /\ (WarmupAt(N))' = WarmupAt(N)
  BY DEF IInv, Takers, WarmupAt
<1>2. N \in Stages /\ WarmupAt(N) \in Nat \ {0} /\ TakenBy(N) \in 0 .. WarmupAt(N)
  <2>1. N \in Stages
    BY <1>0, <1>1, NumberFacts
  <2> QED BY <1>1, <2>1, NumberFacts
<1>3. /\ (TakenBy(N))' = Taken(lineup[N], stages'[N])
      /\ (TakenBy(N))' = IF N \in tk /\ TakenBy(N) # WarmupAt(N)
                         THEN TakenBy(N) + 1 ELSE TakenBy(N)
  BY <1>2, UpdateNumbers
<1>4. out' # None <=> N \in tk /\ (TakenBy(N))' = WarmupAt(N)
  BY <1>0, <1>3 DEF Takers
<1>5. emitted <=> TakenBy(N) = WarmupAt(N)
  BY <1>0, <1>1 DEF EmittedWhenFull
<1>6. emitted' <=> (TakenBy(N))' = WarmupAt(N)
  <2>1. CASE TakenBy(N) = WarmupAt(N)
    BY <1>3, <1>5, <2>1
  <2>2. CASE TakenBy(N) # WarmupAt(N)
    <3>1. (TakenBy(N))' = WarmupAt(N) => N \in tk
      BY <1>3, <2>2
    <3> QED BY <1>4, <1>5, <2>2, <3>1
  <2> QED BY <2>1, <2>2
<1> QED BY <1>0, <1>1, <1>6 DEF EmittedWhenFull

\* The history variable accepted counts finite inputs up to the warm-up.
AcceptedBy(x) == accepted' = IF IsFinite(x) /\ accepted < Warmup THEN accepted + 1 ELSE accepted

LEMMA UpdateNoneTooSoon ==
    ASSUME IInv, NEW x, NEW tk, Takers(x, tk), AcceptedBy(x)
    PROVE  NoneTooSoon'
<1>1. /\ lineup \in Lineups /\ StagesSound /\ NoneTooSoon /\ accepted \in 0 .. Warmup
      /\ lineup' = lineup /\ Stages' = Stages /\ Warmups' = Warmups
  BY DEF IInv, Takers, Stages, Warmups, AreWarmups, Warmup
<1>2. /\ Len(lineup) \in Nat \ {0} /\ Stages = 1 .. Len(lineup)
      /\ \A n \in Stages :
             /\ WarmupAt(n) \in Nat \ {0} /\ TakenBy(n) \in 0 .. WarmupAt(n)
             /\ Warmups[n - 1] \in Nat \ {0} /\ Warmups[n] \in Nat \ {0}
             /\ Warmups[n] = Warmups[n - 1] + WarmupAt(n) - 1
             /\ Warmups[n] <= Warmup
      /\ Warmups[0] = 1 /\ Warmup \in Nat \ {0}
  BY <1>1, NumberFacts
<1>3. \A n \in Stages :
          /\ (TakenBy(n))' \in 0 .. WarmupAt(n)
          /\ (TakenBy(n))' = IF n \in tk /\ TakenBy(n) # WarmupAt(n)
                             THEN TakenBy(n) + 1 ELSE TakenBy(n)
  BY UpdateNumbers
<1>4. accepted' \in Nat /\ accepted' >= accepted /\ accepted \in Nat
  BY <1>1, <1>2 DEF AcceptedBy
<1> DEFINE P == {k \in Nat : k + 1 \in Stages /\ (TakenBy(k + 1))' > 0
                                 => accepted' >= Warmups[k] - 1 + (TakenBy(k + 1))'}
\* A stage that takes an input has been handed one that was counted.
<1>5. ASSUME NEW n \in tk, TakenBy(n) # WarmupAt(n),
             n > 1 => n - 1 \in Stages /\ accepted' >= Warmups[n - 2] - 1 + (TakenBy(n - 1))'
      PROVE  accepted' >= Warmups[n - 1] - 1 + (TakenBy(n))'
  <2>1. n \in Stages /\ IsFinite(x)
    <3>1. tk \in SUBSET Stages
      BY DEF Takers
    <3>2. tk # {}
      OBVIOUS
    <3>3. IsFinite(x)
      BY <3>2, UpdateNumbers
    <3> QED BY <3>1, <3>3
  <2>2. (TakenBy(n))' = TakenBy(n) + 1
    BY <1>3, <1>5, <2>1
  <2>3. accepted' = IF accepted < Warmup THEN accepted + 1 ELSE accepted
    BY <2>1 DEF AcceptedBy
  <2>4. CASE accepted = Warmup
    <3>1. Warmups[n - 1] - 1 + WarmupAt(n) <= Warmup /\ (TakenBy(n))' <= WarmupAt(n)
      BY <1>2, <1>3, <2>1
    <3> QED BY <1>2, <1>3, <2>1, <2>3, <2>4, <3>1
  <2>5. CASE accepted < Warmup /\ TakenBy(n) > 0
    <3>1. accepted >= Warmups[n - 1] - 1 + TakenBy(n)
      BY <1>1, <2>1, <2>5 DEF NoneTooSoon
    <3> QED BY <1>2, <1>4, <2>1, <2>2, <2>3, <2>5, <3>1
  <2>6. CASE accepted < Warmup /\ ~(TakenBy(n) > 0)
    <3>1. (TakenBy(n))' = 1
      BY <1>2, <2>1, <2>2, <2>6
    <3>2. CASE n = 1
      <4>1. Warmups[n - 1] = 1
        BY <1>2, <3>2
      <4> QED BY <1>4, <2>3, <2>6, <3>1, <4>1
    <3>3. CASE n > 1
      <4>1. n - 1 \in Stages /\ (n - 1) - 1 = n - 2
        BY <1>2, <1>5, <2>1, <3>3
      <4>2. (TakenBy(n - 1))' = WarmupAt(n - 1)
        <5>1. Taken(lineup[n - 1], stages'[n - 1]) = WarmupAt(n - 1)
          BY <3>3 DEF Takers
        <5> QED BY <4>1, <5>1, UpdateNumbers
      <4>3. accepted' >= Warmups[n - 2] - 1 + WarmupAt(n - 1)
        BY <1>5, <3>3, <4>2
      <4>4. Warmups[n - 1] = Warmups[n - 2] + WarmupAt(n - 1) - 1
        BY <1>2, <4>1
      <4>5. Warmups[n - 2] \in Nat /\ WarmupAt(n - 1) \in Nat
        BY <1>2, <4>1
      <4> QED BY <1>4, <3>1, <4>3, <4>4, <4>5
    <3> QED BY <1>2, <2>1, <3>2, <3>3
  <2> QED BY <1>1, <1>2, <2>1, <2>4, <2>5, <2>6
\* One that takes nothing, or is ready already, has what it had.
<1>6. ASSUME NEW n \in Stages, ~(n \in tk) \/ TakenBy(n) = WarmupAt(n), (TakenBy(n))' > 0
      PROVE  accepted' >= Warmups[n - 1] - 1 + (TakenBy(n))'
  <2>1. (TakenBy(n))' = TakenBy(n)
    BY <1>3, <1>6
  <2>2. accepted >= Warmups[n - 1] - 1 + TakenBy(n)
    BY <1>1, <1>6, <2>1 DEF NoneTooSoon
  <2>3. Warmups[n - 1] \in Nat /\ TakenBy(n) \in Nat
    BY <1>2
  <2> QED BY <1>4, <2>1, <2>2, <2>3
<1>7. 0 \in P
  <2> SUFFICES ASSUME 0 + 1 \in Stages, (TakenBy(0 + 1))' > 0
               PROVE  accepted' >= Warmups[0] - 1 + (TakenBy(0 + 1))'
    OBVIOUS
  <2>1. 0 + 1 = 1 /\ 1 - 1 = 0
    OBVIOUS
  <2>2. 1 \in Stages /\ (TakenBy(1))' > 0
    BY <2>1
  <2>3. accepted' >= Warmups[1 - 1] - 1 + (TakenBy(1))'
    <3>1. CASE 1 \in tk /\ TakenBy(1) # WarmupAt(1)
      BY <1>5, <3>1
    <3>2. CASE ~(1 \in tk /\ TakenBy(1) # WarmupAt(1))
      BY <1>6, <2>2, <3>2
    <3> QED BY <3>1, <3>2
  <2> QED BY <2>1, <2>3
<1>8. \A k \in Nat : k \in P => k + 1 \in P
  <2> SUFFICES ASSUME NEW k \in Nat, k \in P,
                      (k + 1) + 1 \in Stages, (TakenBy((k + 1) + 1))' > 0
               PROVE  accepted' >= Warmups[k + 1] - 1 + (TakenBy((k + 1) + 1))'
    OBVIOUS
  <2> HIDE DEF P
  <2>1. PICK n \in Stages : n = (k + 1) + 1
    OBVIOUS
  <2>2. n > 1 /\ n - 1 = k + 1 /\ n - 2 = k /\ n - 1 \in Stages /\ (TakenBy(n))' > 0
    BY <1>2, <2>1
  <2>3. accepted' >= Warmups[n - 1] - 1 + (TakenBy(n))'
    <3>1. CASE n \in tk /\ TakenBy(n) # WarmupAt(n)
      <4>1. (TakenBy(n - 1))' > 0
        <5>1. Taken(lineup[n - 1], stages'[n - 1]) = WarmupAt(n - 1)
          BY <2>2, <3>1 DEF Takers
        <5>2. (TakenBy(n - 1))' = WarmupAt(n - 1)
          BY <2>2, <5>1, UpdateNumbers
        <5>3. \A m \in Stages : WarmupAt(m) \in Nat \ {0}
          BY <1>2
        <5>4. WarmupAt(n - 1) \in Nat \ {0}
          BY <2>2, <5>3
        <5> QED BY <5>2, <5>4
      <4>2. accepted' >= Warmups[k] - 1 + (TakenBy(k + 1))'
        <5>1. k + 1 \in Stages /\ (TakenBy(k + 1))' > 0
          BY <2>2, <4>1
        <5> QED BY <5>1 DEF P
      <4>3. accepted' >= Warmups[n - 2] - 1 + (TakenBy(n - 1))'
        BY <2>2, <4>2
      <4> QED BY <1>5, <2>2, <3>1, <4>3
    <3>2. CASE ~(n \in tk /\ TakenBy(n) # WarmupAt(n))
      BY <1>6, <2>2, <3>2
    <3> QED BY <3>1, <3>2
  <2> QED BY <2>1, <2>2, <2>3
<1> HIDE DEF P
<1>9. \A k \in Nat : k \in P
  BY <1>7, <1>8, SetInduction
<1> SUFFICES ASSUME NEW n \in Stages, (TakenBy(n))' > 0
             PROVE  accepted' >= Warmups[n - 1] - 1 + (TakenBy(n))'
  BY <1>1 DEF NoneTooSoon
<1>10. n - 1 \in Nat /\ (n - 1) + 1 = n
  BY <1>2
<1> QED BY <1>9, <1>10 DEF P

LEMMA UpdateNoneTooLate ==
    ASSUME IInv, NEW x, NEW tk, Takers(x, tk), AcceptedBy(x)
    PROVE  NoneTooLate'
<1>1. /\ lineup \in Lineups /\ StagesSound /\ NoneTooLate /\ accepted \in 0 .. Warmup
      /\ lineup' = lineup /\ Stages' = Stages /\ Warmups' = Warmups
      /\ \A n \in Stages : (WarmupAt(n))' = WarmupAt(n)
  BY DEF IInv, Takers, Stages, Warmups, AreWarmups, Warmup, WarmupAt
<1>2. /\ Len(lineup) \in Nat \ {0} /\ Stages = 1 .. Len(lineup)
      /\ \A n \in Stages :
             /\ WarmupAt(n) \in Nat \ {0} /\ TakenBy(n) \in 0 .. WarmupAt(n)
             /\ Warmups[n - 1] \in Nat \ {0} /\ Warmups[n] \in Nat \ {0}
             /\ Warmups[n] = Warmups[n - 1] + WarmupAt(n) - 1
             /\ Warmups[n] <= Warmup
      /\ Warmups[0] = 1 /\ Warmup \in Nat \ {0}
  BY <1>1, NumberFacts
<1>3. \A n \in Stages :
          /\ (TakenBy(n))' = Taken(lineup[n], stages'[n])
          /\ (TakenBy(n))' = IF n \in tk /\ TakenBy(n) # WarmupAt(n)
                             THEN TakenBy(n) + 1 ELSE TakenBy(n)
  BY UpdateNumbers
<1> SUFFICES ASSUME ~overflowed'
             PROVE  \A n \in Stages :
                        (TakenBy(n))' = Least(WarmupAt(n),
                                              Most(0, accepted' - Warmups[n - 1] + 1))
  BY <1>1 DEF NoneTooLate
<1>4. \A n \in Stages :
          TakenBy(n) = Least(WarmupAt(n), Most(0, accepted - Warmups[n - 1] + 1))
  BY <1>1 DEF NoneTooLate, Takers
<1>5. CASE ~IsFinite(x)
  <2>1. tk = {} /\ accepted' = accepted
    BY <1>5, UpdateNumbers DEF AcceptedBy
  <2> QED BY <1>3, <1>4, <2>1
<1>6. CASE IsFinite(x)
  \* An input gets as far as the stages that are due.
  <2> DEFINE P == {k \in Nat : k + 1 \in Stages =>
                                   (k + 1 \in tk <=> accepted + 1 >= Warmups[k])}
  <2>1. 0 \in P
    <3>1. 0 + 1 \in tk
      BY <1>6 DEF Takers
    <3>2. accepted + 1 >= Warmups[0]
      BY <1>1, <1>2
    <3> QED BY <3>1, <3>2
  <2>2. \A k \in Nat : k \in P => k + 1 \in P
    <3> SUFFICES ASSUME NEW k \in Nat, k \in P, (k + 1) + 1 \in Stages
                 PROVE  (k + 1) + 1 \in tk <=> accepted + 1 >= Warmups[k + 1]
      OBVIOUS
    <3> HIDE DEF P
    <3>1. PICK n \in Nat : n = k + 1
      OBVIOUS
    <3>2. n \in Stages /\ n + 1 \in Stages /\ n - 1 = k /\ n < Len(lineup)
      BY <1>2, <3>1
    <3>3. n \in tk <=> accepted + 1 >= Warmups[n - 1]
      BY <3>1, <3>2 DEF P
    <3>4. n + 1 \in tk <=> n \in tk /\ (TakenBy(n))' = WarmupAt(n)
      <4>1. n + 1 \in tk => n \in tk /\ Taken(lineup[n], stages'[n]) = WarmupAt(n)
        <5>1. \A m \in tk : m > 1 => m - 1 \in tk
                                     /\ Taken(lineup[m - 1], stages'[m - 1]) = WarmupAt(m - 1)
          BY DEF Takers
        <5>2. n + 1 > 1 /\ (n + 1) - 1 = n
          BY <3>1
        <5> QED BY <5>1, <5>2
      <4>2. n \in tk /\ Taken(lineup[n], stages'[n]) = WarmupAt(n) => n + 1 \in tk
        BY <3>2 DEF Takers
      <4>3. (TakenBy(n))' = Taken(lineup[n], stages'[n])
        BY <1>3, <3>2
      <4> QED BY <4>1, <4>2, <4>3
    <3>5. /\ WarmupAt(n) \in Nat \ {0} /\ TakenBy(n) \in Nat
          /\ Warmups[n - 1] \in Nat \ {0} /\ Warmups[n] \in Nat \ {0}
          /\ Warmups[n] = Warmups[n - 1] + WarmupAt(n) - 1 /\ accepted \in Nat
      BY <1>1, <1>2, <3>2
    <3>6. TakenBy(n) = Least(WarmupAt(n), Most(0, accepted - Warmups[n - 1] + 1))
      BY <1>4, <3>2
    <3>7. CASE n \in tk
      <4>1. (TakenBy(n))' = IF TakenBy(n) # WarmupAt(n) THEN TakenBy(n) + 1 ELSE TakenBy(n)
        BY <1>3, <3>2, <3>7
      <4>2. accepted + 1 >= Warmups[n - 1]
        BY <3>3, <3>7
      <4>3. Most(0, accepted - Warmups[n - 1] + 1) = accepted - Warmups[n - 1] + 1
        BY <3>5, <4>2 DEF Most
      <4>4. (TakenBy(n))' = WarmupAt(n) <=> accepted + 1 >= Warmups[n]
        <5>1. CASE accepted - Warmups[n - 1] + 1 < WarmupAt(n)
          <6>1. TakenBy(n) = accepted - Warmups[n - 1] + 1
            BY <3>5, <3>6, <4>3, <5>1 DEF Least
          <6> QED BY <3>5, <4>1, <5>1, <6>1
        <5>2. CASE ~(accepted - Warmups[n - 1] + 1 < WarmupAt(n))
          <6>1. TakenBy(n) = WarmupAt(n)
            BY <3>5, <3>6, <4>3, <5>2 DEF Least
          <6> QED BY <3>5, <4>1, <5>2, <6>1
        <5> QED BY <5>1, <5>2
      <4> QED BY <3>1, <3>4, <3>7, <4>4
    <3>8. CASE ~(n \in tk)
      <4>1. ~(accepted + 1 >= Warmups[n])
        BY <3>3, <3>5, <3>8
      <4> QED BY <3>1, <3>4, <3>8, <4>1
    <3> QED BY <3>7, <3>8
  <2> HIDE DEF P
  <2>3. \A k \in Nat : k \in P
    BY <2>1, <2>2, SetInduction
  <2> SUFFICES ASSUME NEW n \in Stages
               PROVE  (TakenBy(n))' = Least(WarmupAt(n),
                                            Most(0, accepted' - Warmups[n - 1] + 1))
    OBVIOUS
  <2>4. n \in tk <=> accepted + 1 >= Warmups[n - 1]
    <3>1. n - 1 \in Nat /\ (n - 1) + 1 = n
      BY <1>2
    <3> QED BY <2>3, <3>1 DEF P
  <2>5. /\ WarmupAt(n) \in Nat \ {0} /\ TakenBy(n) \in Nat
        /\ Warmups[n - 1] \in Nat \ {0} /\ Warmups[n] \in Nat \ {0}
        /\ Warmups[n] = Warmups[n - 1] + WarmupAt(n) - 1 /\ Warmups[n] <= Warmup
        /\ accepted \in 0 .. Warmup /\ Warmup \in Nat
    BY <1>1, <1>2
  <2>6. TakenBy(n) = Least(WarmupAt(n), Most(0, accepted - Warmups[n - 1] + 1))
    BY <1>4
  <2>7. (TakenBy(n))' = IF n \in tk /\ TakenBy(n) # WarmupAt(n)
                        THEN TakenBy(n) + 1 ELSE TakenBy(n)
    BY <1>3
  <2>8. accepted' = IF accepted < Warmup THEN accepted + 1 ELSE accepted
    BY <1>6 DEF AcceptedBy
  <2>9. CASE accepted < Warmup
    <3>1. accepted' = accepted + 1
      BY <2>8, <2>9
    <3>2. CASE n \in tk
      <4>1. Most(0, accepted - Warmups[n - 1] + 1) = accepted - Warmups[n - 1] + 1
        BY <2>4, <2>5, <3>2 DEF Most
      <4>2. Most(0, accepted' - Warmups[n - 1] + 1) = accepted - Warmups[n - 1] + 2
        BY <2>4, <2>5, <3>1, <3>2 DEF Most
      <4>3. CASE accepted - Warmups[n - 1] + 1 < WarmupAt(n)
        <5>1. TakenBy(n) = accepted - Warmups[n - 1] + 1
          BY <2>5, <2>6, <4>1, <4>3 DEF Least
        <5>2. (TakenBy(n))' = accepted - Warmups[n - 1] + 2
          BY <2>5, <2>7, <3>2, <4>3, <5>1
        <5> QED BY <2>5, <4>2, <4>3, <5>2 DEF Least
      <4>4. CASE ~(accepted - Warmups[n - 1] + 1 < WarmupAt(n))
        <5>1. TakenBy(n) = WarmupAt(n)
          BY <2>5, <2>6, <4>1, <4>4 DEF Least
        <5>2. (TakenBy(n))' = WarmupAt(n)
          BY <2>7, <5>1
        <5> QED BY <2>5, <4>2, <4>4, <5>2 DEF Least
      <4> QED BY <4>3, <4>4
    <3>3. CASE ~(n \in tk)
      <4>1. /\ Most(0, accepted - Warmups[n - 1] + 1) = 0
            /\ Most(0, accepted' - Warmups[n - 1] + 1) = 0
        BY <2>4, <2>5, <3>1, <3>3 DEF Most
      <4>2. (TakenBy(n))' = TakenBy(n)
        BY <2>7, <3>3
      <4> QED BY <2>6, <4>1, <4>2
    <3> QED BY <3>2, <3>3
  <2>10. CASE accepted = Warmup
    <3>1. accepted' = accepted
      BY <2>5, <2>8, <2>10
    <3>2. ~(Most(0, accepted - Warmups[n - 1] + 1) < WarmupAt(n))
      BY <2>5, <2>10 DEF Most
    <3>3. TakenBy(n) = WarmupAt(n)
      <4>1. Most(0, accepted - Warmups[n - 1] + 1) \in Int
        BY <2>5 DEF Most
      <4> QED BY <2>5, <2>6, <3>2, <4>1 DEF Least
    <3> QED BY <2>6, <2>7, <3>1, <3>3
  <2> QED BY <2>5, <2>9, <2>10
<1> QED BY <1>5, <1>6

LEMMA UpdateInvariant == ASSUME IInv, NEW x, Update(x) PROVE IInv'
<1>1. PICK tk : Takers(x, tk)
  BY UpdateTakers
<1>2. AcceptedBy(x) /\ emitted' = (emitted \/ out' # None)
  BY DEF Update, AcceptedBy
<1>3. InOrder' /\ EmittedWhenFull' /\ NoneTooSoon' /\ NoneTooLate'
  BY <1>1, <1>2, UpdateInOrder, UpdateEmitted, UpdateNoneTooSoon, UpdateNoneTooLate
<1>4. /\ lineup' = lineup /\ Stages' = Stages /\ Warmup' = Warmup
      /\ stages' = [n \in Stages |-> stages'[n]] /\ DOMAIN stages' = Stages
  BY <1>1 DEF Takers, Stages, Warmup
<1>5. StagesSound'
  <2>1. \A n \in Stages : Sound(lineup[n], stages'[n])
    BY <1>1, UpdateNumbers
  <2> QED BY <1>4, <2>1 DEF StagesSound
<1>6. accepted' \in 0 .. Warmup'
  <2>1. accepted \in 0 .. Warmup /\ Warmup \in Nat
    BY NumberFacts DEF IInv
  <2>2. CASE accepted' = accepted
    BY <1>4, <2>1, <2>2
  <2>3. CASE accepted < Warmup /\ accepted' = accepted + 1
    BY <1>4, <2>1, <2>3
  <2> QED BY <1>2, <2>2, <2>3 DEF AcceptedBy
<1>7. emitted' \in BOOLEAN
  BY <1>2, Zenon
<1>8. overflowed' \in BOOLEAN
  <2>1. PICK step : overflowed' = (overflowed \/ \E n \in Stages :
                                 step[n].answer # None /\ ~IsFinite(step[n].answer[1]))
    BY DEF Update
  <2> QED BY <2>1, Zenon
<1>9. lineup' \in Lineups
  BY <1>4 DEF IInv
<1> QED BY <1>3, <1>5, <1>6, <1>7, <1>8, <1>9 DEF IInv

\* A chain of any stages keeps the counts of its stages in order, whatever it is fed
\* and however often it is reset: the strengthening the properties below rest on.
THEOREM ChainInvariant == Spec => []IInv
<1>1. IInv /\ [Next]_chainVars => IInv'
  <2> SUFFICES ASSUME IInv, [Next]_chainVars PROVE IInv'
    OBVIOUS
  <2>1. CASE \E x \in Inputs(lineup) \cup {PosInf, NaN} : Update(x)
    BY <2>1, UpdateInvariant
  <2>2. CASE Reset
    BY <2>2, ResetInvariant
  <2>3. CASE UNCHANGED chainVars
    BY <2>3 DEF chainVars, IInv, StagesSound, InOrder, EmittedWhenFull, NoneTooSoon,
                NoneTooLate, TakenBy, WarmupAt, Warmups, AreWarmups, Warmup, Stages
  <2> QED BY <2>1, <2>2, <2>3 DEF Next
<1> QED BY <1>1, InitInvariant, PTL DEF Spec

-----------------------------------------------------------------------------
(* What it says of a chain. *)

\* warmup_period is the number of finite inputs to the first value, for every chain:
\* no value comes sooner, and none is late unless a stage overflowed.
THEOREM ChainWarmupExact == Spec => []WarmupExact
<1>1. IInv => WarmupExact
  <2> SUFFICES ASSUME IInv PROVE WarmupExact
    OBVIOUS
  <2>0. PICK n : n = Len(lineup)
    OBVIOUS
  <2>1. n \in Stages /\ lineup \in Lineups /\ StagesSound
    BY <2>0, LineupFacts DEF IInv
  <2>2. /\ WarmupAt(n) \in Nat \ {0} /\ Warmups[n - 1] \in Nat \ {0}
        /\ Warmup = Warmups[n - 1] + WarmupAt(n) - 1
    BY <2>0, <2>1, NumberFacts
  <2>3. /\ accepted \in 0 .. Warmup /\ (emitted <=> TakenBy(n) = WarmupAt(n))
    BY <2>0 DEF IInv, EmittedWhenFull
  <2>4. emitted => accepted = Warmup
    <3> SUFFICES ASSUME emitted PROVE accepted = Warmup
      OBVIOUS
    <3>1. accepted >= Warmups[n - 1] - 1 + WarmupAt(n)
      <4>1. TakenBy(n) = WarmupAt(n) /\ TakenBy(n) > 0
        BY <2>2, <2>3
      <4> QED BY <2>1, <4>1 DEF IInv, NoneTooSoon
    <3> QED BY <2>2, <2>3, <3>1
  <2>5. accepted = Warmup /\ ~overflowed => emitted
    <3> SUFFICES ASSUME accepted = Warmup, ~overflowed PROVE emitted
      OBVIOUS
    <3>1. TakenBy(n) = Least(WarmupAt(n), Most(0, accepted - Warmups[n - 1] + 1))
      BY <2>1 DEF IInv, NoneTooLate
    <3>2. Most(0, accepted - Warmups[n - 1] + 1) = WarmupAt(n)
      BY <2>2 DEF Most
    <3>3. TakenBy(n) = WarmupAt(n)
      BY <3>1, <3>2 DEF Least
    <3> QED BY <2>3, <3>3
  <2> QED BY <2>4, <2>5 DEF WarmupExact
<1> QED BY <1>1, ChainInvariant, PTL

\* Once the last stage is ready, so are all before it.
LEMMA EmittedMeansAllFull ==
    ASSUME IInv, emitted
    PROVE  \A n \in Stages : TakenBy(n) = WarmupAt(n)
<1> DEFINE N == Len(lineup)
           P == {k \in Nat : k < N => TakenBy(N - k) = WarmupAt(N - k)}
<1>1. /\ N \in Nat \ {0} /\ Stages = 1 .. N
      /\ \A n \in Stages : WarmupAt(n) \in Nat \ {0} /\ TakenBy(n) \in 0 .. WarmupAt(n)
  BY NumberFacts DEF IInv
<1>2. TakenBy(N) = WarmupAt(N)
  BY DEF IInv, EmittedWhenFull
<1> HIDE DEF N
<1>3. 0 \in P
  <2>1. N - 0 = N
    BY <1>1
  <2> QED BY <1>2, <2>1
<1>4. \A k \in Nat : k \in P => k + 1 \in P
  <2> SUFFICES ASSUME NEW k \in Nat, k \in P, k + 1 < N
               PROVE  TakenBy(N - (k + 1)) = WarmupAt(N - (k + 1))
    OBVIOUS
  <2>1. PICK n : n = N - k
    OBVIOUS
  <2>2. n \in Stages /\ n > 1 /\ n - 1 = N - (k + 1) /\ k < N
    BY <1>1, <2>1
  <2>3. TakenBy(n) = WarmupAt(n)
    BY <2>1, <2>2
  <2>4. TakenBy(n) > 0
    BY <1>1, <2>2, <2>3
  <2>5. TakenBy(n - 1) = WarmupAt(n - 1)
    BY <2>2, <2>4 DEF IInv, InOrder
  <2> QED BY <2>2, <2>5
<1> HIDE DEF P
<1>5. \A k \in Nat : k \in P
  BY <1>3, <1>4, SetInduction
<1> SUFFICES ASSUME NEW n \in Stages PROVE TakenBy(n) = WarmupAt(n)
  OBVIOUS
<1>6. N - n \in Nat /\ N - n < N /\ N - (N - n) = n
  BY <1>1
<1>7. N - n \in P
  BY <1>5, <1>6
<1> QED BY <1>6, <1>7 DEF P

\* is_ready of a chain asks every stage, and says exactly whether the chain has answered
\* since the last reset, also when an infinity between the stages has held it up.
THEOREM ChainReadyMeansEmitted == Spec => []ReadyMeansEmitted
<1>1. IInv => ReadyMeansEmitted
  <2> SUFFICES ASSUME IInv PROVE ReadyMeansEmitted
    OBVIOUS
  <2>1. \A n \in Stages : lineup[n] \in Stage /\ Sound(lineup[n], stages[n])
    BY LineupFacts DEF IInv, StagesSound
  <2>2. \A n \in Stages : IsReadyStage(lineup[n], stages[n]) <=> TakenBy(n) = WarmupAt(n)
    BY <2>1, StageRange DEF TakenBy, WarmupAt
  <2>3. IsReady => emitted
    <3> SUFFICES ASSUME IsReady PROVE emitted
      OBVIOUS
    <3>1. Len(lineup) \in Stages
      BY LineupFacts DEF IInv
    <3>2. TakenBy(Len(lineup)) = WarmupAt(Len(lineup))
      BY <2>2, <3>1 DEF IsReady
    <3> QED BY <3>2 DEF IInv, EmittedWhenFull
  <2>4. emitted => IsReady
    BY <2>2, EmittedMeansAllFull DEF IsReady
  <2> QED BY <2>3, <2>4 DEF ReadyMeansEmitted
<1> QED BY <1>1, ChainInvariant, PTL

\* A chain that has answered answers every input it accepts: without a value its stages
\* are as they were, or one of them has overflowed.
THEOREM ChainAnswersOnceReady == Spec => AnswersOnceReady
<1> DEFINE Promise == emitted /\ emitted' /\ out' = None => overflowed' \/ UNCHANGED stages
<1>1. IInv /\ [Next]_chainVars => [Promise]_chainVars
  <2> SUFFICES ASSUME IInv, Next, emitted, emitted', out' = None, ~overflowed'
               PROVE  UNCHANGED stages
    OBVIOUS
  <2>1. ~Reset
    BY DEF Reset
  <2>2. PICK x \in Inputs(lineup) \cup {PosInf, NaN} : Update(x)
    BY <2>1 DEF Next
  <2>3. PICK tk : Takers(x, tk)
    BY <2>2, UpdateTakers
  <2>4. /\ Len(lineup) \in Nat \ {0} /\ Stages = 1 .. Len(lineup)
        /\ DOMAIN stages = Stages
        /\ \A n \in Stages : TakenBy(n) = WarmupAt(n)
    BY LineupFacts, EmittedMeansAllFull DEF IInv, StagesSound
  <2>5. \A n \in Stages : Taken(lineup[n], stages'[n]) = WarmupAt(n)
    BY <2>3, <2>4, UpdateNumbers
  <2>6. /\ tk \in SUBSET Stages
        /\ ~(Len(lineup) \in tk)
        /\ \A n \in tk : n < Len(lineup) => n + 1 \in tk
    <3>1. Len(lineup) \in Stages
      BY <2>4
    <3>2. tk \in SUBSET Stages
      BY <2>3 DEF Takers
    <3>3. ~(Len(lineup) \in tk)
      BY <2>3, <2>5, <3>1 DEF Takers
    <3>4. \A n \in tk : n < Len(lineup) => n + 1 \in tk
      BY <2>3, <2>5, <3>2 DEF Takers
    <3> QED BY <3>2, <3>3, <3>4
  \* Whatever the first stage takes goes all the way.
  <2>7. tk = {}
    <3> SUFFICES ASSUME NEW m \in tk PROVE FALSE
      OBVIOUS
    <3> DEFINE P == {k \in Nat : m + k <= Len(lineup) => m + k \in tk}
    <3>1. 0 \in P
      BY <2>4, <2>6
    <3>2. \A k \in Nat : k \in P => k + 1 \in P
      <4> SUFFICES ASSUME NEW k \in Nat, k \in P, m + (k + 1) <= Len(lineup)
                   PROVE  m + (k + 1) \in tk
        OBVIOUS
      <4>1. m + k \in tk /\ m + k < Len(lineup) /\ (m + k) + 1 = m + (k + 1)
        BY <2>4, <2>6
      <4> QED BY <2>6, <4>1
    <3> HIDE DEF P
    <3>3. Len(lineup) - m \in Nat /\ m + (Len(lineup) - m) = Len(lineup)
      BY <2>4, <2>6
    <3>4. Len(lineup) - m \in P
      BY <3>1, <3>2, <3>3, SetInduction
    <3> QED BY <2>4, <2>6, <3>3, <3>4 DEF P
  <2>8. DOMAIN stages' = Stages /\ \A n \in Stages : stages'[n] = stages[n]
    BY <2>3, <2>7 DEF Takers
  <2>9. stages' = [n \in Stages |-> stages'[n]] /\ stages = [n \in Stages |-> stages[n]]
    BY <2>3 DEF IInv, StagesSound, Takers
  <2> QED BY <2>8, <2>9
<1> QED BY <1>1, ChainInvariant, PTL DEF Spec, AnswersOnceReady

-----------------------------------------------------------------------------
(* Sums. *)

\* The sum of a sequence, as the fold has it.
Added(q) == FoldLeft(LAMBDA a, b : a + b, 0, q)

\* What the fold has after each member.
AreAdded(V, q, N) ==
    /\ V[0] = 0 /\ V[N] = Added(q)
    /\ \A k \in 0 .. N : V[k] \in Int
    /\ \A k \in 1 .. N : V[k] = V[k - 1] + q[k]

LEMMA AddedExist ==
    ASSUME NEW N \in Nat, NEW q, DOMAIN q = 1 .. N, \A i \in 1 .. N : q[i] \in Int
    PROVE  \E V : AreAdded(V, q, N)
<1> DEFINE Next1(g, s) == IF s = {} THEN 0 ELSE g[s \ {Max(s)}] + q[Max(s)]
           Upto(g, k) == g = [s \in SUBSET (1 .. k) |-> Next1(g, s)]
           S == {k \in Nat : \E g : Upto(g, k)}
<1>1. 0 \in S
  <2> DEFINE g == [s \in SUBSET (1 .. 0) |-> 0]
  <2>1. g = [s \in SUBSET (1 .. 0) |-> g[s]]
    OBVIOUS
  <2>2. \A s \in SUBSET (1 .. 0) : s = {} /\ g[s] = 0
    OBVIOUS
  <2> HIDE DEF g
  <2>3. Upto(g, 0)
    BY <2>1, <2>2, Zenon
  <2> HIDE DEF Upto
  <2> QED BY <2>3
<1>2. \A k \in Nat : k \in S => k + 1 \in S
  <2> SUFFICES ASSUME NEW k \in Nat, k \in S PROVE k + 1 \in S
    OBVIOUS
  <2>1. PICK g : Upto(g, k)
    OBVIOUS
  <2> DEFINE h == [s \in SUBSET (1 .. k + 1) |->
                      IF k + 1 \in s THEN g[s \ {k + 1}] + q[k + 1] ELSE g[s]]
  <2>2. h = [s \in SUBSET (1 .. k + 1) |-> h[s]]
    OBVIOUS
  <2>3. \A s \in SUBSET (1 .. k) : s \in SUBSET (1 .. k + 1) /\ ~(k + 1 \in s)
    OBVIOUS
  <2>4. \A s \in SUBSET (1 .. k) : h[s] = g[s]
    BY <2>3
  <2>5. \A s \in SUBSET (1 .. k + 1) : k + 1 \in s => h[s] = g[s \ {k + 1}] + q[k + 1]
    OBVIOUS
  <2> HIDE DEF h
  <2>6. ASSUME NEW s \in SUBSET (1 .. k + 1) PROVE h[s] = Next1(h, s)
    <3>1. CASE k + 1 \in s
      <4>1. Max(s) \in s /\ \A y \in s : Max(s) >= y
        <5>1. k + 1 \in Nat /\ s # {}
          BY <3>1
        <5> QED BY <5>1, LargestOf
      <4>2. Max(s) = k + 1
        <5>1. Max(s) \in 1 .. k + 1 /\ Max(s) >= k + 1
          BY <3>1, <4>1
        <5> QED BY <5>1
      <4>3. s \ {k + 1} \in SUBSET (1 .. k)
        OBVIOUS
      <4>4. h[s] = h[s \ {k + 1}] + q[k + 1]
        BY <2>4, <2>5, <3>1, <4>3
      <4>5. s # {}
        BY <3>1
      <4> QED BY <4>2, <4>4, <4>5
    <3>2. CASE ~(k + 1 \in s)
      <4>1. s \in SUBSET (1 .. k)
        BY <3>2
      <4>2. h[s] = g[s] /\ g[s] = Next1(g, s)
        BY <2>1, <2>4, <4>1
      <4>3. CASE s = {}
        BY <4>2, <4>3
      <4>4. CASE s # {}
        <5>1. s \ {Max(s)} \in SUBSET (1 .. k)
          BY <4>1
        <5>2. h[s \ {Max(s)}] = g[s \ {Max(s)}]
          BY <2>4, <5>1
        <5> QED BY <4>2, <4>4, <5>2
      <4> QED BY <4>3, <4>4
    <3> QED BY <3>1, <3>2
  <2>7. Upto(h, k + 1)
    <3> HIDE DEF Next1
    <3> QED BY <2>2, <2>6, Zenon
  <2>8. k + 1 \in Nat
    OBVIOUS
  <2> HIDE DEF Upto
  <2> QED BY <2>7, <2>8
<1> HIDE DEF S
<1>3. N \in S
  BY <1>1, <1>2, SetInduction
<1> DEFINE Is(g) == g = [s \in SUBSET DOMAIN q |-> Next1(g, s)]
           iter == CHOOSE g : Is(g)
<1>4. \E g : Is(g)
  <2>1. PICK g : Upto(g, N)
    <3> HIDE DEF Upto
    <3> QED BY <1>3 DEF S
  <2>2. Is(g)
    <3> HIDE DEF Next1
    <3>1. g = [s \in SUBSET (1 .. N) |-> Next1(g, s)]
      BY <2>1
    <3> QED BY <3>1
  <2> HIDE DEF Is
  <2> QED BY <2>2
<1>5. Is(iter)
  <2> HIDE DEF Is
  <2> QED BY <1>4
<1>6. Added(q) = iter[1 .. N]
  <2>1. Added(q) = (CHOOSE g : g = [s \in SUBSET DOMAIN q |->
                      IF s = {} THEN 0 ELSE g[s \ {Max(s)}] + q[Max(s)]])[DOMAIN q]
    BY DEF Added, FoldLeft, MapThenFoldSet
  <2> QED BY <2>1
<1> HIDE DEF iter
<1>7. \A s \in SUBSET (1 .. N) : iter[s] = Next1(iter, s)
  <2> HIDE DEF Next1
  <2> QED BY <1>5
<1> DEFINE V == [k \in 0 .. N |-> iter[1 .. k]]
<1>8. V[0] = 0 /\ V[N] = Added(q)
  <2>1. 1 .. 0 = {} /\ {} \in SUBSET (1 .. N) /\ 0 \in 0 .. N /\ N \in 0 .. N
    OBVIOUS
  <2>2. iter[{}] = 0
    BY <1>7, <2>1
  <2> QED BY <1>6, <2>1, <2>2
<1>9. \A k \in 1 .. N : V[k] = V[k - 1] + q[k]
  <2> SUFFICES ASSUME NEW k \in 1 .. N PROVE V[k] = V[k - 1] + q[k]
    OBVIOUS
  <2>1. /\ 1 .. k \in SUBSET (1 .. N) /\ 1 .. k # {} /\ k \in 1 .. k
        /\ (1 .. k) \ {k} = 1 .. k - 1 /\ k \in 0 .. N /\ k - 1 \in 0 .. N
    OBVIOUS
  <2>2. Max(1 .. k) \in 1 .. k /\ \A y \in 1 .. k : Max(1 .. k) >= y
    <3>1. k \in Nat
      OBVIOUS
    <3> QED BY <2>1, <3>1, LargestOf
  <2>3. Max(1 .. k) = k
    BY <2>1, <2>2
  <2>4. iter[1 .. k] = iter[1 .. k - 1] + q[k]
    BY <1>7, <2>1, <2>3
  <2> QED BY <2>1, <2>4
<1> HIDE DEF V
<1>10. \A k \in Nat : k \in {j \in Nat : j <= N => V[j] \in Int}
  <2> DEFINE P == {j \in Nat : j <= N => V[j] \in Int}
  <2>1. 0 \in P
    BY <1>8
  <2>2. \A k \in Nat : k \in P => k + 1 \in P
    <3> SUFFICES ASSUME NEW k \in Nat, k <= N => V[k] \in Int, k + 1 <= N
                 PROVE  V[k + 1] \in Int
      OBVIOUS
    <3>1. k + 1 \in 1 .. N /\ (k + 1) - 1 = k /\ k <= N
      OBVIOUS
    <3>2. V[k] \in Int /\ V[k + 1] = V[k] + q[k + 1]
      BY <1>9, <3>1
    <3>3. q[k + 1] \in Int
      BY <3>1
    <3> QED BY <3>2, <3>3
  <2> HIDE DEF P
  <2>3. \A k \in Nat : k \in P
    BY <2>1, <2>2, SetInduction
  <2> QED BY <2>3 DEF P
<1>11. AreAdded(V, q, N)
  <2>1. \A k \in 0 .. N : V[k] \in Int
    BY <1>10
  <2> QED BY <1>8, <1>9, <2>1 DEF AreAdded
<1> QED BY <1>11

\* One more member adds itself to the sum.
LEMMA AddedGrows ==
    ASSUME NEW N \in Nat, NEW q, DOMAIN q = 1 .. N, \A i \in 1 .. N : q[i] \in Int,
           NEW r, DOMAIN r = 1 .. N + 1, \A i \in 1 .. N + 1 : r[i] \in Int,
           \A i \in 1 .. N : r[i] = q[i]
    PROVE  Added(q) \in Int /\ Added(r) = Added(q) + r[N + 1]
<1>1. PICK V : AreAdded(V, q, N)
  BY AddedExist
<1>2. PICK W : AreAdded(W, r, N + 1)
  BY AddedExist
<1> DEFINE P == {j \in Nat : j <= N => W[j] = V[j]}
<1>3. 0 \in P
  BY <1>1, <1>2 DEF AreAdded
<1>4. \A k \in Nat : k \in P => k + 1 \in P
  <2> SUFFICES ASSUME NEW k \in Nat, k <= N => W[k] = V[k], k + 1 <= N
               PROVE  W[k + 1] = V[k + 1]
    OBVIOUS
  <2>1. k + 1 \in 1 .. N /\ k + 1 \in 1 .. N + 1 /\ (k + 1) - 1 = k
    OBVIOUS
  <2>2. V[k + 1] = V[k] + q[k + 1] /\ W[k + 1] = W[k] + r[k + 1]
    BY <1>1, <1>2, <2>1 DEF AreAdded
  <2> QED BY <2>1, <2>2
<1> HIDE DEF P
<1>5. N \in P
  BY <1>3, <1>4, SetInduction
<1>6. W[N] = V[N]
  BY <1>5 DEF P
<1>7. /\ V[N] \in Int /\ V[N] = Added(q) /\ W[N + 1] = Added(r)
      /\ W[N + 1] = W[(N + 1) - 1] + r[N + 1]
  <2>1. N \in 0 .. N /\ N + 1 \in 1 .. N + 1
    OBVIOUS
  <2> QED BY <1>1, <1>2, <2>1 DEF AreAdded
<1>8. (N + 1) - 1 = N
  OBVIOUS
<1> QED BY <1>6, <1>7, <1>8

LEMMA AddedOfNone ==
    ASSUME NEW q, DOMAIN q = {}
    PROVE  Added(q) = 0
<1>1. 1 .. 0 = {} /\ 0 \in Nat
  OBVIOUS
<1>2. PICK V : AreAdded(V, q, 0)
  BY <1>1, AddedExist
<1> QED BY <1>2 DEF AreAdded

\* The sum of the values m to n of a function.
Part(g, m, n) == [i \in 1 .. n - m + 1 |-> g[m + i - 1]]

LEMMA PartGrows ==
    ASSUME NEW m \in Nat, NEW n \in Nat, m <= n, NEW g, NEW h,
           \A i \in m .. n : h[i] \in Int, \A i \in m .. n - 1 : g[i] = h[i]
    PROVE  /\ Added(Part(g, m, n - 1)) \in Int
           /\ Added(Part(h, m, n)) = Added(Part(g, m, n - 1)) + h[n]
<1> DEFINE N == n - m
           q == Part(g, m, n - 1)
           r == Part(h, m, n)
<1>1. N \in Nat /\ (n - 1) - m + 1 = N /\ n - m + 1 = N + 1 /\ m + (N + 1) - 1 = n
  OBVIOUS
<1>2. /\ DOMAIN q = 1 .. N /\ DOMAIN r = 1 .. N + 1
      /\ \A i \in 1 .. N : q[i] = g[m + i - 1]
      /\ \A i \in 1 .. N + 1 : r[i] = h[m + i - 1]
  BY <1>1 DEF Part
<1>3. /\ \A i \in 1 .. N : m + i - 1 \in m .. n - 1 /\ m + i - 1 \in m .. n /\ i \in 1 .. N + 1
      /\ \A i \in 1 .. N + 1 : m + i - 1 \in m .. n
      /\ N + 1 \in 1 .. N + 1
  OBVIOUS
<1> HIDE DEF N, q, r
<1>4. /\ \A i \in 1 .. N : q[i] \in Int /\ r[i] = q[i]
      /\ \A i \in 1 .. N + 1 : r[i] \in Int
  BY <1>2, <1>3
<1>5. Added(q) \in Int /\ Added(r) = Added(q) + r[N + 1]
  <2>1. DOMAIN q = 1 .. N /\ DOMAIN r = 1 .. N + 1 /\ N \in Nat
    BY <1>1, <1>2
  <2>2. /\ \A i \in 1 .. N : q[i] \in Int
        /\ \A i \in 1 .. N : r[i] = q[i]
    BY <1>4
  <2>3. \A i \in 1 .. N + 1 : r[i] \in Int
    BY <1>4
  <2> QED BY <2>1, <2>2, <2>3, AddedGrows
<1>6. r[N + 1] = h[n]
  BY <1>1, <1>2, <1>3
<1> QED BY <1>5, <1>6 DEF q, r

LEMMA PartOfNone ==
    ASSUME NEW m \in Nat, NEW g
    PROVE  Added(Part(g, m, m - 1)) = 0
<1>1. 1 .. (m - 1) - m + 1 = {}
  OBVIOUS
<1>2. DOMAIN Part(g, m, m - 1) = {}
  BY <1>1 DEF Part
<1> QED BY <1>2, AddedOfNone

-----------------------------------------------------------------------------
(* The greatest and the least. *)

\* Finitely many integers have a least and a greatest.
LEMMA Bounded ==
    ASSUME NEW n \in Nat, NEW f, \A i \in 1 .. n : f[i] \in Int
    PROVE  \E lo \in Int, hi \in Int : \A i \in 1 .. n : lo <= f[i] /\ f[i] <= hi
<1> DEFINE Within(k) == \E lo \in Int, hi \in Int : \A i \in 1 .. k : lo <= f[i] /\ f[i] <= hi
           S == {k \in Nat : k <= n => Within(k)}
<1>1. 0 \in S
  <2>1. 1 .. 0 = {}
    OBVIOUS
  <2>2. Within(0)
    BY <2>1
  <2> QED BY <2>2
<1>2. \A k \in Nat : k \in S => k + 1 \in S
  <2> SUFFICES ASSUME NEW k \in Nat, k <= n => Within(k), k + 1 <= n PROVE Within(k + 1)
    <3> HIDE DEF Within
    <3> QED OBVIOUS
  <2>0. k <= n /\ k + 1 \in 1 .. n
    OBVIOUS
  <2>1. PICK lo \in Int, hi \in Int : \A i \in 1 .. k : lo <= f[i] /\ f[i] <= hi
    BY <2>0
  <2>2. f[k + 1] \in Int
    BY <2>0
  <2> DEFINE x == f[k + 1]
             l == IF x < lo THEN x ELSE lo
             h == IF x > hi THEN x ELSE hi
  <2>3. l \in Int /\ h \in Int /\ l <= x /\ x <= h /\ l <= lo /\ hi <= h
    BY <2>2
  <2>4. ASSUME NEW i \in 1 .. k + 1 PROVE l <= f[i] /\ f[i] <= h
    <3>1. CASE i = k + 1
      BY <2>3, <3>1
    <3>2. CASE i # k + 1
      <4>1. i \in 1 .. k /\ f[i] \in Int
        BY <2>0, <3>2
      <4>2. lo <= f[i] /\ f[i] <= hi
        BY <2>1, <4>1
      <4> HIDE DEF l, h
      <4> QED BY <2>3, <4>1, <4>2
    <3> QED BY <3>1, <3>2
  <2> HIDE DEF l, h
  <2> QED BY <2>3, <2>4
<1> HIDE DEF S
<1>3. \A k \in Nat : k \in S
  BY <1>1, <1>2, SetInduction
<1>4. Within(n)
  <2> HIDE DEF Within
  <2> QED BY <1>3 DEF S
<1> QED BY <1>4

LEMMA MaxIs ==
    ASSUME NEW S \in SUBSET Int, NEW m \in S, \A x \in S : x <= m
    PROVE  Max(S) = m
<1>1. \A y \in S : m >= y
  OBVIOUS
<1> DEFINE x == Max(S)
<1>2. x \in S /\ \A y \in S : x >= y
  BY <1>1 DEF Max
<1> HIDE DEF x
<1>3. x \in Int /\ m \in Int /\ x >= m /\ m >= x
  BY <1>1, <1>2
<1>4. x = m
  BY <1>3
<1> QED BY <1>4 DEF x

LEMMA MinIs ==
    ASSUME NEW S \in SUBSET Int, NEW m \in S, \A x \in S : m <= x
    PROVE  Min(S) = m
<1>1. \A y \in S : m =< y
  OBVIOUS
<1> DEFINE x == Min(S)
<1>2. x \in S /\ \A y \in S : x =< y
  BY <1>1 DEF Min
<1> HIDE DEF x
<1>3. x \in Int /\ m \in Int /\ x =< m /\ m =< x
  BY <1>1, <1>2
<1>4. x = m
  BY <1>3
<1> QED BY <1>4 DEF x

LEMMA MaxOf ==
    ASSUME NEW S \in SUBSET Int, S # {}, NEW top \in Int, \A x \in S : x <= top
    PROVE  Max(S) \in S /\ \A x \in S : x <= Max(S)
<1> DEFINE T == {n \in Nat : top - n \in S}
<1>1. T # {}
  <2>1. PICK x : x \in S
    OBVIOUS
  <2>2. top - x \in Nat /\ top - (top - x) = x
    BY <2>1
  <2> QED BY <2>1, <2>2
<1>2. PICK n \in T : \A k \in T : ~(k < n)
  BY <1>1, SmallestOf
<1>3. top - n \in S /\ n \in Nat
  BY <1>2
<1>4. ASSUME NEW x \in S PROVE x <= top - n
  <2>1. top - x \in Nat /\ top - (top - x) = x
    OBVIOUS
  <2>2. top - x \in T
    BY <2>1
  <2>3. ~(top - x < n)
    BY <1>2, <2>2
  <2> QED BY <1>3, <2>3
<1> QED BY <1>3, <1>4, MaxIs

LEMMA MinOf ==
    ASSUME NEW S \in SUBSET Int, S # {}, NEW bottom \in Int, \A x \in S : bottom <= x
    PROVE  Min(S) \in S /\ \A x \in S : Min(S) <= x
<1> DEFINE T == {n \in Nat : bottom + n \in S}
<1>1. T # {}
  <2>1. PICK x : x \in S
    OBVIOUS
  <2>2. x - bottom \in Nat /\ bottom + (x - bottom) = x
    BY <2>1
  <2> QED BY <2>1, <2>2
<1>2. PICK n \in T : \A k \in T : ~(k < n)
  BY <1>1, SmallestOf
<1>3. bottom + n \in S /\ n \in Nat
  BY <1>2
<1>4. ASSUME NEW x \in S PROVE bottom + n <= x
  <2>1. x - bottom \in Nat /\ bottom + (x - bottom) = x
    OBVIOUS
  <2>2. x - bottom \in T
    BY <2>1
  <2>3. ~(x - bottom < n)
    BY <1>2, <2>2
  <2> QED BY <1>3, <2>3
<1> QED BY <1>3, <1>4, MinIs

-----------------------------------------------------------------------------
(* Windows: lists of integers, and what is greatest and least in them. *)

Ints == Seq(Int)

LEMMA IntsFacts ==
    ASSUME NEW xs \in Ints
    PROVE  /\ Len(xs) \in Nat /\ DOMAIN xs = 1 .. Len(xs)
           /\ \A i \in 1 .. Len(xs) : xs[i] \in Int
           /\ xs = <<>> <=> Len(xs) = 0
  BY LenProperties, EmptySeq DEF Ints

LEMMA IntsGrow ==
    ASSUME NEW xs \in Ints, NEW x \in Int
    PROVE  /\ Append(xs, x) \in Ints /\ Append(xs, x) # <<>>
           /\ Len(Append(xs, x)) = Len(xs) + 1
           /\ \A i \in 1 .. Len(xs) : Append(xs, x)[i] = xs[i]
           /\ Append(xs, x)[Len(xs) + 1] = x
  BY AppendProperties, IntsFacts DEF Ints

\* The greatest and the least of the values m to n of a list.
Highest(xs, m, n) == Max({xs[i] : i \in m .. n})
Lowest(xs, m, n) == Min({xs[i] : i \in m .. n})

LEMMA HighestFacts ==
    ASSUME NEW m \in Int, NEW n \in Int, m <= n, NEW xs, \A i \in m .. n : xs[i] \in Int
    PROVE  /\ Highest(xs, m, n) \in Int
           /\ \E k \in m .. n : Highest(xs, m, n) = xs[k]
           /\ \A i \in m .. n : xs[i] <= Highest(xs, m, n)
<1> DEFINE S == {xs[i] : i \in m .. n}
           f == [i \in 1 .. n - m + 1 |-> xs[m + i - 1]]
<1>1. n - m + 1 \in Nat /\ \A i \in 1 .. n - m + 1 : f[i] \in Int
  OBVIOUS
<1>2. PICK hi \in Int : \A i \in 1 .. n - m + 1 : f[i] <= hi
  <2> HIDE DEF f
  <2> QED BY <1>1, Bounded
<1>3. \A i \in m .. n : i - m + 1 \in 1 .. n - m + 1 /\ xs[i] = f[i - m + 1]
  OBVIOUS
<1>4. \A i \in m .. n : xs[i] <= hi
  <2> HIDE DEF f
  <2> QED BY <1>2, <1>3
<1>5. S \in SUBSET Int /\ S # {} /\ \A x \in S : x <= hi
  BY <1>4
<1> HIDE DEF S, f
<1>6. Max(S) \in S /\ \A x \in S : x <= Max(S)
  BY <1>5, MaxOf
<1>7. Highest(xs, m, n) = Max(S)
  BY DEF Highest, S
<1> HIDE DEF Highest
<1> QED BY <1>5, <1>6, <1>7 DEF S

LEMMA HighestIs ==
    ASSUME NEW m \in Int, NEW n \in Int, NEW xs, \A i \in m .. n : xs[i] \in Int,
           NEW k \in m .. n, \A i \in m .. n : xs[i] <= xs[k]
    PROVE  Highest(xs, m, n) = xs[k]
<1> DEFINE S == {xs[i] : i \in m .. n}
           x == xs[k]
<1>1. S \in SUBSET Int /\ x \in S /\ \A y \in S : y <= x
  OBVIOUS
<1> HIDE DEF S, x
<1>2. Max(S) = x
  BY <1>1, MaxIs
<1> QED BY <1>2 DEF S, x, Highest

LEMMA LowestFacts ==
    ASSUME NEW m \in Int, NEW n \in Int, m <= n, NEW xs, \A i \in m .. n : xs[i] \in Int
    PROVE  /\ Lowest(xs, m, n) \in Int
           /\ \E k \in m .. n : Lowest(xs, m, n) = xs[k]
           /\ \A i \in m .. n : Lowest(xs, m, n) <= xs[i]
<1> DEFINE S == {xs[i] : i \in m .. n}
           f == [i \in 1 .. n - m + 1 |-> xs[m + i - 1]]
<1>1. n - m + 1 \in Nat /\ \A i \in 1 .. n - m + 1 : f[i] \in Int
  OBVIOUS
<1>2. PICK lo \in Int : \A i \in 1 .. n - m + 1 : lo <= f[i]
  <2> HIDE DEF f
  <2> QED BY <1>1, Bounded
<1>3. \A i \in m .. n : i - m + 1 \in 1 .. n - m + 1 /\ xs[i] = f[i - m + 1]
  OBVIOUS
<1>4. \A i \in m .. n : lo <= xs[i]
  <2> HIDE DEF f
  <2> QED BY <1>2, <1>3
<1>5. S \in SUBSET Int /\ S # {} /\ \A x \in S : lo <= x
  BY <1>4
<1> HIDE DEF S, f
<1>6. Min(S) \in S /\ \A x \in S : Min(S) <= x
  BY <1>5, MinOf
<1>7. Lowest(xs, m, n) = Min(S)
  BY DEF Lowest, S
<1> HIDE DEF Lowest
<1> QED BY <1>5, <1>6, <1>7 DEF S

LEMMA LowestIs ==
    ASSUME NEW m \in Int, NEW n \in Int, NEW xs, \A i \in m .. n : xs[i] \in Int,
           NEW k \in m .. n, \A i \in m .. n : xs[k] <= xs[i]
    PROVE  Lowest(xs, m, n) = xs[k]
<1> DEFINE S == {xs[i] : i \in m .. n}
           x == xs[k]
<1>1. S \in SUBSET Int /\ x \in S /\ \A y \in S : x <= y
  OBVIOUS
<1> HIDE DEF S, x
<1>2. Min(S) = x
  BY <1>1, MinIs
<1> QED BY <1>2 DEF S, x, Lowest

-----------------------------------------------------------------------------
(* The definitions of the drawdowns. *)

\* Division by a positive number keeps the order.
LEMMA DivisionKeepsOrder ==
    ASSUME NEW a \in Int, NEW b \in Int, a <= b, NEW d \in Int, d > 0
    PROVE  a \div d \in Int /\ b \div d \in Int /\ a \div d <= b \div d
<1> DEFINE p == a \div d
           q == b \div d
<1>1. p \in Int /\ q \in Int
  OBVIOUS
<1>2. d * p <= a /\ b < d * q + d
  OBVIOUS
<1> HIDE DEF p, q
<1>3. ASSUME q < p PROVE FALSE
  <2>1. d * q + d <= d * p
    <3>1. d * (q + 1) <= d * p
      BY <1>1, <1>3
    <3> QED BY <1>1, <3>1
  <2>2. d * q \in Int /\ d * p \in Int
    BY <1>1
  <2> QED BY <1>2, <2>1, <2>2
<1> QED BY <1>1, <1>3 DEF p, q

LEMMA DrawdownFacts ==
    ASSUME NEW p \in Int, NEW a \in Int
    PROVE  /\ Drawdown(p, a) \in Int
           /\ Drawdown(p, p) = 0
           /\ \A b \in Int : a <= b => Drawdown(p, b) <= Drawdown(p, a)
           /\ a <= p => 0 <= Drawdown(p, a)
<1>0. Scale \in Nat \ {0}
  BY ScaleAssumption
<1>1. CASE p > 0
  <2>1. \A b \in Int : (p - b) * Scale \in Int
    BY <1>0
  <2>2. \A b \in Int : a <= b => (p - b) * Scale <= (p - a) * Scale
    BY <1>0
  <2>3. \A b \in Int : Drawdown(p, b) = ((p - b) * Scale) \div p
    BY <1>1 DEF Drawdown
  <2>4. Drawdown(p, p) = 0
    <3>1. (p - p) * Scale = 0 /\ 0 \div p = 0
      BY <1>0, <1>1
    <3> QED BY <2>3, <3>1
  <2>5. \A b \in Int : a <= b => Drawdown(p, b) <= Drawdown(p, a)
    BY <1>1, <2>1, <2>2, <2>3, DivisionKeepsOrder
  <2>6. Drawdown(p, a) \in Int
    BY <1>1, <2>1, <2>3
  <2> QED BY <2>4, <2>5, <2>6
<1>2. CASE ~(p > 0)
  BY <1>2 DEF Drawdown
<1> QED BY <1>1, <1>2

LEMMA PeakFacts ==
    ASSUME NEW xs \in Ints, NEW t \in 1 .. Len(xs)
    PROVE  /\ Peak(xs, t) \in Int
           /\ \E k \in 1 .. t : Peak(xs, t) = xs[k]
           /\ \A i \in 1 .. t : xs[i] <= Peak(xs, t)
<1>1. t \in Int /\ 1 <= t /\ \A i \in 1 .. t : xs[i] \in Int
  BY IntsFacts
<1>2. Peak(xs, t) = Highest(xs, 1, t)
  BY DEF Peak, Highest
<1> QED BY <1>1, <1>2, HighestFacts

LEMMA PeakIs ==
    ASSUME NEW xs \in Ints, NEW t \in 1 .. Len(xs),
           NEW k \in 1 .. t, \A i \in 1 .. t : xs[i] <= xs[k]
    PROVE  Peak(xs, t) = xs[k]
<1>1. t \in Int /\ \A i \in 1 .. t : xs[i] \in Int
  BY IntsFacts
<1>2. Peak(xs, t) = Highest(xs, 1, t)
  BY DEF Peak, Highest
<1> QED BY <1>1, <1>2, HighestIs

\* A peak looks at nothing but the values up to it.
LEMMA PeakSame ==
    ASSUME NEW xs, NEW ys, NEW t, \A i \in 1 .. t : xs[i] = ys[i]
    PROVE  Peak(xs, t) = Peak(ys, t)
<1>1. {xs[i] : i \in 1 .. t} = {ys[i] : i \in 1 .. t}
  OBVIOUS
<1> QED BY <1>1 DEF Peak

LEMMA PeakGrows ==
    ASSUME NEW xs \in Ints, NEW x \in Int
    PROVE  LET ys == Append(xs, x)
           IN  /\ \A t \in 1 .. Len(xs) : Peak(ys, t) = Peak(xs, t)
               /\ Peak(ys, Len(xs) + 1) =
                      IF xs = <<>> THEN x ELSE Larger(Peak(xs, Len(xs)), x)
<1> DEFINE ys == Append(xs, x)
           n == Len(xs)
<1>1. /\ ys \in Ints /\ Len(ys) = n + 1 /\ n \in Nat /\ ys[n + 1] = x
      /\ \A i \in 1 .. n : ys[i] = xs[i] /\ xs[i] \in Int
      /\ xs = <<>> <=> n = 0
  BY IntsGrow, IntsFacts
<1> HIDE DEF ys, n
<1>2. ASSUME NEW t \in 1 .. n PROVE Peak(ys, t) = Peak(xs, t)
  <2>1. \A i \in 1 .. t : ys[i] = xs[i]
    BY <1>1
  <2> QED BY <2>1, PeakSame
<1>3. n + 1 \in 1 .. Len(ys)
  BY <1>1
<1>4. CASE n = 0
  <2>1. 1 \in 1 .. 1 /\ \A i \in 1 .. 1 : ys[i] <= ys[1]
    BY <1>1, <1>4
  <2>2. Peak(ys, n + 1) = x
    BY <1>1, <1>3, <1>4, <2>1, PeakIs
  <2> QED BY <1>1, <1>2, <1>4, <2>2 DEF ys, n
<1>5. CASE n # 0
  <2> DEFINE p == Peak(xs, n)
  <2>1. /\ p \in Int /\ \E k \in 1 .. n : p = xs[k]
        /\ \A i \in 1 .. n : xs[i] <= p
    <3>1. n \in 1 .. Len(xs)
      BY <1>1, <1>5 DEF n
    <3> QED BY <3>1, PeakFacts
  <2> HIDE DEF p
  <2>2. Peak(ys, n + 1) = Larger(p, x)
    <3>1. CASE p < x
      <4>1. n + 1 \in 1 .. n + 1 /\ \A i \in 1 .. n + 1 : ys[i] <= ys[n + 1]
        <5> SUFFICES ASSUME NEW i \in 1 .. n + 1 PROVE ys[i] <= ys[n + 1]
          BY <1>1
        <5>1. CASE i = n + 1
          BY <1>1, <5>1
        <5>2. CASE i # n + 1
          BY <1>1, <2>1, <3>1, <5>2
        <5> QED BY <5>1, <5>2
      <4>2. Peak(ys, n + 1) = ys[n + 1]
        BY <1>1, <1>3, <4>1, PeakIs
      <4> QED BY <1>1, <3>1, <4>2 DEF Larger
    <3>2. CASE ~(p < x)
      <4>1. PICK k \in 1 .. n : p = xs[k]
        BY <2>1
      <4>2. k \in 1 .. n + 1 /\ ys[k] = p /\ \A i \in 1 .. n + 1 : ys[i] <= ys[k]
        <5>1. k \in 1 .. n + 1 /\ ys[k] = p
          BY <1>1, <4>1
        <5>2. ASSUME NEW i \in 1 .. n + 1 PROVE ys[i] <= p
          <6>1. CASE i = n + 1
            BY <1>1, <2>1, <3>2, <6>1
          <6>2. CASE i # n + 1
            BY <1>1, <2>1, <6>2
          <6> QED BY <6>1, <6>2
        <5> QED BY <5>1, <5>2
      <4>3. Peak(ys, n + 1) = ys[k]
        BY <1>1, <1>3, <4>2, PeakIs
      <4> QED BY <3>2, <4>2, <4>3 DEF Larger
    <3> QED BY <3>1, <3>2
  <2> QED BY <1>1, <1>2, <1>5, <2>2 DEF ys, n, p
<1> QED BY <1>4, <1>5

\* How far each value is below its peak.
Declines(xs) == [t \in DOMAIN xs |-> Drawdown(Peak(xs, t), xs[t])]

LEMMA DeclineFacts ==
    ASSUME NEW xs \in Ints
    PROVE  /\ \A t \in 1 .. Len(xs) : /\ Declines(xs)[t] = Drawdown(Peak(xs, t), xs[t])
                                      /\ Declines(xs)[t] \in Int
                                      /\ 0 <= Declines(xs)[t]
           /\ DeepestDecline(xs) = Highest(Declines(xs), 1, Len(xs))
<1>1. Len(xs) \in Nat /\ DOMAIN xs = 1 .. Len(xs) /\ \A i \in 1 .. Len(xs) : xs[i] \in Int
  BY IntsFacts
<1>2. ASSUME NEW t \in 1 .. Len(xs)
      PROVE  /\ Declines(xs)[t] = Drawdown(Peak(xs, t), xs[t])
             /\ Declines(xs)[t] \in Int /\ 0 <= Declines(xs)[t]
  <2>1. Declines(xs)[t] = Drawdown(Peak(xs, t), xs[t])
    BY <1>1 DEF Declines
  <2>2. xs[t] \in Int /\ Peak(xs, t) \in Int /\ xs[t] <= Peak(xs, t)
    <3>1. t \in 1 .. t
      BY <1>1
    <3> QED BY <1>1, <3>1, PeakFacts
  <2> QED BY <2>1, <2>2, DrawdownFacts
<1>3. DeepestDecline(xs) = Highest(Declines(xs), 1, Len(xs))
  <2>1. {Drawdown(Peak(xs, t), xs[t]) : t \in DOMAIN xs}
        = {Declines(xs)[t] : t \in 1 .. Len(xs)}
    BY <1>1, <1>2
  <2> QED BY <2>1 DEF DeepestDecline, Highest
<1> QED BY <1>2, <1>3

LEMMA DeepestFacts ==
    ASSUME NEW xs \in Ints, xs # <<>>
    PROVE  /\ DeepestDecline(xs) \in Int /\ 0 <= DeepestDecline(xs)
           /\ \E k \in 1 .. Len(xs) : DeepestDecline(xs) = Drawdown(Peak(xs, k), xs[k])
           /\ \A t \in 1 .. Len(xs) : Drawdown(Peak(xs, t), xs[t]) <= DeepestDecline(xs)
<1> DEFINE n == Len(xs)
           ds == Declines(xs)
<1>1. n \in Int /\ 1 \in Int /\ 1 <= n /\ \A t \in 1 .. n : ds[t] \in Int
  BY IntsFacts, DeclineFacts
<1>2. DeepestDecline(xs) = Highest(ds, 1, n)
  BY DeclineFacts
<1> HIDE DEF ds, n
<1>3. /\ DeepestDecline(xs) \in Int
      /\ \E k \in 1 .. n : DeepestDecline(xs) = ds[k]
      /\ \A t \in 1 .. n : ds[t] <= DeepestDecline(xs)
  BY <1>1, <1>2, HighestFacts
<1>4. \A t \in 1 .. n : ds[t] = Drawdown(Peak(xs, t), xs[t]) /\ 0 <= ds[t]
  BY DeclineFacts DEF ds, n
<1> QED BY <1>1, <1>3, <1>4 DEF n

LEMMA DeepestIs ==
    ASSUME NEW xs \in Ints, NEW v, NEW k \in 1 .. Len(xs),
           v = Drawdown(Peak(xs, k), xs[k]),
           \A t \in 1 .. Len(xs) : Drawdown(Peak(xs, t), xs[t]) <= v
    PROVE  DeepestDecline(xs) = v
<1> DEFINE n == Len(xs)
           ds == Declines(xs)
<1>1. n \in Int /\ 1 \in Int /\ \A t \in 1 .. n : ds[t] \in Int
  BY IntsFacts, DeclineFacts
<1>2. DeepestDecline(xs) = Highest(ds, 1, n)
  BY DeclineFacts
<1>3. \A t \in 1 .. n : ds[t] = Drawdown(Peak(xs, t), xs[t])
  BY DeclineFacts
<1>4. ds[k] = v /\ k \in 1 .. n
  BY <1>3
<1>5. \A t \in 1 .. n : ds[t] <= ds[k]
  BY <1>3, <1>4
<1> HIDE DEF ds, n
<1> QED BY <1>1, <1>2, <1>4, <1>5, HighestIs

LEMMA DeepestGrows ==
    ASSUME NEW xs \in Ints, NEW x \in Int
    PROVE  LET ys == Append(xs, x)
               last == Drawdown(Peak(ys, Len(xs) + 1), x)
           IN  DeepestDecline(ys) =
                   IF xs = <<>> THEN last ELSE Larger(DeepestDecline(xs), last)
<1> DEFINE ys == Append(xs, x)
           n == Len(xs)
           d == Drawdown(Peak(ys, n + 1), x)
<1>1. /\ ys \in Ints /\ Len(ys) = n + 1 /\ n \in Nat /\ ys[n + 1] = x /\ ys # <<>>
      /\ \A i \in 1 .. n : ys[i] = xs[i] /\ xs[i] \in Int
      /\ xs = <<>> <=> n = 0
  BY IntsGrow, IntsFacts
<1>2. \A t \in 1 .. n : Peak(ys, t) = Peak(xs, t)
  BY PeakGrows
<1>3. n + 1 \in 1 .. Len(ys) /\ d \in Int
  <2>1. n + 1 \in 1 .. Len(ys)
    BY <1>1
  <2>2. Peak(ys, n + 1) \in Int
    BY <1>1, <2>1, PeakFacts
  <2> QED BY <2>1, <2>2, DrawdownFacts
<1> HIDE DEF ys
<1>4. \A t \in 1 .. n : Drawdown(Peak(ys, t), ys[t]) = Drawdown(Peak(xs, t), xs[t])
  BY <1>1, <1>2
<1>5. Drawdown(Peak(ys, n + 1), ys[n + 1]) = d
  BY <1>1
<1>6. CASE xs = <<>>
  <2>1. \A t \in 1 .. Len(ys) : Drawdown(Peak(ys, t), ys[t]) <= d
    BY <1>1, <1>3, <1>5, <1>6
  <2>2. DeepestDecline(ys) = d
    BY <1>1, <1>3, <1>5, <2>1, DeepestIs
  <2> QED BY <1>6, <2>2 DEF ys
<1>7. CASE xs # <<>>
  <2> DEFINE e == DeepestDecline(xs)
  <2>1. PICK k \in 1 .. n : e = Drawdown(Peak(xs, k), xs[k])
    BY <1>7, DeepestFacts
  <2>2. e \in Int /\ \A t \in 1 .. n : Drawdown(Peak(xs, t), xs[t]) <= e
    BY <1>7, DeepestFacts
  <2>3. \A t \in 1 .. Len(ys) : t = n + 1 \/ t \in 1 .. n
    BY <1>1
  <2>4. \A t \in 1 .. n : Drawdown(Peak(xs, t), xs[t]) \in Int
    <3> SUFFICES ASSUME NEW t \in 1 .. n PROVE Drawdown(Peak(xs, t), xs[t]) \in Int
      OBVIOUS
    <3>1. Peak(xs, t) \in Int
      BY PeakFacts
    <3> QED BY <1>1, <3>1, DrawdownFacts
  <2> HIDE DEF e, d, n
  <2>5. CASE e < d
    <3>1. \A t \in 1 .. Len(ys) : Drawdown(Peak(ys, t), ys[t]) <= d
      BY <1>3, <1>4, <1>5, <2>2, <2>3, <2>4, <2>5
    <3>2. DeepestDecline(ys) = d
      BY <1>1, <1>3, <1>5, <3>1, DeepestIs
    <3> QED BY <1>7, <2>5, <3>2 DEF ys, e, d, n, Larger
  <2>6. CASE ~(e < d)
    <3>1. \A t \in 1 .. Len(ys) : Drawdown(Peak(ys, t), ys[t]) <= e
      BY <1>3, <1>4, <1>5, <2>2, <2>3, <2>6
    <3>2. k \in 1 .. Len(ys) /\ e = Drawdown(Peak(ys, k), ys[k])
      BY <1>1, <1>4, <2>1
    <3>3. DeepestDecline(ys) = e
      BY <1>1, <3>1, <3>2, DeepestIs
    <3> QED BY <1>7, <2>6, <3>3 DEF ys, e, d, n, Larger
  <2> QED BY <2>5, <2>6
<1> QED BY <1>6, <1>7

-----------------------------------------------------------------------------
(* RunningDrawdown and DrawdownDuration: the state after the inputs xs. *)

RunningKeeps(s, xs) ==
    IF xs = <<>> THEN s = NewRunningDrawdown
    ELSE s.seen = TRUE /\ s.peak = Peak(xs, Len(xs)) /\ s.max = DeepestDecline(xs)

LEMMA RunningFed ==
    ASSUME NEW xs \in Ints, NEW x \in Int, Bottom < x, NEW s, RunningKeeps(s, xs)
    PROVE  RunningKeeps(RunningDrawdownUpdated(s, x), Append(xs, x))
<1> DEFINE n == Len(xs)
           ys == Append(xs, x)
           t == RunningDrawdownUpdated(s, x)
           peak == Larger(s.peak, x)
           current == Drawdown(peak, x)
<1>1. /\ ys \in Ints /\ ys # <<>> /\ Len(ys) = n + 1 /\ n \in Nat /\ (xs = <<>> <=> n = 0)
  BY IntsGrow, IntsFacts
<1>2. t.seen = TRUE /\ t.peak = peak /\ t.max = Larger(s.max, current)
  BY DEF RunningDrawdownUpdated
<1>3. Peak(ys, n + 1) = IF xs = <<>> THEN x ELSE Larger(Peak(xs, n), x)
  BY PeakGrows
<1>4. DeepestDecline(ys) = IF xs = <<>> THEN Drawdown(Peak(ys, n + 1), x)
                           ELSE Larger(DeepestDecline(xs), Drawdown(Peak(ys, n + 1), x))
  BY DeepestGrows
<1> HIDE DEF t, ys
<1>5. CASE xs = <<>>
  <2>1. s.peak = Bottom /\ s.max = 0
    BY <1>5 DEF RunningKeeps, NewRunningDrawdown
  <2>2. peak = x
    BY <2>1 DEF Larger
  <2>3. current = 0
    BY <2>2, DrawdownFacts
  <2>4. t.max = 0
    BY <1>2, <2>1, <2>3 DEF Larger
  <2> QED BY <1>1, <1>2, <1>3, <1>4, <1>5, <2>2, <2>3, <2>4 DEF RunningKeeps, t, ys
<1>6. CASE xs # <<>>
  <2>1. s.peak = Peak(xs, n) /\ s.max = DeepestDecline(xs)
    BY <1>6 DEF RunningKeeps
  <2> QED BY <1>1, <1>2, <1>3, <1>4, <1>6, <2>1 DEF RunningKeeps, t, ys
<1> QED BY <1>5, <1>6

\* Where a list is at its peak.
AtPeak(xs) == {t \in DOMAIN xs : xs[t] = Peak(xs, t)}

DurationKeeps(s, xs) ==
    IF xs = <<>> THEN s = NewDrawdownDuration
    ELSE /\ s.seen = TRUE /\ s.peak = Peak(xs, Len(xs))
         /\ s.underWater = BarsUnderWater(xs)
         /\ DOMAIN s = {"peak", "underWater", "seen"}

LEMMA AtPeakGrows ==
    ASSUME NEW xs \in Ints, NEW x \in Int
    PROVE  AtPeak(Append(xs, x)) = AtPeak(xs) \cup
               (IF xs = <<>> \/ Peak(xs, Len(xs)) <= x THEN {Len(xs) + 1} ELSE {})
<1> DEFINE n == Len(xs)
           ys == Append(xs, x)
<1>1. /\ ys \in Ints /\ Len(ys) = n + 1 /\ n \in Nat /\ (xs = <<>> <=> n = 0)
      /\ \A i \in 1 .. n : ys[i] = xs[i]
      /\ ys[n + 1] = x /\ DOMAIN xs = 1 .. n
  BY IntsGrow, IntsFacts
<1>2. DOMAIN ys = 1 .. n + 1
  BY <1>1, IntsFacts
<1>3. /\ \A t \in 1 .. n : Peak(ys, t) = Peak(xs, t)
      /\ Peak(ys, n + 1) = IF xs = <<>> THEN x ELSE Larger(Peak(xs, n), x)
  BY PeakGrows
<1>4. xs # <<>> => Peak(xs, n) \in Int
  BY <1>1, PeakFacts
<1> HIDE DEF ys, n
<1>5. x = Peak(ys, n + 1) <=> xs = <<>> \/ Peak(xs, n) <= x
  BY <1>3, <1>4 DEF Larger
<1>6. \A t \in 1 .. n + 1 : t \in 1 .. n \/ t = n + 1
  BY <1>1
<1>7. n + 1 \in 1 .. n + 1 /\ \A t \in 1 .. n : t \in 1 .. n + 1
  BY <1>1
<1>8. \A t : t \in AtPeak(ys) <=> t \in AtPeak(xs) \/ (x = Peak(ys, n + 1) /\ t = n + 1)
  BY <1>1, <1>2, <1>3, <1>6, <1>7 DEF AtPeak
<1>9. AtPeak(ys) = AtPeak(xs) \cup (IF xs = <<>> \/ Peak(xs, n) <= x THEN {n + 1} ELSE {})
  BY <1>5, <1>8
<1> QED BY <1>9 DEF ys, n

LEMMA DurationFed ==
    ASSUME NEW xs \in Ints, NEW x \in Int, NEW s, DurationKeeps(s, xs)
    PROVE  DurationKeeps(DrawdownDurationUpdated(s, x), Append(xs, x))
<1> DEFINE n == Len(xs)
           ys == Append(xs, x)
           t == DrawdownDurationUpdated(s, x)
           A == AtPeak(xs)
           B == AtPeak(ys)
           last == xs = <<>> \/ Peak(xs, n) <= x
<1>1. /\ ys \in Ints /\ ys # <<>> /\ Len(ys) = n + 1 /\ n \in Nat /\ (xs = <<>> <=> n = 0)
      /\ DOMAIN xs = 1 .. n
  BY IntsGrow, IntsFacts
<1>2. Peak(ys, n + 1) = IF xs = <<>> THEN x ELSE Larger(Peak(xs, n), x)
  BY PeakGrows
<1>3. B = A \cup (IF last THEN {n + 1} ELSE {})
  BY AtPeakGrows
<1>4. A \in SUBSET (1 .. n)
  BY <1>1 DEF AtPeak
<1>5. BarsUnderWater(ys) = Len(ys) - Max(B) /\ BarsUnderWater(xs) = n - Max(A)
  BY Zenon DEF BarsUnderWater, AtPeak
<1>6. xs # <<>> => Peak(xs, n) \in Int
  BY <1>1, PeakFacts
<1> HIDE DEF ys, n, A, B
<1>7. ~s.seen \/ x >= s.peak <=> last
  BY <1>6 DEF DurationKeeps, NewDrawdownDuration, n
<1>8. CASE last
  <2>1. t = [peak |-> x, underWater |-> 0, seen |-> TRUE]
    BY <1>7, <1>8 DEF DrawdownDurationUpdated
  <2>2. n + 1 \in B /\ B \in SUBSET Int /\ \A m \in B : m <= n + 1
    BY <1>1, <1>3, <1>4, <1>8
  <2>3. Max(B) = n + 1
    BY <2>2, MaxIs
  <2>4. BarsUnderWater(ys) = 0
    BY <1>1, <1>5, <2>3
  <2>5. Peak(ys, n + 1) = x
    BY <1>2, <1>6, <1>8 DEF Larger
  <2> QED BY <1>1, <2>1, <2>4, <2>5 DEF DurationKeeps, ys
<1>9. CASE ~last
  <2>1. t = [s EXCEPT !.underWater = @ + 1]
    BY <1>7, <1>9 DEF DrawdownDurationUpdated
  <2>2. /\ s.seen = TRUE /\ s.peak = Peak(xs, n) /\ s.underWater = BarsUnderWater(xs)
        /\ DOMAIN s = {"peak", "underWater", "seen"}
    BY <1>9 DEF DurationKeeps, n
  <2>3. /\ t.seen = TRUE /\ t.peak = Peak(xs, n) /\ t.underWater = BarsUnderWater(xs) + 1
        /\ DOMAIN t = {"peak", "underWater", "seen"}
    BY <2>1, <2>2
  <2>4. A # {}
    <3>0. n \in 1 .. Len(xs)
      BY <1>1, <1>9 DEF n
    <3>1. PICK k \in 1 .. n : Peak(xs, n) = xs[k]
      BY <3>0, PeakFacts
    <3>2. k \in 1 .. Len(xs) /\ 1 <= k /\ k <= n
      BY <1>1 DEF n
    <3>3. \A i \in 1 .. k : xs[i] <= xs[k]
      <4>1. \A i \in 1 .. n : xs[i] <= Peak(xs, n)
        BY <3>0, PeakFacts
      <4> QED BY <1>1, <3>1, <3>2, <4>1
    <3>4. Peak(xs, k) = xs[k]
      BY <3>2, <3>3, PeakIs
    <3> QED BY <1>1, <3>4 DEF A, AtPeak
  <2>5. Max(A) \in Int
    <3>1. A \in SUBSET Int /\ n \in Int /\ \A m \in A : m <= n
      BY <1>1, <1>4
    <3> QED BY <2>4, <3>1, MaxOf
  <2>6. BarsUnderWater(ys) = BarsUnderWater(xs) + 1
    <3>1. B = A
      BY <1>3, <1>9
    <3> QED BY <1>1, <1>5, <2>5, <3>1
  <2>7. Peak(ys, n + 1) = Peak(xs, n)
    BY <1>2, <1>6, <1>9 DEF Larger
  <2> QED BY <1>1, <2>3, <2>6, <2>7 DEF DurationKeeps, ys
<1> QED BY <1>8, <1>9

-----------------------------------------------------------------------------
(* The window after one more input. *)

Slid(xs, p, x) == Append(IF Len(xs) = p THEN Tail(xs) ELSE xs, x)

LEMMA TailOfInts ==
    ASSUME NEW xs \in Ints, xs # <<>>
    PROVE  /\ Tail(xs) \in Ints /\ Len(Tail(xs)) = Len(xs) - 1
           /\ \A i \in 1 .. Len(xs) - 1 : Tail(xs)[i] = xs[i + 1]
           /\ Head(xs) = xs[1] /\ Head(xs) \in Int
  BY HeadTailProperties, IntsFacts DEF Ints

LEMMA PartOfInts ==
    ASSUME NEW q, NEW m \in Int, NEW n \in Int, \A i \in m .. n : q[i] \in Int
    PROVE  /\ SubSeq(q, m, n) \in Ints
           /\ Len(SubSeq(q, m, n)) = IF m <= n THEN n - m + 1 ELSE 0
           /\ \A i \in 1 .. n - m + 1 : SubSeq(q, m, n)[i] = q[m + i - 1]
  BY SubSeqProperties DEF Ints

LEMMA SlidFacts ==
    ASSUME NEW p \in Nat \ {0}, NEW xs \in Ints, Len(xs) <= p, NEW x \in Int
    PROVE  /\ Slid(xs, p, x) \in Ints /\ Slid(xs, p, x) # <<>>
           /\ Len(Slid(xs, p, x)) = IF Len(xs) = p THEN p ELSE Len(xs) + 1
           /\ Len(Slid(xs, p, x)) <= p
<1>1. Len(xs) \in Nat /\ (xs = <<>> <=> Len(xs) = 0)
  BY IntsFacts
<1>2. CASE Len(xs) = p
  <2>1. Tail(xs) \in Ints /\ Len(Tail(xs)) = p - 1
    BY <1>1, <1>2, TailOfInts
  <2>2. Slid(xs, p, x) = Append(Tail(xs), x)
    BY <1>2 DEF Slid
  <2>3. /\ Append(Tail(xs), x) \in Ints /\ Append(Tail(xs), x) # <<>>
        /\ Len(Append(Tail(xs), x)) = Len(Tail(xs)) + 1
    BY <2>1, IntsGrow
  <2>4. p - 1 + 1 = p /\ p <= p
    OBVIOUS
  <2> HIDE DEF Slid
  <2> QED BY <1>2, <2>1, <2>2, <2>3, <2>4
<1>3. CASE Len(xs) # p
  <2>1. Slid(xs, p, x) = Append(xs, x)
    BY <1>3 DEF Slid
  <2>2. /\ Append(xs, x) \in Ints /\ Append(xs, x) # <<>>
        /\ Len(Append(xs, x)) = Len(xs) + 1
    BY IntsGrow
  <2> HIDE DEF Slid
  <2> QED BY <1>1, <1>3, <2>1, <2>2
<1> QED BY <1>2, <1>3

LEMMA RememberedIsSlid ==
    ASSUME NEW stage \in Stage, stage.kind \in Windowed,
           NEW xs \in Ints, Len(xs) <= stage.period, NEW x \in Int
    PROVE  Remembered(stage, Append(xs, x)) = Slid(xs, stage.period, x)
<1> DEFINE p == stage.period
           ys == Append(xs, x)
<1>1. p \in Nat \ {0} /\ Len(xs) \in Nat /\ (xs = <<>> <=> Len(xs) = 0)
  BY KindCases, IntsFacts
<1>2. ys \in Ints /\ ys # <<>> /\ Len(ys) = Len(xs) + 1
      /\ (\A i \in 1 .. Len(xs) : ys[i] = xs[i]) /\ ys[Len(xs) + 1] = x
  BY IntsGrow
<1>3. Remembered(stage, ys) = IF Len(ys) > p THEN Tail(ys) ELSE ys
  BY DEF Remembered
<1> HIDE DEF ys, p
<1>4. CASE Len(xs) = p
  <2> DEFINE a == Tail(ys)
             b == Append(Tail(xs), x)
             n == Len(xs)
  <2>1. /\ Tail(xs) \in Ints /\ Len(Tail(xs)) = n - 1
        /\ \A i \in 1 .. n - 1 : Tail(xs)[i] = xs[i + 1]
    BY <1>1, <1>4, TailOfInts
  <2>2. /\ b \in Ints /\ Len(b) = n - 1 + 1
        /\ \A i \in 1 .. n - 1 : b[i] = Tail(xs)[i]
        /\ b[n - 1 + 1] = x
    BY <2>1, IntsGrow
  <2>3. /\ a \in Ints /\ Len(a) = n + 1 - 1
        /\ \A i \in 1 .. n + 1 - 1 : a[i] = ys[i + 1]
    BY <1>2, TailOfInts
  <2> HIDE DEF a, b, n
  <2>4. n \in Nat \ {0} /\ n - 1 + 1 = n /\ n + 1 - 1 = n
    BY <1>1, <1>4 DEF n
  <2>5. \A i \in 1 .. n : a[i] = b[i]
    <3> SUFFICES ASSUME NEW i \in 1 .. n PROVE a[i] = b[i]
      OBVIOUS
    <3>1. a[i] = ys[i + 1]
      BY <2>3, <2>4
    <3>2. CASE i = n
      BY <1>2, <2>2, <2>4, <3>1, <3>2 DEF n
    <3>3. CASE i # n
      <4>1. i \in 1 .. n - 1 /\ i + 1 \in 1 .. n
        BY <2>4, <3>3
      <4> QED BY <1>2, <2>1, <2>2, <3>1, <4>1 DEF n
    <3> QED BY <3>2, <3>3
  <2>6. a = b
    BY <2>2, <2>3, <2>4, <2>5, SeqEqual DEF Ints
  <2>7. Remembered(stage, ys) = a
    BY <1>1, <1>2, <1>3, <1>4 DEF a
  <2> QED BY <1>4, <2>6, <2>7 DEF Slid, b, ys, p
<1>5. CASE Len(xs) # p
  <2>1. ~(Len(ys) > p)
    BY <1>1, <1>2, <1>5 DEF p
  <2> QED BY <1>3, <1>5, <2>1 DEF Slid, ys, p
<1> QED BY <1>4, <1>5

-----------------------------------------------------------------------------
(* Sums of lists. *)

\* A list of integers, as a function.
IsList(q, N) == DOMAIN q = 1 .. N /\ \A i \in 1 .. N : q[i] \in Int

\* What is said of all the sums at once is said by induction on the length.
LEMMA PrefixSums ==
    ASSUME NEW N \in Nat, NEW q, IsList(q, N)
    PROVE  \E V : /\ V[0] = 0 /\ V[N] = Added(q)
                  /\ \A k \in 0 .. N : V[k] \in Int
                  /\ \A k \in 0 .. N - 1 : V[k + 1] = V[k] + q[k + 1]
<1>1. PICK V : AreAdded(V, q, N)
  BY AddedExist DEF IsList
<1>2. V[0] = 0 /\ V[N] = Added(q) /\ \A k \in 0 .. N : V[k] \in Int
  BY <1>1 DEF AreAdded
<1>3. \A k \in 0 .. N - 1 : V[k + 1] = V[k] + q[k + 1]
  <2> SUFFICES ASSUME NEW k \in 0 .. N - 1 PROVE V[k + 1] = V[k] + q[k + 1]
    OBVIOUS
  <2>1. k + 1 \in 1 .. N /\ (k + 1) - 1 = k
    OBVIOUS
  <2>2. \A j \in 1 .. N : V[j] = V[j - 1] + q[j]
    BY <1>1 DEF AreAdded
  <2>3. V[k + 1] = V[(k + 1) - 1] + q[k + 1]
    BY <2>1, <2>2
  <2> QED BY <2>1, <2>3
<1> QED BY <1>2, <1>3

LEMMA SumIsInt ==
    ASSUME NEW N \in Nat, NEW q, IsList(q, N)
    PROVE  Added(q) \in Int
<1>1. PICK V : V[N] = Added(q) /\ \A k \in 0 .. N : V[k] \in Int
  BY PrefixSums
<1> QED BY <1>1

\* One more at the end.
LEMMA SumGrows ==
    ASSUME NEW N \in Nat, NEW q, IsList(q, N), NEW r, IsList(r, N + 1),
           \A i \in 1 .. N : r[i] = q[i]
    PROVE  Added(r) = Added(q) + r[N + 1]
  BY AddedGrows DEF IsList

\* Equal lists.
LEMMA SumSame ==
    ASSUME NEW N \in Nat, NEW q, IsList(q, N), NEW r, IsList(r, N),
           \A i \in 1 .. N : r[i] = q[i]
    PROVE  Added(r) = Added(q)
<1>1. PICK V : /\ V[0] = 0 /\ V[N] = Added(q)
               /\ \A k \in 0 .. N : V[k] \in Int
               /\ \A k \in 0 .. N - 1 : V[k + 1] = V[k] + q[k + 1]
  BY PrefixSums
<1>2. PICK W : /\ W[0] = 0 /\ W[N] = Added(r)
               /\ \A k \in 0 .. N : W[k] \in Int
               /\ \A k \in 0 .. N - 1 : W[k + 1] = W[k] + r[k + 1]
  BY PrefixSums
<1> DEFINE P == {k \in Nat : k <= N => W[k] = V[k]}
<1>3. 0 \in P
  BY <1>1, <1>2
<1>4. \A k \in Nat : k \in P => k + 1 \in P
  <2> SUFFICES ASSUME NEW k \in Nat, k \in P, k + 1 <= N PROVE W[k + 1] = V[k + 1]
    OBVIOUS
  <2>1. k \in 0 .. N - 1 /\ k + 1 \in 1 .. N /\ W[k] = V[k]
    OBVIOUS
  <2> QED BY <1>1, <1>2, <2>1
<1> HIDE DEF P
<1>5. N \in P
  BY <1>3, <1>4, SetInduction
<1> QED BY <1>1, <1>2, <1>5 DEF P

\* The first one apart.
LEMMA SumOfRest ==
    ASSUME NEW N \in Nat, NEW q, IsList(q, N + 1), NEW r, IsList(r, N),
           \A i \in 1 .. N : r[i] = q[i + 1]
    PROVE  Added(q) = q[1] + Added(r)
<1>0. N + 1 \in Nat /\ 1 \in 1 .. N + 1
  OBVIOUS
<1>1. PICK V : /\ V[0] = 0 /\ V[N + 1] = Added(q)
               /\ \A k \in 0 .. N + 1 : V[k] \in Int
               /\ \A k \in 0 .. (N + 1) - 1 : V[k + 1] = V[k] + q[k + 1]
  BY <1>0, PrefixSums
<1>2. PICK W : /\ W[0] = 0 /\ W[N] = Added(r)
               /\ \A k \in 0 .. N : W[k] \in Int
               /\ \A k \in 0 .. N - 1 : W[k + 1] = W[k] + r[k + 1]
  BY PrefixSums
<1>3. q[1] \in Int
  BY <1>0 DEF IsList
<1> DEFINE P == {k \in Nat : k <= N => V[k + 1] = q[1] + W[k]}
<1>4. 0 \in P
  <2>1. 0 \in 0 .. (N + 1) - 1 /\ 0 + 1 = 1
    OBVIOUS
  <2>2. V[0 + 1] = V[0] + q[0 + 1]
    BY <1>1, <2>1
  <2>3. V[1] = q[1] + W[0]
    BY <1>1, <1>2, <1>3, <2>1, <2>2
  <2> QED BY <2>1, <2>3
<1>5. \A k \in Nat : k \in P => k + 1 \in P
  <2> SUFFICES ASSUME NEW k \in Nat, k \in P, k + 1 <= N
               PROVE  V[(k + 1) + 1] = q[1] + W[k + 1]
    OBVIOUS
  <2>1. k \in 0 .. N - 1 /\ k + 1 \in 0 .. (N + 1) - 1 /\ k + 1 \in 1 .. N /\ k \in 0 .. N
    OBVIOUS
  <2>2. V[(k + 1) + 1] = V[k + 1] + q[(k + 1) + 1]
    BY <1>1, <2>1
  <2>3. W[k + 1] = W[k] + r[k + 1]
    BY <1>2, <2>1
  <2>4. r[k + 1] = q[(k + 1) + 1] /\ r[k + 1] \in Int
    BY <2>1 DEF IsList
  <2>5. V[k + 1] = q[1] + W[k] /\ W[k] \in Int
    BY <1>2, <2>1
  <2> QED BY <1>3, <2>2, <2>3, <2>4, <2>5
<1> HIDE DEF P
<1>6. N \in P
  BY <1>4, <1>5, SetInduction
<1> QED BY <1>1, <1>2, <1>6 DEF P

-----------------------------------------------------------------------------
(* ShiftedMoments. *)

Away(xs, offset) == [i \in 1 .. Len(xs) |-> xs[i] - offset]
AwaySquared(xs, offset) == [i \in 1 .. Len(xs) |-> (xs[i] - offset) * (xs[i] - offset)]
Squared(xs) == [i \in 1 .. Len(xs) |-> xs[i] * xs[i]]

LEMMA MomentLists ==
    ASSUME NEW xs \in Ints, NEW o \in Int
    PROVE  /\ Len(xs) \in Nat
           /\ IsList(xs, Len(xs)) /\ IsList(Away(xs, o), Len(xs))
           /\ IsList(AwaySquared(xs, o), Len(xs)) /\ IsList(Squared(xs), Len(xs))
           /\ \A i \in 1 .. Len(xs) :
                  /\ Away(xs, o)[i] = xs[i] - o
                  /\ AwaySquared(xs, o)[i] = (xs[i] - o) * (xs[i] - o)
                  /\ Squared(xs)[i] = xs[i] * xs[i]
<1>1. Len(xs) \in Nat /\ DOMAIN xs = 1 .. Len(xs) /\ \A i \in 1 .. Len(xs) : xs[i] \in Int
  BY IntsFacts
<1>2. \A i \in 1 .. Len(xs) : xs[i] - o \in Int /\ (xs[i] - o) * (xs[i] - o) \in Int
                              /\ xs[i] * xs[i] \in Int
  BY <1>1
<1>3. IsList(xs, Len(xs))
  BY <1>1 DEF IsList
<1>4. IsList(Away(xs, o), Len(xs)) /\ \A i \in 1 .. Len(xs) : Away(xs, o)[i] = xs[i] - o
  BY <1>2 DEF IsList, Away
<1>5. /\ IsList(AwaySquared(xs, o), Len(xs))
      /\ \A i \in 1 .. Len(xs) : AwaySquared(xs, o)[i] = (xs[i] - o) * (xs[i] - o)
  BY <1>2 DEF IsList, AwaySquared
<1>6. IsList(Squared(xs), Len(xs)) /\ \A i \in 1 .. Len(xs) : Squared(xs)[i] = xs[i] * xs[i]
  BY <1>2 DEF IsList, Squared
<1> QED BY <1>1, <1>3, <1>4, <1>5, <1>6

\* One more, or one less, in each of the sums.
LEMMA MomentsGrow ==
    ASSUME NEW xs \in Ints, NEW x \in Int, NEW o \in Int
    PROVE  LET ys == Append(xs, x)
           IN  /\ Added(Away(ys, o)) = Added(Away(xs, o)) + (x - o)
               /\ Added(AwaySquared(ys, o)) = Added(AwaySquared(xs, o)) + (x - o) * (x - o)
<1> DEFINE ys == Append(xs, x)
           n == Len(xs)
<1>1. ys \in Ints /\ Len(ys) = n + 1 /\ (\A i \in 1 .. n : ys[i] = xs[i]) /\ ys[n + 1] = x
  BY IntsGrow
<1> HIDE DEF ys
<1>2. /\ n \in Nat /\ IsList(Away(xs, o), n) /\ IsList(AwaySquared(xs, o), n)
      /\ \A i \in 1 .. n : /\ Away(xs, o)[i] = xs[i] - o
                           /\ AwaySquared(xs, o)[i] = (xs[i] - o) * (xs[i] - o)
  BY MomentLists
<1>3. /\ IsList(Away(ys, o), n + 1) /\ IsList(AwaySquared(ys, o), n + 1)
      /\ \A i \in 1 .. n + 1 : /\ Away(ys, o)[i] = ys[i] - o
                               /\ AwaySquared(ys, o)[i] = (ys[i] - o) * (ys[i] - o)
  BY <1>1, MomentLists
<1> HIDE DEF n
<1>4. n + 1 \in 1 .. n + 1 /\ \A i \in 1 .. n : i \in 1 .. n + 1
  BY <1>2
<1>5. \A i \in 1 .. n : /\ Away(ys, o)[i] = Away(xs, o)[i]
                        /\ AwaySquared(ys, o)[i] = AwaySquared(xs, o)[i]
  BY <1>1, <1>2, <1>3, <1>4
<1>6. Added(Away(ys, o)) = Added(Away(xs, o)) + Away(ys, o)[n + 1]
  BY <1>2, <1>3, <1>5, SumGrows
<1>7. Added(AwaySquared(ys, o)) = Added(AwaySquared(xs, o)) + AwaySquared(ys, o)[n + 1]
  BY <1>2, <1>3, <1>5, SumGrows
<1>8. Away(ys, o)[n + 1] = x - o /\ AwaySquared(ys, o)[n + 1] = (x - o) * (x - o)
  BY <1>1, <1>3, <1>4
<1> QED BY <1>6, <1>7, <1>8 DEF ys

LEMMA MomentsShrink ==
    ASSUME NEW xs \in Ints, xs # <<>>, NEW o \in Int
    PROVE  /\ Added(Away(Tail(xs), o)) = Added(Away(xs, o)) - (Head(xs) - o)
           /\ Added(AwaySquared(Tail(xs), o))
                  = Added(AwaySquared(xs, o)) - (Head(xs) - o) * (Head(xs) - o)
<1> DEFINE ys == Tail(xs)
           n == Len(xs) - 1
           a == Away(xs, o)
           b == AwaySquared(xs, o)
           c == Away(ys, o)
           d == AwaySquared(ys, o)
<1>1. /\ ys \in Ints /\ Len(ys) = n /\ \A i \in 1 .. n : ys[i] = xs[i + 1]
      /\ Head(xs) = xs[1] /\ Head(xs) \in Int
  BY TailOfInts
<1>2. n \in Nat /\ Len(xs) = n + 1
  BY IntsFacts
<1> HIDE DEF ys, n
<1>3. /\ IsList(a, n + 1) /\ IsList(b, n + 1)
      /\ \A i \in 1 .. n + 1 : a[i] = xs[i] - o /\ b[i] = (xs[i] - o) * (xs[i] - o)
  BY <1>2, MomentLists
<1>4. /\ IsList(c, n) /\ IsList(d, n)
      /\ \A i \in 1 .. n : c[i] = ys[i] - o /\ d[i] = (ys[i] - o) * (ys[i] - o)
  BY <1>1, MomentLists
<1> HIDE DEF a, b, c, d
<1>5. 1 \in 1 .. n + 1 /\ \A i \in 1 .. n : i + 1 \in 1 .. n + 1
  BY <1>2
<1>6. \A i \in 1 .. n : c[i] = a[i + 1] /\ d[i] = b[i + 1]
  BY <1>1, <1>3, <1>4, <1>5
<1>7. Added(a) = a[1] + Added(c)
  BY <1>2, <1>3, <1>4, <1>6, SumOfRest
<1>8. Added(b) = b[1] + Added(d)
  BY <1>2, <1>3, <1>4, <1>6, SumOfRest
<1>9. Added(c) \in Int /\ Added(d) \in Int
  BY <1>2, <1>4, SumIsInt
<1>10. a[1] = Head(xs) - o /\ b[1] = (Head(xs) - o) * (Head(xs) - o)
  BY <1>1, <1>3, <1>5
<1>11. a[1] \in Int /\ b[1] \in Int
  BY <1>3, <1>5 DEF IsList
<1>12. Added(c) = Added(a) - a[1] /\ Added(d) = Added(b) - b[1]
  BY <1>7, <1>8, <1>9, <1>11
<1> QED BY <1>10, <1>12 DEF a, b, c, d, ys

\* The sums of the deviations from any offset, by those of the values.
LEMMA Shift ==
    ASSUME NEW xs \in Ints, NEW o \in Int
    PROVE  LET n == Len(xs)
               sum == Added(xs)
               squares == Added(Squared(xs))
           IN  /\ sum \in Int /\ squares \in Int
               /\ Added(Away(xs, o)) = sum - n * o
               /\ Added(AwaySquared(xs, o)) = squares - 2 * (o * sum) + n * (o * o)
<1> DEFINE N == Len(xs)
           a == Away(xs, o)
           b == AwaySquared(xs, o)
           c == Squared(xs)
<1>1. /\ N \in Nat /\ IsList(xs, N) /\ IsList(a, N) /\ IsList(b, N) /\ IsList(c, N)
      /\ \A i \in 1 .. N : /\ a[i] = xs[i] - o /\ b[i] = (xs[i] - o) * (xs[i] - o)
                           /\ c[i] = xs[i] * xs[i]
  BY MomentLists
<1> HIDE DEF N, a, b, c
<1>2. PICK V : /\ V[0] = 0 /\ V[N] = Added(xs)
               /\ \A k \in 0 .. N : V[k] \in Int
               /\ \A k \in 0 .. N - 1 : V[k + 1] = V[k] + xs[k + 1]
  BY <1>1, PrefixSums
<1>3. PICK A : /\ A[0] = 0 /\ A[N] = Added(a)
               /\ \A k \in 0 .. N : A[k] \in Int
               /\ \A k \in 0 .. N - 1 : A[k + 1] = A[k] + a[k + 1]
  BY <1>1, PrefixSums
<1>4. PICK B : /\ B[0] = 0 /\ B[N] = Added(b)
               /\ \A k \in 0 .. N : B[k] \in Int
               /\ \A k \in 0 .. N - 1 : B[k + 1] = B[k] + b[k + 1]
  BY <1>1, PrefixSums
<1>5. PICK C : /\ C[0] = 0 /\ C[N] = Added(c)
               /\ \A k \in 0 .. N : C[k] \in Int
               /\ \A k \in 0 .. N - 1 : C[k + 1] = C[k] + c[k + 1]
  BY <1>1, PrefixSums
<1> DEFINE P == {k \in Nat : k <= N => /\ A[k] = V[k] - k * o
                                       /\ B[k] = C[k] - 2 * (o * V[k]) + k * (o * o)}
<1>6. 0 \in P
  <2>1. 0 = 0 - 0 * o /\ 0 = 0 - 2 * (o * 0) + 0 * (o * o)
    OBVIOUS
  <2> QED BY <1>2, <1>3, <1>4, <1>5, <2>1
<1>7. \A k \in Nat : k \in P => k + 1 \in P
  <2> SUFFICES ASSUME NEW k \in Nat, k \in P, k + 1 <= N
               PROVE  /\ A[k + 1] = V[k + 1] - (k + 1) * o
                      /\ B[k + 1] = C[k + 1] - 2 * (o * V[k + 1]) + (k + 1) * (o * o)
    OBVIOUS
  <2>1. k \in 0 .. N - 1 /\ k + 1 \in 1 .. N /\ k \in 0 .. N
    BY <1>1
  <2> DEFINE x == xs[k + 1]
             v == V[k]
             w == C[k]
  <2>2. x \in Int /\ v \in Int /\ w \in Int
    BY <1>1, <1>2, <1>5, <2>1 DEF IsList
  <2>3. /\ V[k + 1] = v + x /\ C[k + 1] = w + x * x
        /\ A[k + 1] = A[k] + (x - o) /\ B[k + 1] = B[k] + (x - o) * (x - o)
    BY <1>1, <1>2, <1>3, <1>4, <1>5, <2>1
  <2>4. A[k] = v - k * o /\ B[k] = w - 2 * (o * v) + k * (o * o)
    BY <2>1
  <2> HIDE DEF x, v, w, P
  <2>5. A[k + 1] = (v - k * o) + (x - o)
    BY <2>3, <2>4
  <2>6. B[k + 1] = (w - 2 * (o * v) + k * (o * o)) + (x - o) * (x - o)
    BY <2>3, <2>4
  <2>7. (v - k * o) + (x - o) = (v + x) - (k + 1) * o
    BY <2>2
  <2>8. (w - 2 * (o * v) + k * (o * o)) + (x - o) * (x - o)
        = (w + x * x) - 2 * (o * (v + x)) + (k + 1) * (o * o)
    BY <2>2
  <2> QED BY <2>3, <2>5, <2>6, <2>7, <2>8
<1> HIDE DEF P
<1>8. N \in P
  BY <1>1, <1>6, <1>7, SetInduction
<1>9. N \in 0 .. N
  BY <1>1
<1>10. /\ Added(a) = Added(xs) - N * o
       /\ Added(b) = Added(c) - 2 * (o * Added(xs)) + N * (o * o)
       /\ Added(xs) \in Int /\ Added(c) \in Int
  BY <1>1, <1>2, <1>3, <1>4, <1>5, <1>8, <1>9 DEF P
<1> QED BY <1>10 DEF N, a, b, c

\* The variance, and that it is not negative.
LEMMA VarianceIs ==
    ASSUME NEW xs \in Ints
    PROVE  /\ VarianceOf(xs) = Len(xs) * Added(Squared(xs)) - Added(xs) * Added(xs)
           /\ VarianceOf(xs) \in Int /\ 0 <= VarianceOf(xs)
<1> DEFINE N == Len(xs)
           c == Squared(xs)
<1>1. /\ N \in Nat /\ IsList(xs, N) /\ IsList(c, N) /\ \A i \in 1 .. N : c[i] = xs[i] * xs[i]
      /\ DOMAIN xs = 1 .. N
  BY MomentLists, IntsFacts, 0 \in Int
<1>2. VarianceOf(xs) = N * Added(c) - Added(xs) * Added(xs)
  <2>1. [i \in DOMAIN xs |-> xs[i] * xs[i]] = c
    BY <1>1 DEF Squared
  <2> QED BY <2>1 DEF VarianceOf, Sigma, Added
<1> HIDE DEF N, c
<1>3. PICK V : /\ V[0] = 0 /\ V[N] = Added(xs)
               /\ \A k \in 0 .. N : V[k] \in Int
               /\ \A k \in 0 .. N - 1 : V[k + 1] = V[k] + xs[k + 1]
  BY <1>1, PrefixSums
<1>4. PICK C : /\ C[0] = 0 /\ C[N] = Added(c)
               /\ \A k \in 0 .. N : C[k] \in Int
               /\ \A k \in 0 .. N - 1 : C[k + 1] = C[k] + c[k + 1]
  BY <1>1, PrefixSums
<1> DEFINE Away2(k, z) == C[k] - 2 * (z * V[k]) + k * (z * z)
           D(k) == k * C[k] - V[k] * V[k]
           P == {k \in Nat : k <= N => D(k) >= 0 /\ \A z \in Int : Away2(k, z) >= 0}
<1>5. 0 \in P
  <2>1. D(0) = 0 /\ \A z \in Int : Away2(0, z) = 0
    BY <1>3, <1>4
  <2> QED BY <2>1
<1>6. \A k \in Nat : k \in P => k + 1 \in P
  <2> SUFFICES ASSUME NEW k \in Nat, k \in P, k + 1 <= N
               PROVE  D(k + 1) >= 0 /\ \A z \in Int : Away2(k + 1, z) >= 0
    OBVIOUS
  <2>1. k \in 0 .. N - 1 /\ k + 1 \in 1 .. N /\ k \in 0 .. N
    BY <1>1
  <2> DEFINE x == xs[k + 1]
             v == V[k]
             w == C[k]
  <2>2. x \in Int /\ v \in Int /\ w \in Int
    BY <1>1, <1>3, <1>4, <2>1 DEF IsList
  <2>3. V[k + 1] = v + x /\ C[k + 1] = w + x * x
    BY <1>1, <1>3, <1>4, <2>1
  <2>4. k * w - v * v >= 0 /\ \A z \in Int : w - 2 * (z * v) + k * (z * z) >= 0
    BY <2>1
  <2>5. /\ D(k + 1) = (k + 1) * (w + x * x) - (v + x) * (v + x)
        /\ \A z \in Int : Away2(k + 1, z) = (w + x * x) - 2 * (z * (v + x)) + (k + 1) * (z * z)
    BY <2>3
  <2> HIDE DEF x, v, w, P, D, Away2
  <2>6. D(k + 1) >= 0
    <3>1. (k + 1) * (w + x * x) - (v + x) * (v + x)
          = (k * w - v * v) + (w - 2 * (x * v) + k * (x * x))
      BY <2>2
    <3>2. w - 2 * (x * v) + k * (x * x) >= 0
      BY <2>2, <2>4
    <3>3. k * w - v * v \in Int /\ w - 2 * (x * v) + k * (x * x) \in Int
      BY <2>2
    <3>4. \A a, b \in Int : a >= 0 /\ b >= 0 => a + b >= 0
      OBVIOUS
    <3> QED BY <2>4, <2>5, <3>1, <3>2, <3>3, <3>4
  <2>7. ASSUME NEW z \in Int PROVE Away2(k + 1, z) >= 0
    <3>1. (w + x * x) - 2 * (z * (v + x)) + (k + 1) * (z * z)
          = (w - 2 * (z * v) + k * (z * z)) + (x - z) * (x - z)
      BY <2>2
    <3>2. w - 2 * (z * v) + k * (z * z) >= 0
      BY <2>4
    <3>3. (x - z) * (x - z) >= 0
      <4>1. \A d \in Int : d * d >= 0
        OBVIOUS
      <4>2. x - z \in Int
        BY <2>2
      <4> QED BY <4>1, <4>2
    <3>4. (x - z) * (x - z) \in Int /\ w - 2 * (z * v) + k * (z * z) \in Int
      BY <2>2
    <3>5. \A a, b \in Int : a >= 0 /\ b >= 0 => a + b >= 0
      OBVIOUS
    <3>6. Away2(k + 1, z) = (w - 2 * (z * v) + k * (z * z)) + (x - z) * (x - z)
      BY <2>5, <3>1
    <3> QED BY <3>2, <3>3, <3>4, <3>5, <3>6
  <2> QED BY <2>6, <2>7
<1> HIDE DEF P
<1>7. N \in P
  BY <1>1, <1>5, <1>6, SetInduction
<1>8. N \in 0 .. N
  BY <1>1
<1>9. N * Added(c) - Added(xs) * Added(xs) >= 0
  <2>1. D(N) >= 0
    <3> HIDE DEF D, Away2
    <3> QED BY <1>7, <1>8 DEF P
  <2> QED BY <1>3, <1>4, <2>1
<1>10. Added(c) \in Int /\ Added(xs) \in Int
  BY <1>1, SumIsInt
<1> QED BY <1>1, <1>2, <1>9, <1>10 DEF N, c

Moments == [offset : Int, seeded : BOOLEAN, sum : Int, sumSq : Int, pushes : Int]

\* The moments of the values xs, by whatever offset.
MomentsKeep(m, xs) ==
    /\ m \in Moments
    /\ m.seeded \/ xs = <<>>
    /\ m.sum = Added(Away(xs, m.offset))
    /\ m.sumSq = Added(AwaySquared(xs, m.offset))

LEMMA SumsOfNone ==
    ASSUME NEW o \in Int
    PROVE  <<>> \in Ints /\ Added(Away(<<>>, o)) = 0 /\ Added(AwaySquared(<<>>, o)) = 0
<1>1. <<>> \in Ints /\ Len(<<>>) = 0 /\ 1 .. 0 = {}
  BY DEF Ints
<1>2. IsList(Away(<<>>, o), 0) /\ IsList(AwaySquared(<<>>, o), 0)
  BY <1>1, MomentLists
<1> QED BY <1>1, <1>2, AddedOfNone DEF IsList

LEMMA MomentsNew == MomentsKeep(NewMoments, <<>>)
<1>1. NewMoments \in Moments /\ NewMoments.offset = 0 /\ NewMoments.sum = 0
      /\ NewMoments.sumSq = 0
  BY DEF NewMoments, Moments
<1> QED BY <1>1, SumsOfNone DEF MomentsKeep

LEMMA PushKeeps ==
    ASSUME NEW xs \in Ints, NEW x \in Int, NEW m, MomentsKeep(m, xs)
    PROVE  MomentsKeep(Push(m, x), Append(xs, x))
<1> DEFINE o == IF m.seeded THEN m.offset ELSE x
           t == Push(m, x)
<1>1. m \in Moments
  BY DEF MomentsKeep
<1>2. /\ m.offset \in Int /\ m.sum \in Int /\ m.sumSq \in Int /\ m.pushes \in Int
      /\ o \in Int
  BY <1>1 DEF Moments
<1>3. t = [offset |-> o, seeded |-> TRUE, sum |-> m.sum + (x - o),
           sumSq |-> m.sumSq + (x - o) * (x - o), pushes |-> m.pushes + 1]
  BY DEF Push
<1>4. m.sum = Added(Away(xs, o)) /\ m.sumSq = Added(AwaySquared(xs, o))
  <2>1. CASE m.seeded
    BY <2>1 DEF MomentsKeep
  <2>2. CASE ~m.seeded
    <3>1. xs = <<>>
      BY <2>2 DEF MomentsKeep
    <3> QED BY <1>2, <3>1, SumsOfNone DEF MomentsKeep
  <2> QED BY <2>1, <2>2
<1> HIDE DEF o, t
<1>5. /\ Added(Away(Append(xs, x), o)) = m.sum + (x - o)
      /\ Added(AwaySquared(Append(xs, x), o)) = m.sumSq + (x - o) * (x - o)
  BY <1>2, <1>4, MomentsGrow
<1>6. /\ t.offset = o /\ t.seeded = TRUE /\ t.sum = m.sum + (x - o)
      /\ t.sumSq = m.sumSq + (x - o) * (x - o)
  BY <1>3
<1>7. t \in Moments
  <2>1. m.sum + (x - o) \in Int /\ (x - o) * (x - o) \in Int
    BY <1>2
  <2> QED BY <1>2, <1>3, <2>1 DEF Moments
<1> QED BY <1>5, <1>6, <1>7 DEF MomentsKeep, t

LEMMA EvictKeeps ==
    ASSUME NEW xs \in Ints, xs # <<>>, NEW m, MomentsKeep(m, xs)
    PROVE  MomentsKeep(Evict(m, Head(xs)), Tail(xs))
<1> DEFINE x == Head(xs)
           o == m.offset
           t == Evict(m, x)
<1>1. m \in Moments /\ m.seeded /\ x \in Int
  BY TailOfInts DEF MomentsKeep
<1>2. /\ o \in Int /\ m.sum \in Int /\ m.sumSq \in Int /\ m.pushes \in Int
      /\ DOMAIN m = {"offset", "seeded", "sum", "sumSq", "pushes"}
  BY <1>1 DEF Moments
<1>3. t = [m EXCEPT !.sum = @ - (x - o), !.sumSq = @ - (x - o) * (x - o)]
  BY DEF Evict
<1>4. m.sum = Added(Away(xs, o)) /\ m.sumSq = Added(AwaySquared(xs, o))
  BY DEF MomentsKeep
<1>5. /\ Added(Away(Tail(xs), o)) = Added(Away(xs, o)) - (Head(xs) - o)
      /\ Added(AwaySquared(Tail(xs), o)) = Added(AwaySquared(xs, o)) - (Head(xs) - o) * (Head(xs) - o)
  BY <1>2, MomentsShrink
<1> HIDE DEF x, t
<1>6. (x - o) \in Int /\ (x - o) * (x - o) \in Int
  BY <1>1, <1>2
<1>7. /\ t \in Moments /\ t.offset = o /\ t.seeded = m.seeded /\ t.sum = m.sum - (x - o)
      /\ t.sumSq = m.sumSq - (x - o) * (x - o)
  <2>1. \A d, e \in Int : m.sum - d \in Int /\ m.sumSq - e \in Int
    BY <1>2
  <2> DEFINE d == x - o
             e == (x - o) * (x - o)
  <2>2. t = [m EXCEPT !.sum = @ - d, !.sumSq = @ - e] /\ d \in Int /\ e \in Int
    BY <1>3, <1>6
  <2> HIDE DEF d, e
  <2>3. t \in Moments /\ t.offset = o /\ t.seeded = m.seeded /\ t.sum = m.sum - d
        /\ t.sumSq = m.sumSq - e
    BY <1>1, <1>2, <2>1, <2>2 DEF Moments
  <2> QED BY <2>3 DEF d, e
<1> QED BY <1>1, <1>4, <1>5, <1>7 DEF MomentsKeep, t, x

LEMMA ReseedKeeps ==
    ASSUME NEW xs \in Ints, xs # <<>>
    PROVE  MomentsKeep(ReseedMoments(xs), xs)
<1> DEFINE o == Sigma(xs) \div Len(xs)
           a == Away(xs, o)
           b == AwaySquared(xs, o)
           t == ReseedMoments(xs)
<1>1. Len(xs) \in Nat /\ Len(xs) # 0 /\ DOMAIN xs = 1 .. Len(xs)
  BY IntsFacts
<1>2. o \in Int
  <2>1. IsList(xs, Len(xs))
    BY MomentLists, 0 \in Int
  <2>2. Added(xs) \in Int
    BY <1>1, <2>1, SumIsInt
  <2>3. Sigma(xs) = Added(xs)
    BY DEF Sigma, Added
  <2> QED BY <1>1, <2>2, <2>3
<1>3. [i \in DOMAIN xs |-> xs[i] - o] = a
  BY <1>1 DEF Away
<1> DEFINE ds == [i \in DOMAIN xs |-> xs[i] - o]
<1>4. [i \in DOMAIN xs |-> ds[i] * ds[i]] = b
  BY <1>1 DEF AwaySquared
<1>5. t = [offset |-> o, seeded |-> TRUE, sum |-> Sigma(ds),
           sumSq |-> Sigma([i \in DOMAIN xs |-> ds[i] * ds[i]]), pushes |-> 0]
  BY DEF ReseedMoments
<1>6. t = [offset |-> o, seeded |-> TRUE, sum |-> Sigma(a), sumSq |-> Sigma(b), pushes |-> 0]
  BY <1>3, <1>4, <1>5
<1>7. Sigma(a) = Added(a) /\ Sigma(b) = Added(b)
  BY DEF Sigma, Added
<1>8. IsList(a, Len(xs)) /\ IsList(b, Len(xs))
  BY <1>2, MomentLists
<1> HIDE DEF o, a, b, t, ds
<1>9. Added(a) \in Int /\ Added(b) \in Int
  BY <1>1, <1>8, SumIsInt
<1>10. /\ t \in Moments /\ t.offset = o /\ t.seeded = TRUE /\ t.sum = Added(a)
       /\ t.sumSq = Added(b)
  BY <1>2, <1>6, <1>7, <1>9 DEF Moments
<1> QED BY <1>10 DEF MomentsKeep, a, b, t

\* However the moments were arrived at, they give the variance.
LEMMA MomentsGive ==
    ASSUME NEW xs \in Ints, NEW m, MomentsKeep(m, xs)
    PROVE  Variance(m, Len(xs)) = VarianceOf(xs)
<1> DEFINE n == Len(xs)
           o == m.offset
           S == Added(xs)
           Q == Added(Squared(xs))
<1>1. n \in Nat /\ o \in Int
  BY IntsFacts DEF MomentsKeep, Moments
<1>2. /\ S \in Int /\ Q \in Int
      /\ Added(Away(xs, o)) = S - n * o
      /\ Added(AwaySquared(xs, o)) = Q - 2 * (o * S) + n * (o * o)
  BY <1>1, Shift
<1>3. m.sum = S - n * o /\ m.sumSq = Q - 2 * (o * S) + n * (o * o)
  BY <1>2 DEF MomentsKeep
<1>4. VarianceOf(xs) = n * Q - S * S /\ 0 <= VarianceOf(xs) /\ VarianceOf(xs) \in Int
  BY VarianceIs
<1> HIDE DEF n, o, S, Q
<1>5. n * m.sumSq - m.sum * m.sum = VarianceOf(xs)
  <2>1. n * (Q - 2 * (o * S) + n * (o * o)) - (S - n * o) * (S - n * o) = n * Q - S * S
    BY <1>1, <1>2
  <2> QED BY <1>3, <1>4, <2>1
<1>6. Variance(m, n) = VarianceOf(xs)
  <2> DEFINE v == n * m.sumSq - m.sum * m.sum
  <2>1. Variance(m, n) = IF v < 0 THEN 0 ELSE v
    BY DEF Variance
  <2> HIDE DEF v
  <2>2. v = VarianceOf(xs)
    BY <1>5 DEF v
  <2> QED BY <1>4, <2>1, <2>2
<1> QED BY <1>6 DEF n

-----------------------------------------------------------------------------
(* StdDev. *)

StdDevKeeps(s, p, xs) ==
    /\ DOMAIN s = {"period", "window", "moments", "last"}
    /\ s.period = p /\ s.window = xs /\ Len(xs) <= p
    /\ MomentsKeep(s.moments, xs)
    /\ s.last = IF Len(xs) < p THEN None ELSE Some(VarianceOf(xs))

LEMMA StdDevStarts ==
    ASSUME NEW p \in Nat \ {0}
    PROVE  StdDevKeeps(NewStdDev(p), p, <<>>)
  BY MomentsNew DEF StdDevKeeps, NewStdDev, None

LEMMA StdDevSlides ==
    ASSUME NEW p \in Nat \ {0}, NEW xs \in Ints, NEW x \in Int, NEW s, StdDevKeeps(s, p, xs)
    PROVE  StdDevKeeps(StdDevUpdated(s, x), p, Slid(xs, p, x))
<1> DEFINE full == Len(s.window) = s.period
           kept == IF full THEN Tail(s.window) ELSE s.window
           evicted == IF full THEN Evict(s.moments, Head(s.window)) ELSE s.moments
           window == Append(kept, x)
           pushed == Push(evicted, x)
           moments == IF pushed.pushes >= s.period THEN ReseedMoments(window) ELSE pushed
           t == StdDevUpdated(s, x)
           ys == Slid(xs, p, x)
<1>1. /\ s.period = p /\ s.window = xs /\ Len(xs) <= p /\ MomentsKeep(s.moments, xs)
      /\ DOMAIN s = {"period", "window", "moments", "last"}
  BY DEF StdDevKeeps
<1>2. window = ys
  BY <1>1 DEF Slid
<1>3. /\ ys \in Ints /\ ys # <<>> /\ Len(ys) <= p
      /\ Len(ys) = IF Len(xs) = p THEN p ELSE Len(xs) + 1
  BY <1>1, SlidFacts
<1>4. kept \in Ints /\ MomentsKeep(evicted, kept)
  <2>1. CASE full
    <3>1. xs # <<>>
      BY <1>1, <2>1, IntsFacts
    <3>2. Tail(xs) \in Ints /\ MomentsKeep(Evict(s.moments, Head(xs)), Tail(xs))
      BY <1>1, <3>1, TailOfInts, EvictKeeps
    <3> QED BY <1>1, <2>1, <3>2
  <2>2. CASE ~full
    BY <1>1, <2>2
  <2> QED BY <2>1, <2>2
<1>5. MomentsKeep(moments, ys)
  <2> HIDE DEF kept, evicted
  <2>1. MomentsKeep(Push(evicted, x), Append(kept, x))
    BY <1>4, PushKeeps
  <2>2. MomentsKeep(ReseedMoments(ys), ys)
    BY <1>3, ReseedKeeps
  <2> HIDE DEF ys, window
  <2>3. MomentsKeep(pushed, ys)
    BY <1>2, <2>1 DEF window
  <2> HIDE DEF pushed
  <2> QED BY <1>2, <2>2, <2>3
<1>6. t = [s EXCEPT !.window = window, !.moments = moments,
                    !.last = IF Len(window) < s.period THEN @
                             ELSE <<Variance(moments, s.period)>>]
  BY DEF StdDevUpdated
<1> HIDE DEF window, moments, t, ys
<1>7. /\ DOMAIN t = {"period", "window", "moments", "last"}
      /\ t.period = p /\ t.window = ys /\ t.moments = moments
      /\ t.last = IF Len(ys) < p THEN s.last ELSE <<Variance(moments, p)>>
  BY <1>1, <1>2, <1>6
<1>8. t.last = IF Len(ys) < p THEN None ELSE Some(VarianceOf(ys))
  <2>1. CASE Len(ys) < p
    <3>1. Len(xs) < p
      BY <1>1, <1>3, <2>1, IntsFacts
    <3> QED BY <1>7, <2>1, <3>1 DEF StdDevKeeps
  <2>2. CASE ~(Len(ys) < p)
    <3>1. Len(ys) = p
      BY <1>3, <2>2, IntsFacts
    <3>2. Variance(moments, p) = VarianceOf(ys)
      BY <1>3, <1>5, <3>1, MomentsGive
    <3> QED BY <1>7, <2>2, <3>2 DEF Some
  <2> QED BY <2>1, <2>2
<1> QED BY <1>3, <1>5, <1>7, <1>8 DEF StdDevKeeps, t, ys

LEMMA SlidAt ==
    ASSUME NEW p \in Nat \ {0}, NEW xs \in Ints, Len(xs) <= p, NEW x \in Int
    PROVE  /\ Len(xs) = p =>
                  /\ \A i \in 1 .. p - 1 : Slid(xs, p, x)[i] = xs[i + 1]
                  /\ Slid(xs, p, x)[p] = x
           /\ Len(xs) < p =>
                  /\ \A i \in 1 .. Len(xs) : Slid(xs, p, x)[i] = xs[i]
                  /\ Slid(xs, p, x)[Len(xs) + 1] = x
<1>1. Len(xs) \in Nat /\ (xs = <<>> <=> Len(xs) = 0)
  BY IntsFacts
<1>2. ASSUME Len(xs) = p
      PROVE  (\A i \in 1 .. p - 1 : Slid(xs, p, x)[i] = xs[i + 1]) /\ Slid(xs, p, x)[p] = x
  <2> DEFINE k == Tail(xs)
  <2>1. k \in Ints /\ Len(k) = p - 1 /\ \A i \in 1 .. p - 1 : k[i] = xs[i + 1]
    BY <1>1, <1>2, TailOfInts
  <2> HIDE DEF k
  <2>2. (\A i \in 1 .. p - 1 : Append(k, x)[i] = k[i]) /\ Append(k, x)[p - 1 + 1] = x
    BY <2>1, IntsGrow
  <2>3. Slid(xs, p, x) = Append(k, x)
    BY <1>2 DEF Slid, k
  <2>4. p - 1 + 1 = p
    OBVIOUS
  <2> QED BY <2>1, <2>2, <2>3, <2>4
<1>3. ASSUME Len(xs) < p
      PROVE  (\A i \in 1 .. Len(xs) : Slid(xs, p, x)[i] = xs[i]) /\ Slid(xs, p, x)[Len(xs) + 1] = x
  <2>1. Slid(xs, p, x) = Append(xs, x)
    BY <1>1, <1>3 DEF Slid
  <2> QED BY <2>1, IntsGrow
<1> QED BY <1>2, <1>3

LEMMA SlidSum ==
    ASSUME NEW p \in Nat \ {0}, NEW xs \in Ints, Len(xs) <= p, NEW x \in Int
    PROVE  Added(Slid(xs, p, x)) = Added(xs) - (IF Len(xs) = p THEN xs[1] ELSE 0) + x
<1>0. Len(xs) \in Nat /\ (xs = <<>> <=> Len(xs) = 0) /\ IsList(xs, Len(xs))
  BY IntsFacts, MomentLists, 0 \in Int
<1>00. Added(xs) \in Int
  BY <1>0, SumIsInt
<1>1. ASSUME NEW k \in Ints PROVE Added(Append(k, x)) = Added(k) + x
  <2>1. Len(k) \in Nat /\ IsList(k, Len(k)) /\ IsList(Append(k, x), Len(k) + 1)
        /\ (\A i \in 1 .. Len(k) : Append(k, x)[i] = k[i]) /\ Append(k, x)[Len(k) + 1] = x
    <3>1. Append(k, x) \in Ints /\ Len(Append(k, x)) = Len(k) + 1
      BY IntsGrow
    <3>2. IsList(Append(k, x), Len(k) + 1)
      BY <3>1, MomentLists, 0 \in Int
    <3> QED BY <3>2, MomentLists, IntsGrow, 0 \in Int
  <2>2. Added(Append(k, x)) = Added(k) + Append(k, x)[Len(k) + 1]
    BY <2>1, SumGrows
  <2> QED BY <2>1, <2>2
<1>2. CASE Len(xs) = p
  <2> DEFINE k == Tail(xs)
  <2>1. k \in Ints /\ Len(k) = p - 1 /\ \A i \in 1 .. p - 1 : k[i] = xs[i + 1]
    BY <1>0, <1>2, TailOfInts
  <2>2. IsList(k, p - 1)
    BY <2>1, MomentLists, 0 \in Int
  <2>3. p - 1 \in Nat /\ p - 1 + 1 = p
    OBVIOUS
  <2>4. Slid(xs, p, x) = Append(k, x)
    BY <1>2 DEF Slid
  <2> HIDE DEF k
  <2>5. IsList(xs, p - 1 + 1)
    BY <1>0, <1>2, <2>3
  <2>6. Added(xs) = xs[1] + Added(k)
    BY <2>1, <2>2, <2>3, <2>5, SumOfRest
  <2>7. Added(k) \in Int /\ xs[1] \in Int
    <3>1. 1 \in 1 .. p
      OBVIOUS
    <3> QED BY <1>0, <1>2, <2>2, <2>3, <3>1, SumIsInt DEF IsList
  <2>8. Added(Append(k, x)) = Added(k) + x
    BY <1>1, <2>1
  <2> QED BY <1>2, <2>4, <2>6, <2>7, <2>8
<1>3. CASE Len(xs) # p
  <2>1. Slid(xs, p, x) = Append(xs, x)
    BY <1>3 DEF Slid
  <2>2. Added(Append(xs, x)) = Added(xs) + x
    BY <1>1
  <2> QED BY <1>00, <1>3, <2>1, <2>2
<1> QED BY <1>2, <1>3

-----------------------------------------------------------------------------
(* Wma. *)

Weights(xs) == [i \in 1 .. Len(xs) |-> i * xs[i]]

LEMMA WeightsFacts ==
    ASSUME NEW xs \in Ints
    PROVE  /\ IsList(Weights(xs), Len(xs)) /\ \A i \in 1 .. Len(xs) : Weights(xs)[i] = i * xs[i]
           /\ Weighted(xs) = Added(Weights(xs)) /\ Weighted(xs) \in Int
<1>1. Len(xs) \in Nat /\ DOMAIN xs = 1 .. Len(xs) /\ \A i \in 1 .. Len(xs) : xs[i] \in Int
  BY IntsFacts
<1>2. \A i \in 1 .. Len(xs) : i * xs[i] \in Int
  BY <1>1
<1>3. IsList(Weights(xs), Len(xs)) /\ \A i \in 1 .. Len(xs) : Weights(xs)[i] = i * xs[i]
  BY <1>2 DEF IsList, Weights
<1>4. Weighted(xs) = Added(Weights(xs))
  BY <1>1 DEF Weighted, Weights, Sigma, Added
<1> QED BY <1>1, <1>3, <1>4, SumIsInt

\* Dropping the first value takes one from each weight.
LEMMA WeightedTail ==
    ASSUME NEW xs \in Ints, xs # <<>>
    PROVE  Weighted(Tail(xs)) = Weighted(xs) - Added(xs)
<1> DEFINE N == Len(xs)
           n == N - 1
           k == Tail(xs)
           w == Weights(xs)
           r == Weights(k)
           d == [i \in 1 .. N |-> (i - 1) * xs[i]]
<1>1. /\ n \in Nat /\ N = n + 1 /\ IsList(xs, N) /\ IsList(w, N)
      /\ \A i \in 1 .. N : w[i] = i * xs[i] /\ xs[i] \in Int
  BY IntsFacts, MomentLists, WeightsFacts, 0 \in Int
<1>2. k \in Ints /\ Len(k) = n /\ \A i \in 1 .. n : k[i] = xs[i + 1]
  BY TailOfInts
<1>3. IsList(r, n) /\ \A i \in 1 .. n : r[i] = i * k[i]
  BY <1>2, WeightsFacts
<1>4. /\ DOMAIN d = 1 .. N /\ \A i \in 1 .. N : d[i] = (i - 1) * xs[i]
  OBVIOUS
<1>5. Weighted(k) = Added(r) /\ Weighted(xs) = Added(w)
  BY <1>2, WeightsFacts
<1> HIDE DEF N, n, k, w, r, d
<1>6. IsList(d, N)
  BY <1>1, <1>4 DEF IsList
<1>7. 1 \in 1 .. N /\ \A i \in 1 .. n : i + 1 \in 1 .. N /\ (i + 1) - 1 = i
  BY <1>1
<1>8. \A i \in 1 .. n : r[i] = d[i + 1]
  BY <1>2, <1>3, <1>4, <1>7
<1>9. Added(d) = d[1] + Added(r)
  BY <1>1, <1>3, <1>6, <1>8, SumOfRest
<1>10. d[1] = 0 /\ Added(r) \in Int
  <2>1. d[1] = (1 - 1) * xs[1] /\ xs[1] \in Int
    BY <1>1, <1>4, <1>7
  <2>2. Added(r) \in Int
    BY <1>1, <1>3, SumIsInt
  <2> QED BY <2>1, <2>2
<1>11. Added(d) = Added(w) - Added(xs)
  <2>0. N \in Nat
    BY <1>1
  <2>1. PICK V : /\ V[0] = 0 /\ V[N] = Added(xs)
                 /\ \A j \in 0 .. N : V[j] \in Int
                 /\ \A j \in 0 .. N - 1 : V[j + 1] = V[j] + xs[j + 1]
    BY <1>1, <2>0, PrefixSums
  <2>2. PICK W : /\ W[0] = 0 /\ W[N] = Added(w)
                 /\ \A j \in 0 .. N : W[j] \in Int
                 /\ \A j \in 0 .. N - 1 : W[j + 1] = W[j] + w[j + 1]
    BY <1>1, <2>0, PrefixSums
  <2>3. PICK D : /\ D[0] = 0 /\ D[N] = Added(d)
                 /\ \A j \in 0 .. N : D[j] \in Int
                 /\ \A j \in 0 .. N - 1 : D[j + 1] = D[j] + d[j + 1]
    BY <1>6, <2>0, PrefixSums
  <2> DEFINE P == {j \in Nat : j <= N => D[j] = W[j] - V[j]}
  <2>4. 0 \in P
    BY <2>1, <2>2, <2>3
  <2>5. \A j \in Nat : j \in P => j + 1 \in P
    <3> SUFFICES ASSUME NEW j \in Nat, j \in P, j + 1 <= N
                 PROVE  D[j + 1] = W[j + 1] - V[j + 1]
      OBVIOUS
    <3>1. j \in 0 .. N - 1 /\ j \in 0 .. N /\ j + 1 \in 1 .. N
      BY <2>0
    <3>2. /\ V[j + 1] = V[j] + xs[j + 1] /\ W[j + 1] = W[j] + w[j + 1]
          /\ D[j + 1] = D[j] + d[j + 1] /\ D[j] = W[j] - V[j]
          /\ V[j] \in Int /\ W[j] \in Int /\ D[j] \in Int
      BY <2>1, <2>2, <2>3, <3>1
    <3>3. d[j + 1] = w[j + 1] - xs[j + 1] /\ w[j + 1] \in Int /\ xs[j + 1] \in Int
      <4>1. xs[j + 1] \in Int /\ w[j + 1] = (j + 1) * xs[j + 1]
            /\ d[j + 1] = ((j + 1) - 1) * xs[j + 1]
        BY <1>1, <1>4, <3>1
      <4>2. \A a \in Int : ((j + 1) - 1) * a = (j + 1) * a - a /\ (j + 1) * a \in Int
        OBVIOUS
      <4> QED BY <4>1, <4>2
    <3> QED BY <3>2, <3>3
  <2> HIDE DEF P
  <2>6. N \in P
    BY <2>0, <2>4, <2>5, SetInduction
  <2> QED BY <2>0, <2>1, <2>2, <2>3, <2>6 DEF P
<1>12. Added(r) = Added(w) - Added(xs)
  BY <1>9, <1>10, <1>11
<1> QED BY <1>5, <1>12 DEF k

LEMMA WeightedGrows ==
    ASSUME NEW xs \in Ints, NEW x \in Int
    PROVE  Weighted(Append(xs, x)) = Weighted(xs) + (Len(xs) + 1) * x
<1> DEFINE n == Len(xs)
           ys == Append(xs, x)
           w == Weights(xs)
           r == Weights(ys)
<1>1. ys \in Ints /\ Len(ys) = n + 1 /\ (\A i \in 1 .. n : ys[i] = xs[i]) /\ ys[n + 1] = x
      /\ n \in Nat
  BY IntsGrow, IntsFacts
<1> HIDE DEF ys
<1>2. IsList(w, n) /\ (\A i \in 1 .. n : w[i] = i * xs[i]) /\ Weighted(xs) = Added(w)
  BY WeightsFacts
<1>3. /\ IsList(r, n + 1) /\ (\A i \in 1 .. n + 1 : r[i] = i * ys[i])
      /\ Weighted(ys) = Added(r)
  BY <1>1, WeightsFacts
<1> HIDE DEF n, w, r
<1>4. n + 1 \in 1 .. n + 1 /\ \A i \in 1 .. n : i \in 1 .. n + 1
  BY <1>1
<1>5. \A i \in 1 .. n : r[i] = w[i]
  BY <1>1, <1>2, <1>3, <1>4
<1>6. Added(r) = Added(w) + r[n + 1]
  BY <1>1, <1>2, <1>3, <1>5, SumGrows
<1>7. r[n + 1] = (n + 1) * x
  BY <1>1, <1>3, <1>4
<1> QED BY <1>2, <1>3, <1>6, <1>7 DEF ys, n

\* The weighted sum of a full window once the oldest value has made room for x.
LEMMA WeightedSlides ==
    ASSUME NEW p \in Nat \ {0}, NEW xs \in Ints, Len(xs) = p, NEW x \in Int
    PROVE  Weighted(Slid(xs, p, x)) = Weighted(xs) - Added(xs) + p * x
<1>1. xs # <<>>
  BY IntsFacts
<1>2. Tail(xs) \in Ints /\ Len(Tail(xs)) = p - 1 /\ p - 1 + 1 = p
  BY <1>1, TailOfInts
<1>3. Slid(xs, p, x) = Append(Tail(xs), x)
  BY DEF Slid
<1>4. Weighted(Append(Tail(xs), x)) = Weighted(Tail(xs)) + (p - 1 + 1) * x
  BY <1>2, WeightedGrows
<1>5. Weighted(Tail(xs)) = Weighted(xs) - Added(xs)
  BY <1>1, WeightedTail
<1> QED BY <1>2, <1>3, <1>4, <1>5

\* Where the i-th oldest value of a full ring is.
SlotOf(head, p, i) == IF head + i - 1 <= p THEN head + i - 1 ELSE head + i - 1 - p

Holds(buf, head, p, xs) == \A i \in 1 .. p : buf[SlotOf(head, p, i)] = xs[i]

LEMMA OldestFirstIs ==
    ASSUME NEW p \in Nat \ {0}, NEW s, s.period = p, s.buf \in [1 .. p -> Int],
           s.head \in 1 .. p, NEW xs \in Ints, Len(xs) = p, Holds(s.buf, s.head, p, xs)
    PROVE  OldestFirst(s) = xs
<1> DEFINE h == s.head
           a == SubSeq(s.buf, h, p)
           b == SubSeq(s.buf, 1, h - 1)
<1>1. \A i \in 1 .. p : s.buf[i] \in Int
  OBVIOUS
<1>2. h \in Int /\ p \in Int /\ h - 1 \in Int /\ 1 \in Int /\ 1 <= h /\ h <= p
  OBVIOUS
<1>3. (\A i \in h .. p : s.buf[i] \in Int) /\ \A i \in 1 .. h - 1 : s.buf[i] \in Int
  BY <1>1, <1>2
<1>4. /\ a \in Ints /\ Len(a) = p - h + 1
      /\ \A i \in 1 .. p - h + 1 : a[i] = s.buf[h + i - 1]
  <2> HIDE DEF h
  <2>1. /\ a \in Ints /\ Len(a) = IF h <= p THEN p - h + 1 ELSE 0
        /\ \A i \in 1 .. p - h + 1 : a[i] = s.buf[h + i - 1]
    BY <1>2, <1>3, PartOfInts
  <2> QED BY <1>2, <2>1
<1>5. b \in Ints /\ Len(b) = h - 1 /\ \A i \in 1 .. h - 1 : b[i] = s.buf[i]
  <2>1. /\ b \in Ints /\ Len(b) = (IF 1 <= h - 1 THEN (h - 1) - 1 + 1 ELSE 0)
        /\ \A i \in 1 .. (h - 1) - 1 + 1 : b[i] = s.buf[1 + i - 1]
    BY <1>2, <1>3, PartOfInts
  <2>2. (h - 1) - 1 + 1 = h - 1 /\ (~(1 <= h - 1) => h - 1 = 0)
    BY <1>2
  <2>3. \A i \in 1 .. h - 1 : b[i] = s.buf[1 + i - 1] /\ 1 + i - 1 = i
    BY <2>1, <2>2
  <2> QED BY <2>1, <2>2, <2>3
<1>6. OldestFirst(s) = a \o b
  BY DEF OldestFirst
<1> HIDE DEF a, b, h
<1>7. /\ a \o b \in Ints /\ Len(a \o b) = p
      /\ \A i \in 1 .. p : (a \o b)[i] = IF i <= p - h + 1 THEN a[i] ELSE b[i - (p - h + 1)]
  <2>1. /\ a \o b \in Seq(Int) /\ Len(a \o b) = Len(a) + Len(b)
        /\ \A i \in 1 .. Len(a) + Len(b) :
               (a \o b)[i] = IF i <= Len(a) THEN a[i] ELSE b[i - Len(a)]
    BY <1>4, <1>5, ConcatProperties DEF Ints
  <2>2. Len(a) + Len(b) = p
    BY <1>2, <1>4, <1>5
  <2> QED BY <1>4, <2>1, <2>2 DEF Ints
<1>8. \A i \in 1 .. p : (a \o b)[i] = xs[i]
  <2> SUFFICES ASSUME NEW i \in 1 .. p PROVE (a \o b)[i] = xs[i]
    OBVIOUS
  <2>1. s.buf[SlotOf(h, p, i)] = xs[i]
    BY DEF Holds, h
  <2>2. CASE i <= p - h + 1
    <3>1. i \in 1 .. p - h + 1 /\ SlotOf(h, p, i) = h + i - 1
      BY <1>2, <2>2 DEF SlotOf
    <3> QED BY <1>4, <1>7, <2>1, <2>2, <3>1
  <2>3. CASE ~(i <= p - h + 1)
    <3>1. i - (p - h + 1) \in 1 .. h - 1 /\ SlotOf(h, p, i) = i - (p - h + 1)
      BY <1>2, <2>3 DEF SlotOf
    <3> QED BY <1>5, <1>7, <2>1, <2>3, <3>1
  <2> QED BY <2>2, <2>3
<1>9. a \o b = xs
  BY <1>7, <1>8, SeqEqual DEF Ints
<1> QED BY <1>6, <1>9

WmaShape(s, p) ==
    /\ DOMAIN s = WmaFields
    /\ s.period = p /\ s.buf \in [1 .. p -> Int]

WmaKeeps(s, p, xs) ==
    /\ WmaShape(s, p)
    /\ s.head \in 1 .. p /\ s.count = Len(xs) /\ Len(xs) <= p
    /\ s.valueSum = Added(xs)
    /\ Len(xs) < p => s.head = Len(xs) + 1 /\ \A i \in 1 .. Len(xs) : s.buf[i] = xs[i]
    /\ Len(xs) = p => Holds(s.buf, s.head, p, xs) /\ s.weightSum = Weighted(xs)

LEMMA NoneIsInts == <<>> \in Ints /\ Len(<<>>) = 0 /\ Added(<<>>) = 0
<1>1. <<>> \in Ints /\ Len(<<>>) = 0
  BY DEF Ints
<1>2. DOMAIN (<<>>) = {}
  OBVIOUS
<1> QED BY <1>1, <1>2, AddedOfNone

LEMMA WmaStarts ==
    ASSUME NEW p \in Nat \ {0}
    PROVE  WmaKeeps(NewWma(p), p, <<>>)
<1> DEFINE s == NewWma(p)
<1>1. /\ DOMAIN s = WmaFields /\ s.period = p /\ s.buf = [i \in 1 .. p |-> 0]
      /\ s.head = 1 /\ s.count = 0 /\ s.valueSum = 0
  BY DEF NewWma, WmaFields
<1>2. s.buf \in [1 .. p -> Int]
  BY <1>1
<1> HIDE DEF s
<1>3. 1 \in 1 .. p /\ 0 <= p /\ 0 # p /\ 1 = 0 + 1 /\ 1 .. 0 = {}
  OBVIOUS
<1> QED BY <1>1, <1>2, <1>3, NoneIsInts DEF WmaKeeps, WmaShape, s

LEMMA WmaRestarts ==
    ASSUME NEW p \in Nat \ {0}, NEW s, WmaShape(s, p)
    PROVE  WmaKeeps(WmaCleared(s), p, <<>>)
<1> DEFINE t == WmaCleared(s)
<1>1. /\ DOMAIN t = WmaFields /\ t.period = p /\ t.buf = s.buf
      /\ t.head = 1 /\ t.count = 0 /\ t.valueSum = 0
  BY DEF WmaCleared, WmaFields, WmaShape
<1>2. s.buf \in [1 .. p -> Int]
  BY DEF WmaShape
<1> HIDE DEF t
<1>3. 1 \in 1 .. p /\ 0 <= p /\ 0 # p /\ 1 = 0 + 1 /\ 1 .. 0 = {}
  OBVIOUS
<1> QED BY <1>1, <1>2, <1>3, NoneIsInts DEF WmaKeeps, WmaShape, t

\* A ring once a value has taken the slot of the oldest.
NextHead(s) == IF s.head = s.period THEN 1 ELSE s.head + 1
Overwritten(s, x) == [s.buf EXCEPT ![s.head] = x]
Moved(s, x) == [s EXCEPT !.buf = Overwritten(s, x), !.head = NextHead(s)]
Reseeds(s) == s.head = s.period /\ s.laps + 1 = ReseedEvery

\* The fields of a ring after one more value.
LEMMA WmaFieldsAfter ==
    ASSUME NEW p \in Nat \ {0}, NEW s, WmaShape(s, p), s.head \in 1 .. p, NEW x \in Int
    PROVE  LET t == WmaUpdated(s, x)
           IN  /\ WmaShape(t, p) /\ t.head = NextHead(s) /\ t.buf = Overwritten(s, x)
               /\ WmaShape(Moved(s, x), p) /\ Moved(s, x).head = NextHead(s)
               /\ Moved(s, x).buf = Overwritten(s, x) /\ NextHead(s) \in 1 .. p
               /\ s.count < p =>
                      /\ t.count = s.count + 1 /\ t.valueSum = s.valueSum + x
                      /\ s.count + 1 = p => t.weightSum = Weighted(OldestFirst(Moved(s, x)))
               /\ ~(s.count < p) =>
                      /\ t.count = s.count
                      /\ t.valueSum = IF Reseeds(s) THEN Sigma(Overwritten(s, x))
                                      ELSE s.valueSum - s.buf[s.head] + x
                      /\ t.weightSum = IF Reseeds(s) THEN Weighted(OldestFirst(Moved(s, x)))
                                       ELSE s.weightSum - s.valueSum + p * x
<1> DEFINE t == WmaUpdated(s, x)
           head == NextHead(s)
           buf == Overwritten(s, x)
           moved == Moved(s, x)
           wraps == s.head = p
           reseeds == Reseeds(s)
<1>1. DOMAIN s = WmaFields /\ s.period = p /\ s.buf \in [1 .. p -> Int]
  BY DEF WmaShape
<1>2. head \in 1 .. p
  BY <1>1 DEF NextHead
<1>3. buf \in [1 .. p -> Int]
  BY <1>1 DEF Overwritten
<1>4. moved = [s EXCEPT !.buf[s.head] = x, !.head = IF s.head = s.period THEN 1 ELSE @ + 1]
  BY <1>1 DEF WmaFields, Moved, Overwritten, NextHead
<1>4a. moved = [s EXCEPT !.buf = buf, !.head = head]
  BY DEF Moved
<1> HIDE DEF buf, head
<1>5. /\ DOMAIN moved = WmaFields /\ moved.period = p /\ moved.buf = buf
      /\ moved.head = head /\ moved.count = s.count /\ moved.valueSum = s.valueSum
      /\ moved.weightSum = s.weightSum /\ moved.laps = s.laps
  <2> HIDE DEF moved
  <2> QED BY <1>1, <1>4a DEF WmaFields
<1> HIDE DEF moved
<1>6. CASE s.count < p
  <2>1. t = [moved EXCEPT
                !.valueSum = @ + x,
                !.count = @ + 1,
                !.weightSum = IF s.count + 1 = s.period THEN Weighted(OldestFirst(moved))
                              ELSE @]
    BY <1>1, <1>4, <1>6 DEF WmaUpdated
  <2> HIDE DEF t
  <2> DEFINE w == Weighted(OldestFirst(moved))
  <2>2. t = [moved EXCEPT !.valueSum = @ + x, !.count = @ + 1,
                          !.weightSum = IF s.count + 1 = s.period THEN w ELSE @]
    BY <2>1
  <2> HIDE DEF w
  <2>3. /\ DOMAIN t = WmaFields /\ t.period = p /\ t.buf = buf /\ t.head = head
        /\ t.count = s.count + 1 /\ t.valueSum = s.valueSum + x
        /\ s.count + 1 = p => t.weightSum = w
    BY <1>1, <1>5, <2>2 DEF WmaFields
  <2> QED BY <1>2, <1>3, <1>5, <1>6, <2>3 DEF t, head, buf, moved, w, WmaShape
<1>7. CASE ~(s.count < p)
  <2> DEFINE sums == SlideSums(s, x)
             w == Weighted(OldestFirst(moved))
             v == Sigma(moved.buf)
  <2>1. t = [moved EXCEPT
                !.valueSum = IF reseeds THEN Sigma(moved.buf) ELSE sums.values,
                !.weightSum = IF reseeds THEN Weighted(OldestFirst(moved)) ELSE sums.weights,
                !.laps = IF reseeds THEN 0 ELSE IF wraps THEN @ + 1 ELSE @]
    BY <1>1, <1>4, <1>7 DEF WmaUpdated, Reseeds
  <2>2. /\ sums.values = s.valueSum - s.buf[s.head] + x
        /\ sums.weights = s.weightSum - s.valueSum + p * x
    BY <1>1 DEF SlideSums
  <2> HIDE DEF t, sums
  <2>3. t = [moved EXCEPT !.valueSum = IF reseeds THEN v ELSE sums.values,
                          !.weightSum = IF reseeds THEN w ELSE sums.weights,
                          !.laps = IF reseeds THEN 0 ELSE IF wraps THEN @ + 1 ELSE @]
    BY <2>1
  <2> HIDE DEF w, v, reseeds, wraps
  <2>4. /\ DOMAIN t = WmaFields /\ t.period = p /\ t.buf = buf /\ t.head = head
        /\ t.count = s.count
        /\ t.valueSum = IF reseeds THEN v ELSE sums.values
        /\ t.weightSum = IF reseeds THEN w ELSE sums.weights
    BY <1>5, <2>3 DEF WmaFields
  <2>5. v = Sigma(buf)
    BY <1>5 DEF v
  <2> QED BY <1>2, <1>3, <1>5, <1>7, <2>2, <2>4, <2>5
          DEF t, head, buf, moved, w, reseeds, wraps, WmaShape
<1> QED BY <1>6, <1>7

LEMMA WmaSlides ==
    ASSUME NEW p \in Nat \ {0}, NEW xs \in Ints, NEW x \in Int, NEW s, WmaKeeps(s, p, xs)
    PROVE  WmaKeeps(WmaUpdated(s, x), p, Slid(xs, p, x))
<1> DEFINE t == WmaUpdated(s, x)
           h == s.head
           head == NextHead(s)
           buf == Overwritten(s, x)
           moved == Moved(s, x)
           reseeds == Reseeds(s)
           ys == Slid(xs, p, x)
           n == Len(xs)
<1>1. /\ WmaShape(s, p) /\ h \in 1 .. p /\ s.count = n /\ n <= p /\ s.valueSum = Added(xs)
      /\ n < p => h = n + 1 /\ \A i \in 1 .. n : s.buf[i] = xs[i]
      /\ n = p => Holds(s.buf, h, p, xs) /\ s.weightSum = Weighted(xs)
  BY DEF WmaKeeps
<1>2. n \in Nat /\ s.buf \in [1 .. p -> Int] /\ IsList(xs, n)
  <2>1. s.buf \in [1 .. p -> Int]
    BY <1>1 DEF WmaShape
  <2> QED BY <2>1, IntsFacts, MomentLists, 0 \in Int
<1>3. /\ WmaShape(t, p) /\ t.head = head /\ t.buf = buf /\ head \in 1 .. p
      /\ WmaShape(moved, p) /\ moved.head = head /\ moved.buf = buf
      /\ s.count < p =>
             /\ t.count = s.count + 1 /\ t.valueSum = s.valueSum + x
             /\ s.count + 1 = p => t.weightSum = Weighted(OldestFirst(moved))
      /\ ~(s.count < p) =>
             /\ t.count = s.count
             /\ t.valueSum = IF reseeds THEN Sigma(buf)
                             ELSE s.valueSum - s.buf[s.head] + x
             /\ t.weightSum = IF reseeds THEN Weighted(OldestFirst(moved))
                              ELSE s.weightSum - s.valueSum + p * x
  BY <1>1, WmaFieldsAfter
<1>4. /\ ys \in Ints /\ Len(ys) <= p /\ Len(ys) = IF n = p THEN p ELSE n + 1
  BY <1>1, SlidFacts
<1>5. /\ n = p => (\A i \in 1 .. p - 1 : ys[i] = xs[i + 1]) /\ ys[p] = x
      /\ n < p => (\A i \in 1 .. n : ys[i] = xs[i]) /\ ys[n + 1] = x
  BY <1>1, SlidAt
<1>6. Added(ys) = Added(xs) - (IF n = p THEN xs[1] ELSE 0) + x
  BY <1>1, SlidSum
<1>7. Added(xs) \in Int
  BY <1>2, SumIsInt
<1>8. \A i \in 1 .. p : buf[i] = IF i = h THEN x ELSE s.buf[i]
  BY <1>2 DEF Overwritten
<1>9. buf \in [1 .. p -> Int]
  BY <1>2 DEF Overwritten
<1>9a. /\ head = IF h = p THEN 1 ELSE h + 1
       /\ reseeds => h = p
  BY <1>1 DEF NextHead, Reseeds, WmaShape
<1> HIDE DEF t, h, head, buf, moved, reseeds, ys, n
<1>10. CASE n < p
  <2>1. h = n + 1 /\ head = IF n + 1 = p THEN 1 ELSE n + 1 + 1
    BY <1>1, <1>9a, <1>10
  <2>2. \A i \in 1 .. n + 1 : buf[i] = ys[i]
    <3> SUFFICES ASSUME NEW i \in 1 .. n + 1 PROVE buf[i] = ys[i]
      OBVIOUS
    <3>1. CASE i = n + 1
      <4>1. i \in 1 .. p
        BY <1>2, <1>10
      <4> QED BY <1>5, <1>8, <1>10, <2>1, <3>1, <4>1
    <3>2. CASE i # n + 1
      <4>1. i \in 1 .. p /\ i \in 1 .. n
        BY <1>2, <1>10, <3>2
      <4> QED BY <1>1, <1>5, <1>8, <1>10, <2>1, <3>2, <4>1
    <3> QED BY <3>1, <3>2
  <2>3. Len(ys) = n + 1 /\ s.count < p
    BY <1>1, <1>2, <1>4, <1>10
  <2>4. t.count = n + 1 /\ t.valueSum = Added(ys)
    BY <1>1, <1>2, <1>3, <1>6, <1>7, <1>10, <2>3
  <2>5. CASE n + 1 < p
    <3>1. head = n + 1 + 1
      BY <1>2, <2>1, <2>5
    <3> QED BY <1>3, <1>4, <2>2, <2>3, <2>4, <2>5, <3>1 DEF WmaKeeps, t, ys
  <2>6. CASE n + 1 = p
    <3>1. head = 1
      BY <2>1, <2>6
    <3>2. Holds(buf, head, p, ys)
      <4> SUFFICES ASSUME NEW i \in 1 .. p PROVE buf[SlotOf(head, p, i)] = ys[i]
        BY DEF Holds
      <4>1. SlotOf(head, p, i) = i
        BY <3>1 DEF SlotOf
      <4> QED BY <2>2, <2>6, <4>1
    <3>3. OldestFirst(moved) = ys
      <4>1. moved.period = p
        BY <1>3 DEF WmaShape
      <4>2. Len(ys) = p
        BY <2>3, <2>6
      <4> QED BY <1>3, <1>4, <1>9, <3>2, <4>1, <4>2, OldestFirstIs
    <3>4. t.weightSum = Weighted(ys)
      BY <1>1, <1>3, <2>3, <2>6, <3>3
    <3> QED BY <1>3, <1>4, <2>3, <2>4, <2>6, <3>2, <3>4 DEF WmaKeeps, t, ys
  <2> QED BY <1>2, <1>10, <2>5, <2>6
<1>11. CASE ~(n < p)
  <2>1. n = p /\ Len(ys) = p /\ ~(s.count < p)
    BY <1>1, <1>2, <1>4, <1>11
  <2>2. Holds(s.buf, h, p, xs) /\ s.weightSum = Weighted(xs)
    BY <1>1, <2>1
  <2>3. Holds(buf, head, p, ys)
    <3> SUFFICES ASSUME NEW i \in 1 .. p PROVE buf[SlotOf(head, p, i)] = ys[i]
      BY DEF Holds
    <3>1. CASE i = p
      <4>1. SlotOf(head, p, i) = h
        BY <1>1, <1>9a, <3>1 DEF SlotOf
      <4> QED BY <1>1, <1>5, <1>8, <2>1, <3>1, <4>1
    <3>2. CASE i # p
      <4>1. i \in 1 .. p - 1 /\ i + 1 \in 1 .. p
        BY <3>2
      <4>2. SlotOf(head, p, i) = SlotOf(h, p, i + 1)
        BY <1>1, <1>9a, <4>1 DEF SlotOf
      <4>3. SlotOf(h, p, i + 1) \in 1 .. p /\ SlotOf(h, p, i + 1) # h
        BY <1>1, <4>1 DEF SlotOf
      <4>4. s.buf[SlotOf(h, p, i + 1)] = xs[i + 1]
        BY <2>2, <4>1 DEF Holds
      <4> QED BY <1>5, <1>8, <2>1, <4>1, <4>2, <4>3, <4>4
    <3> QED BY <3>1, <3>2
  <2>4. OldestFirst(moved) = ys
    <3>1. moved.period = p
      BY <1>3 DEF WmaShape
    <3> QED BY <1>3, <1>4, <1>9, <2>1, <2>3, <3>1, OldestFirstIs
  <2>5. s.buf[h] = xs[1]
    <3>1. 1 \in 1 .. p /\ SlotOf(h, p, 1) = h
      BY <1>1 DEF SlotOf
    <3> QED BY <2>2, <3>1 DEF Holds
  <2>6. Weighted(ys) = Weighted(xs) - Added(xs) + p * x
    BY <2>1, WeightedSlides DEF ys, n
  <2>7. ASSUME reseeds PROVE Sigma(buf) = Added(ys)
    <3>1. head = 1
      BY <1>9a, <2>7
    <3>2. \A i \in 1 .. p : buf[i] = ys[i]
      <4> SUFFICES ASSUME NEW i \in 1 .. p PROVE buf[i] = ys[i]
        OBVIOUS
      <4>1. SlotOf(head, p, i) = i
        BY <3>1 DEF SlotOf
      <4> QED BY <2>3, <4>1 DEF Holds
    <3>3. IsList(buf, p) /\ IsList(ys, p)
      BY <1>4, <1>9, <2>1, MomentLists, 0 \in Int DEF IsList
    <3>4. Added(buf) = Added(ys)
      BY <3>2, <3>3, SumSame
    <3> QED BY <3>4 DEF Sigma, Added
  <2>8. t.valueSum = Added(ys)
    <3>1. CASE reseeds
      BY <1>3, <2>1, <2>7, <3>1
    <3>2. CASE ~reseeds
      <4>1. t.valueSum = s.valueSum - s.buf[h] + x
        BY <1>3, <2>1, <3>2 DEF h
      <4> QED BY <1>1, <1>6, <2>1, <2>5, <4>1
    <3> QED BY <3>1, <3>2
  <2>9. t.weightSum = Weighted(ys)
    <3>1. CASE reseeds
      BY <1>3, <2>1, <2>4, <3>1
    <3>2. CASE ~reseeds
      <4>1. t.weightSum = s.weightSum - s.valueSum + p * x
        BY <1>3, <2>1, <3>2
      <4> QED BY <1>1, <2>2, <2>6, <4>1
    <3> QED BY <3>1, <3>2
  <2>10. t.count = p
    BY <1>1, <1>3, <2>1
  <2> QED BY <1>3, <1>4, <2>1, <2>3, <2>8, <2>9, <2>10 DEF WmaKeeps, t, ys
<1> QED BY <1>10, <1>11

-----------------------------------------------------------------------------
(* How many of the first values of a list are below a limit. *)

Count(q, k, v) == Cardinality({i \in 1 .. k : q[i] < v})

LEMMA CountOfNone == ASSUME NEW q, NEW v PROVE Count(q, 0, v) = 0
<1>1. {i \in 1 .. 0 : q[i] < v} = {}
  OBVIOUS
<1> QED BY <1>1, FS_EmptySet DEF Count

LEMMA CountStep ==
    ASSUME NEW k \in Nat, NEW q, NEW v
    PROVE  /\ Count(q, k, v) \in 0 .. k
           /\ Count(q, k + 1, v) = IF q[k + 1] < v THEN Count(q, k, v) + 1 ELSE Count(q, k, v)
<1> DEFINE S == {i \in 1 .. k : q[i] < v}
           T == {i \in 1 .. k + 1 : q[i] < v}
<1>1. IsFiniteSet(1 .. k) /\ Cardinality(1 .. k) = k
  BY FS_Interval
<1>2. IsFiniteSet(S) /\ Cardinality(S) <= k /\ Cardinality(S) \in Nat
  BY <1>1, FS_Subset, FS_CardinalityType
<1>3. k + 1 \notin S
  OBVIOUS
<1>4. T = IF q[k + 1] < v THEN S \cup {k + 1} ELSE S
  <2>1. \A i : i \in 1 .. k + 1 <=> i \in 1 .. k \/ i = k + 1
    OBVIOUS
  <2> QED BY <2>1
<1> HIDE DEF S, T
<1>5. Cardinality(S \cup {k + 1}) = Cardinality(S) + 1
  BY <1>2, <1>3, FS_AddElement
<1> QED BY <1>2, <1>4, <1>5 DEF Count, S, T

LEMMA CountGrows ==
    ASSUME NEW k \in Nat, NEW q, \A i \in 1 .. k : q[i] \in Int,
           NEW v \in Int, NEW w \in Int, v <= w
    PROVE  /\ Count(q, k, v) <= Count(q, k, w)
           /\ \A j \in 1 .. k : v <= q[j] /\ q[j] < w => Count(q, k, v) < Count(q, k, w)
<1> DEFINE S == {i \in 1 .. k : q[i] < v}
           T == {i \in 1 .. k : q[i] < w}
<1>1. IsFiniteSet(1 .. k)
  BY FS_Interval
<1>2. S \in SUBSET T /\ T \in SUBSET (1 .. k)
  <2>1. \A i \in 1 .. k : q[i] < v => q[i] < w
    OBVIOUS
  <2> QED BY <2>1
<1>3. ASSUME NEW j \in 1 .. k, v <= q[j], q[j] < w PROVE S # T
  <2>1. j \in T /\ ~(q[j] < v)
    BY <1>3
  <2> QED BY <2>1
<1> HIDE DEF S, T
<1>4. /\ IsFiniteSet(T) /\ IsFiniteSet(S) /\ Cardinality(S) <= Cardinality(T)
      /\ Cardinality(T) = Cardinality(S) => T = S
  BY <1>1, <1>2, FS_Subset
<1>5. Cardinality(S) \in Nat /\ Cardinality(T) \in Nat
  BY <1>4, FS_CardinalityType
<1>6. S # T => Cardinality(S) < Cardinality(T)
  BY <1>4, <1>5
<1> QED BY <1>3, <1>4, <1>6 DEF Count, S, T

LEMMA CountSame ==
    ASSUME NEW k \in Nat, NEW q, NEW r, \A i \in 1 .. k : q[i] = r[i], NEW v
    PROVE  Count(q, k, v) = Count(r, k, v)
<1>1. {i \in 1 .. k : q[i] < v} = {i \in 1 .. k : r[i] < v}
  OBVIOUS
<1> QED BY <1>1 DEF Count

\* The first value taken away.
LEMMA CountOfRest ==
    ASSUME NEW n \in Nat, NEW q, NEW r, \A i \in 1 .. n : r[i] = q[i + 1], NEW v
    PROVE  Count(q, n + 1, v) = Count(r, n, v) + (IF q[1] < v THEN 1 ELSE 0)
<1> DEFINE c == IF q[1] < v THEN 1 ELSE 0
           P == {k \in Nat : k <= n => Count(q, k + 1, v) = Count(r, k, v) + c}
<1>1. 0 \in P
  <2>1. Count(q, 0 + 1, v) = IF q[0 + 1] < v THEN Count(q, 0, v) + 1 ELSE Count(q, 0, v)
    BY CountStep, 0 \in Nat
  <2> QED BY <2>1, CountOfNone
<1>2. \A k \in Nat : k \in P => k + 1 \in P
  <2> SUFFICES ASSUME NEW k \in Nat, k \in P, k + 1 <= n
               PROVE  Count(q, (k + 1) + 1, v) = Count(r, k + 1, v) + c
    OBVIOUS
  <2>1. Count(q, k + 1, v) = Count(r, k, v) + c
    OBVIOUS
  <2> HIDE DEF P
  <2>2. Count(q, (k + 1) + 1, v) = IF q[(k + 1) + 1] < v THEN Count(q, k + 1, v) + 1
                                   ELSE Count(q, k + 1, v)
    BY CountStep, k + 1 \in Nat
  <2>3. /\ Count(r, k + 1, v) = IF r[k + 1] < v THEN Count(r, k, v) + 1 ELSE Count(r, k, v)
        /\ Count(r, k, v) \in 0 .. k
    BY CountStep
  <2>4. r[k + 1] = q[(k + 1) + 1]
    BY k + 1 \in 1 .. n
  <2> QED BY <2>1, <2>2, <2>3, <2>4
<1> HIDE DEF P
<1>3. n \in P
  BY <1>1, <1>2, SetInduction
<1> QED BY <1>3 DEF P

\* One value put in at place p.
LEMMA CountOfMore ==
    ASSUME NEW n \in Nat, NEW p \in 1 .. n + 1, NEW q, NEW r,
           \A i \in 1 .. p - 1 : r[i] = q[i], \A i \in p .. n : r[i + 1] = q[i], NEW v
    PROVE  Count(r, n + 1, v) = Count(q, n, v) + (IF r[p] < v THEN 1 ELSE 0)
<1> DEFINE c == IF r[p] < v THEN 1 ELSE 0
           P == {k \in Nat : k <= n - p + 1 =>
                                Count(r, p + k, v) = Count(q, p + k - 1, v) + c}
<1>1. 0 \in P
  <2>1. p - 1 \in Nat /\ (p - 1) + 1 = p + 0 /\ p + 0 - 1 = p - 1 /\ p + 0 = p
    OBVIOUS
  <2>2. /\ Count(r, (p - 1) + 1, v) = IF r[(p - 1) + 1] < v THEN Count(r, p - 1, v) + 1
                                      ELSE Count(r, p - 1, v)
        /\ Count(r, p - 1, v) \in 0 .. p - 1
    BY <2>1, CountStep
  <2>3. Count(r, p - 1, v) = Count(q, p - 1, v)
    BY <2>1, CountSame
  <2>4. Count(r, p + 0, v) = Count(q, p + 0 - 1, v) + c
    BY <2>1, <2>2, <2>3
  <2> QED BY <2>4
<1>2. \A k \in Nat : k \in P => k + 1 \in P
  <2> SUFFICES ASSUME NEW k \in Nat, k \in P, k + 1 <= n - p + 1
               PROVE  Count(r, p + (k + 1), v) = Count(q, p + (k + 1) - 1, v) + c
    OBVIOUS
  <2>1. Count(r, p + k, v) = Count(q, p + k - 1, v) + c
    OBVIOUS
  <2> HIDE DEF P
  <2>2. /\ p + k \in Nat /\ p + (k + 1) = (p + k) + 1 /\ p + k - 1 \in Nat
        /\ p + (k + 1) - 1 = (p + k - 1) + 1 /\ p + k \in p .. n /\ (p + k - 1) + 1 = p + k
    OBVIOUS
  <2>3. Count(r, (p + k) + 1, v) = IF r[(p + k) + 1] < v THEN Count(r, p + k, v) + 1
                                   ELSE Count(r, p + k, v)
    BY <2>2, CountStep
  <2>4. /\ Count(q, (p + k - 1) + 1, v) = IF q[(p + k - 1) + 1] < v
                                          THEN Count(q, p + k - 1, v) + 1
                                          ELSE Count(q, p + k - 1, v)
        /\ Count(q, p + k - 1, v) \in 0 .. p + k - 1
    BY <2>2, CountStep
  <2>5. r[(p + k) + 1] = q[(p + k - 1) + 1]
    BY <2>2
  <2> QED BY <2>1, <2>2, <2>3, <2>4, <2>5
<1> HIDE DEF P
<1>3. n - p + 1 \in P
  BY <1>1, <1>2, SetInduction, n - p + 1 \in Nat
<1>4. p + (n - p + 1) = n + 1 /\ p + (n - p + 1) - 1 = n
  OBVIOUS
<1> QED BY <1>3, <1>4 DEF P

LEMMA BelowIs ==
    ASSUME NEW xs \in Ints, NEW v
    PROVE  Below(xs, v) = Count(xs, Len(xs), v) /\ Below(xs, v) \in 0 .. Len(xs)
<1>1. DOMAIN xs = 1 .. Len(xs) /\ Len(xs) \in Nat
  BY IntsFacts
<1>2. Below(xs, v) = Count(xs, Len(xs), v)
  BY <1>1 DEF Below, Count
<1> QED BY <1>1, <1>2, CountStep

LEMMA BelowGrows ==
    ASSUME NEW xs \in Ints, NEW v \in Int, NEW w \in Int, v <= w
    PROVE  /\ Below(xs, v) <= Below(xs, w)
           /\ \A j \in 1 .. Len(xs) : v <= xs[j] /\ xs[j] < w => Below(xs, v) < Below(xs, w)
<1>1. Len(xs) \in Nat /\ \A i \in 1 .. Len(xs) : xs[i] \in Int
  BY IntsFacts
<1>2. /\ Count(xs, Len(xs), v) <= Count(xs, Len(xs), w)
      /\ \A j \in 1 .. Len(xs) : v <= xs[j] /\ xs[j] < w
                                 => Count(xs, Len(xs), v) < Count(xs, Len(xs), w)
  BY <1>1, CountGrows
<1> QED BY <1>2, BelowIs

LEMMA BelowAppend ==
    ASSUME NEW xs \in Ints, NEW x \in Int, NEW v \in Int
    PROVE  Below(Append(xs, x), v) = Below(xs, v) + (IF x < v THEN 1 ELSE 0)
<1> DEFINE ys == Append(xs, x)
           n == Len(xs)
<1>1. /\ n \in Nat /\ ys \in Ints /\ Len(ys) = n + 1 /\ ys[n + 1] = x
      /\ \A i \in 1 .. n : ys[i] = xs[i]
  BY IntsFacts, IntsGrow
<1> HIDE DEF ys
<1>2. /\ Below(xs, v) = Count(xs, n, v) /\ Below(xs, v) \in 0 .. n
      /\ Below(ys, v) = Count(ys, n + 1, v)
  BY <1>1, BelowIs
<1> HIDE DEF n
<1>3. Count(ys, n + 1, v) = IF x < v THEN Count(ys, n, v) + 1 ELSE Count(ys, n, v)
  BY <1>1, CountStep
<1>4. Count(ys, n, v) = Count(xs, n, v)
  BY <1>1, CountSame
<1> QED BY <1>1, <1>2, <1>3, <1>4 DEF ys

LEMMA BelowTail ==
    ASSUME NEW xs \in Ints, xs # <<>>, NEW v \in Int
    PROVE  Below(xs, v) = Below(Tail(xs), v) + (IF Head(xs) < v THEN 1 ELSE 0)
<1> DEFINE ys == Tail(xs)
           n == Len(xs) - 1
<1>1. /\ n \in Nat /\ Len(xs) = n + 1 /\ ys \in Ints /\ Len(ys) = n /\ Head(xs) = xs[1]
      /\ \A i \in 1 .. n : ys[i] = xs[i + 1]
  BY IntsFacts, TailOfInts
<1> HIDE DEF ys
<1>2. /\ Below(xs, v) = Count(xs, n + 1, v) /\ Below(ys, v) = Count(ys, n, v)
  BY <1>1, BelowIs
<1> HIDE DEF n
<1>3. Count(xs, n + 1, v) = Count(ys, n, v) + (IF xs[1] < v THEN 1 ELSE 0)
  BY <1>1, CountOfRest
<1> QED BY <1>1, <1>2, <1>3 DEF ys

-----------------------------------------------------------------------------
(* t holds the values of xs, the smallest first. *)

Ranks(t, xs) ==
    /\ t \in Ints /\ Len(t) = Len(xs)
    /\ \A v \in Int : \A i \in 1 .. Len(t) : t[i] < v <=> i <= Below(xs, v)

LEMMA RanksCount ==
    ASSUME NEW xs \in Ints, NEW t, Ranks(t, xs), NEW v \in Int
    PROVE  Below(t, v) = Below(xs, v)
<1> DEFINE b == Below(xs, v)
<1>1. t \in Ints /\ b \in 0 .. Len(t) /\ Len(t) \in Nat /\ DOMAIN t = 1 .. Len(t)
  BY BelowIs, IntsFacts DEF Ranks
<1>2. \A i \in 1 .. Len(t) : t[i] < v <=> i <= b
  BY DEF Ranks
<1> HIDE DEF b
<1>3. {i \in 1 .. Len(t) : t[i] < v} = 1 .. b
  BY <1>1, <1>2
<1>4. Cardinality(1 .. b) = b
  BY <1>1, FS_Interval
<1> QED BY <1>1, <1>3, <1>4 DEF Below, b

LEMMA RanksOrdered ==
    ASSUME NEW xs \in Ints, NEW t, Ranks(t, xs), NEW k \in 1 .. Len(t)
    PROVE  /\ Below(xs, t[k]) < k /\ k <= Below(xs, t[k] + 1)
           /\ \E j \in 1 .. Len(xs) : xs[j] = t[k]
<1> DEFINE x == t[k]
           n == Len(xs)
<1>1. x \in Int /\ x + 1 \in Int /\ n \in Nat /\ Len(t) = n
  BY IntsFacts DEF Ranks
<1>1a. /\ x < x <=> k <= Below(xs, x)
       /\ x < x + 1 <=> k <= Below(xs, x + 1)
  BY <1>1 DEF Ranks
<1>2. /\ Below(xs, x) \in 0 .. n /\ Below(xs, x + 1) \in 0 .. n
  BY BelowIs
<1> HIDE DEF x
<1>3. Below(xs, x) < k /\ k <= Below(xs, x + 1)
  BY <1>1, <1>1a, <1>2
<1>4. \E j \in 1 .. n : xs[j] = x
  <2> SUFFICES ASSUME ~\E j \in 1 .. n : xs[j] = x PROVE FALSE
    OBVIOUS
  <2>1. \A j \in 1 .. n : xs[j] \in Int /\ (xs[j] < x <=> xs[j] < x + 1)
    BY <1>1, IntsFacts
  <2>2. {j \in 1 .. n : xs[j] < x} = {j \in 1 .. n : xs[j] < x + 1}
    BY <2>1
  <2>3. Below(xs, x) = Below(xs, x + 1)
    BY <2>2, BelowIs DEF Count
  <2> QED BY <1>2, <1>3, <2>3
<1> QED BY <1>3, <1>4 DEF x

LEMMA SortedIs ==
    ASSUME NEW xs \in Ints, NEW t, Ranks(t, xs)
    PROVE  Sorted(xs) = t
<1> DEFINE n == Len(xs)
           Fits(k, x) == Below(xs, x) < k /\ k <= Below(xs, x + 1)
<1>1. /\ n \in Nat /\ DOMAIN xs = 1 .. n /\ DOMAIN t = 1 .. n /\ Len(t) = n /\ t \in Ints
      /\ \A i \in 1 .. n : t[i] \in Int /\ xs[i] \in Int
  BY IntsFacts DEF Ranks
<1>2. \A k \in 1 .. n : Fits(k, t[k]) /\ t[k] \in Range(xs)
  <2> SUFFICES ASSUME NEW k \in 1 .. n PROVE Fits(k, t[k]) /\ t[k] \in Range(xs)
    OBVIOUS
  <2>1. /\ Below(xs, t[k]) < k /\ k <= Below(xs, t[k] + 1)
        /\ \E j \in 1 .. n : xs[j] = t[k]
    BY <1>1, RanksOrdered
  <2> QED BY <1>1, <2>1 DEF Range
<1>3. ASSUME NEW k \in 1 .. n, NEW x \in Range(xs), Fits(k, x) PROVE x = t[k]
  <2>1. x \in Int
    BY <1>1 DEF Range
  <2>2. /\ t[k] < x <=> k <= Below(xs, x)
        /\ t[k] < x + 1 <=> k <= Below(xs, x + 1)
    BY <1>1, <2>1 DEF Ranks
  <2>3. Below(xs, x) \in Int
    BY BelowIs
  <2> QED BY <1>1, <1>3, <2>1, <2>2, <2>3
<1>4. \A k \in 1 .. n : (CHOOSE x \in Range(xs) : Fits(k, x)) = t[k]
  <2> HIDE DEF Fits
  <2> SUFFICES ASSUME NEW k \in 1 .. n PROVE (CHOOSE x \in Range(xs) : Fits(k, x)) = t[k]
    OBVIOUS
  <2> DEFINE c == CHOOSE x \in Range(xs) : Fits(k, x)
  <2>1. c \in Range(xs) /\ Fits(k, c)
    BY <1>2
  <2> QED BY <1>3, <2>1
<1>5. Sorted(xs) = [k \in 1 .. n |-> CHOOSE x \in Range(xs) : Fits(k, x)]
  BY <1>1 DEF Sorted
<1>6. Sorted(xs) = [k \in 1 .. n |-> t[k]]
  <2> HIDE DEF Fits
  <2> QED BY <1>4, <1>5
<1>7. t = [k \in 1 .. n |-> t[k]]
  BY <1>1 DEF Ints
<1> QED BY <1>6, <1>7

LEMMA InsertAtFacts ==
    ASSUME NEW t \in Ints, NEW p \in 1 .. Len(t) + 1, NEW x \in Int
    PROVE  /\ InsertAt(t, p, x) \in Ints /\ Len(InsertAt(t, p, x)) = Len(t) + 1
           /\ \A i \in 1 .. p - 1 : InsertAt(t, p, x)[i] = t[i]
           /\ InsertAt(t, p, x)[p] = x
           /\ \A i \in p .. Len(t) : InsertAt(t, p, x)[i + 1] = t[i]
<1> DEFINE n == Len(t)
           a == SubSeq(t, 1, p - 1)
           b == SubSeq(t, p, n)
           c == a \o <<x>>
           r == c \o b
<1>1. n \in Nat /\ (\A i \in 1 .. n : t[i] \in Int)
  BY IntsFacts
<1>2. /\ 1 \in Int /\ p - 1 \in Int /\ p \in Int /\ n \in Int
      /\ (\A i \in 1 .. p - 1 : t[i] \in Int) /\ \A i \in p .. n : t[i] \in Int
  BY <1>1
<1>3. /\ a \in Ints /\ Len(a) = (IF 1 <= p - 1 THEN (p - 1) - 1 + 1 ELSE 0)
      /\ \A i \in 1 .. (p - 1) - 1 + 1 : a[i] = t[1 + i - 1]
  BY <1>2, PartOfInts
<1>4. a \in Ints /\ Len(a) = p - 1 /\ \A i \in 1 .. p - 1 : a[i] = t[i]
  <2>1. (p - 1) - 1 + 1 = p - 1 /\ (~(1 <= p - 1) => p - 1 = 0)
    OBVIOUS
  <2>2. \A i \in 1 .. p - 1 : 1 + i - 1 = i
    OBVIOUS
  <2> HIDE DEF a
  <2> QED BY <1>3, <2>1, <2>2
<1>5. /\ b \in Ints /\ Len(b) = (IF p <= n THEN n - p + 1 ELSE 0)
      /\ \A i \in 1 .. n - p + 1 : b[i] = t[p + i - 1]
  BY <1>2, PartOfInts
<1>6. <<x>> \in Ints /\ Len(<<x>>) = 1 /\ <<x>>[1] = x
  BY DEF Ints
<1> HIDE DEF a, b
<1>7. /\ c \in Ints /\ Len(c) = p /\ (\A i \in 1 .. p - 1 : c[i] = t[i]) /\ c[p] = x
  <2>1. /\ c \in Seq(Int) /\ Len(c) = Len(a) + Len(<<x>>)
        /\ \A i \in 1 .. Len(a) + Len(<<x>>) :
               c[i] = IF i <= Len(a) THEN a[i] ELSE <<x>>[i - Len(a)]
    BY <1>4, <1>6, ConcatProperties DEF Ints
  <2>2. p - (p - 1) = 1 /\ p - 1 + 1 = p
    OBVIOUS
  <2> HIDE DEF c
  <2> QED BY <1>4, <1>6, <2>1, <2>2 DEF Ints
<1> HIDE DEF c
<1>8. /\ r \in Seq(Int) /\ Len(r) = Len(c) + Len(b)
      /\ \A i \in 1 .. Len(c) + Len(b) : r[i] = IF i <= Len(c) THEN c[i] ELSE b[i - Len(c)]
  BY <1>5, <1>7, ConcatProperties DEF Ints
<1>9. InsertAt(t, p, x) = r
  BY DEF InsertAt, a, b, c
<1> HIDE DEF r
<1>10. Len(b) = n - p + 1 /\ Len(c) + Len(b) = n + 1
  BY <1>1, <1>5, <1>7
<1>11. (\A i \in 1 .. p - 1 : r[i] = t[i]) /\ r[p] = x
  BY <1>1, <1>7, <1>8, <1>10
<1>12. \A i \in p .. n : r[i + 1] = t[i]
  <2> SUFFICES ASSUME NEW i \in p .. n PROVE r[i + 1] = t[i]
    OBVIOUS
  <2>1. i + 1 \in 1 .. n + 1 /\ ~(i + 1 <= p) /\ i + 1 - p \in 1 .. n - p + 1
        /\ p + (i + 1 - p) - 1 = i
    BY <1>1
  <2> QED BY <1>5, <1>7, <1>8, <1>10, <2>1
<1> QED BY <1>8, <1>9, <1>10, <1>11, <1>12 DEF Ints

LEMMA RemoveAtFacts ==
    ASSUME NEW t \in Ints, NEW p \in 1 .. Len(t)
    PROVE  /\ RemoveAt(t, p) \in Ints /\ Len(RemoveAt(t, p)) = Len(t) - 1
           /\ \A i \in 1 .. p - 1 : RemoveAt(t, p)[i] = t[i]
           /\ \A i \in p .. Len(t) - 1 : RemoveAt(t, p)[i] = t[i + 1]
<1> DEFINE n == Len(t)
           a == SubSeq(t, 1, p - 1)
           b == SubSeq(t, p + 1, n)
           r == a \o b
<1>1. n \in Nat /\ (\A i \in 1 .. n : t[i] \in Int)
  BY IntsFacts
<1>2. /\ 1 \in Int /\ p - 1 \in Int /\ p + 1 \in Int /\ n \in Int
      /\ (\A i \in 1 .. p - 1 : t[i] \in Int) /\ \A i \in p + 1 .. n : t[i] \in Int
  BY <1>1
<1>3. /\ a \in Ints /\ Len(a) = (IF 1 <= p - 1 THEN (p - 1) - 1 + 1 ELSE 0)
      /\ \A i \in 1 .. (p - 1) - 1 + 1 : a[i] = t[1 + i - 1]
  BY <1>2, PartOfInts
<1>4. a \in Ints /\ Len(a) = p - 1 /\ \A i \in 1 .. p - 1 : a[i] = t[i]
  <2>1. (p - 1) - 1 + 1 = p - 1 /\ (~(1 <= p - 1) => p - 1 = 0)
    OBVIOUS
  <2>2. \A i \in 1 .. p - 1 : 1 + i - 1 = i
    OBVIOUS
  <2> HIDE DEF a
  <2> QED BY <1>3, <2>1, <2>2
<1>5. /\ b \in Ints /\ Len(b) = (IF p + 1 <= n THEN n - (p + 1) + 1 ELSE 0)
      /\ \A i \in 1 .. n - (p + 1) + 1 : b[i] = t[p + 1 + i - 1]
  BY <1>2, PartOfInts
<1> HIDE DEF a, b
<1>8. /\ r \in Seq(Int) /\ Len(r) = Len(a) + Len(b)
      /\ \A i \in 1 .. Len(a) + Len(b) : r[i] = IF i <= Len(a) THEN a[i] ELSE b[i - Len(a)]
  BY <1>4, <1>5, ConcatProperties DEF Ints
<1>9. RemoveAt(t, p) = r
  BY DEF RemoveAt, a, b
<1> HIDE DEF r
<1>10. Len(b) = n - p /\ Len(a) + Len(b) = n - 1
  BY <1>1, <1>4, <1>5
<1>11. \A i \in 1 .. p - 1 : r[i] = t[i]
  BY <1>1, <1>4, <1>8, <1>10
<1>12. \A i \in p .. n - 1 : r[i] = t[i + 1]
  <2> SUFFICES ASSUME NEW i \in p .. n - 1 PROVE r[i] = t[i + 1]
    OBVIOUS
  <2>1. i \in 1 .. n - 1 /\ ~(i <= p - 1) /\ i - (p - 1) \in 1 .. n - (p + 1) + 1
        /\ p + 1 + (i - (p - 1)) - 1 = i + 1
    BY <1>1
  <2> QED BY <1>4, <1>5, <1>8, <1>10, <2>1
<1> QED BY <1>8, <1>9, <1>10, <1>11, <1>12 DEF Ints

LEMMA InsertRanks ==
    ASSUME NEW xs \in Ints, NEW t, Ranks(t, xs), NEW x \in Int
    PROVE  Ranks(Insert(t, x), Append(xs, x))
<1> DEFINE n == Len(t)
           p == Below(xs, x) + 1
           r == InsertAt(t, p, x)
           ys == Append(xs, x)
<1>1. t \in Ints /\ n \in Nat /\ Len(xs) = n /\ p \in 1 .. n + 1
      /\ \A i \in 1 .. n : t[i] \in Int
  BY BelowIs, IntsFacts DEF Ranks
<1>2. Insert(t, x) = r
  BY RanksCount DEF Insert, Position
<1>3. Len(ys) = n + 1
  BY <1>1, IntsGrow
<1>4. /\ r \in Ints /\ Len(r) = n + 1
      /\ \A i \in 1 .. p - 1 : r[i] = t[i]
      /\ r[p] = x
      /\ \A i \in p .. n : r[i + 1] = t[i]
  <2> HIDE DEF p, n
  <2> QED BY <1>1, InsertAtFacts DEF n
<1> HIDE DEF ys, r
<1>5. ASSUME NEW v \in Int, NEW i \in 1 .. n + 1
      PROVE  r[i] < v <=> i <= Below(ys, v)
  <2>1. Below(ys, v) = Below(xs, v) + (IF x < v THEN 1 ELSE 0)
    BY BelowAppend DEF ys
  <2>2. /\ x <= v => Below(xs, x) <= Below(xs, v)
        /\ v <= x => Below(xs, v) <= Below(xs, x)
    BY BelowGrows
  <2>3. Below(xs, x) \in Int /\ Below(xs, v) \in Int
    BY BelowIs
  <2>4. CASE i < p
    <3>1. i \in 1 .. n /\ i \in 1 .. p - 1
      BY <1>1, <2>4
    <3>2. (t[i] < v <=> i <= Below(xs, v)) /\ (t[i] < x <=> i <= Below(xs, x))
      BY <3>1 DEF Ranks
    <3> QED BY <1>1, <1>4, <2>1, <2>3, <2>4, <3>1, <3>2
  <2>5. CASE i = p
    BY <1>4, <2>1, <2>2, <2>3, <2>5
  <2>6. CASE i > p
    <3>1. i - 1 \in 1 .. n /\ i - 1 \in p .. n /\ (i - 1) + 1 = i
      BY <1>1, <2>6
    <3>2. r[i] = t[i - 1]
      BY <1>4, <3>1
    <3>3. t[i - 1] < v <=> i - 1 <= Below(xs, v)
      BY <3>1 DEF Ranks
    <3> QED BY <1>1, <2>1, <2>2, <2>3, <2>6, <3>2, <3>3
  <2> QED BY <1>1, <2>4, <2>5, <2>6
<1> QED BY <1>2, <1>3, <1>4, <1>5 DEF Ranks, ys

LEMMA RemoveRanks ==
    ASSUME NEW xs \in Ints, xs # <<>>, NEW t, Ranks(t, xs)
    PROVE  Ranks(Remove1(t, Head(xs)), Tail(xs))
<1> DEFINE n == Len(t)
           x == Head(xs)
           p == Below(xs, x) + 1
           r == RemoveAt(t, p)
           ys == Tail(xs)
<1>0. x = xs[1] /\ x \in Int /\ x + 1 \in Int /\ Len(ys) = Len(xs) - 1 /\ 1 \in 1 .. Len(xs)
  BY TailOfInts, IntsFacts
<1>1. t \in Ints /\ n \in Nat /\ Len(xs) = n /\ Below(xs, x) \in 0 .. n
      /\ \A i \in 1 .. n : t[i] \in Int
  BY BelowIs, IntsFacts DEF Ranks
<1>2. p \in 1 .. n
  <2>1. Below(xs, x) < Below(xs, x + 1)
    <3>1. x <= x + 1 /\ x <= xs[1] /\ xs[1] < x + 1
      BY <1>0
    <3> QED BY <1>0, <3>1, BelowGrows
  <2>2. Below(xs, x + 1) \in 0 .. n
    BY <1>1, BelowIs
  <2> QED BY <1>1, <2>1, <2>2
<1>3. Remove1(t, x) = r
  BY <1>0, RanksCount DEF Remove1, Position
<1>4. /\ r \in Ints /\ Len(r) = n - 1
      /\ \A i \in 1 .. p - 1 : r[i] = t[i]
      /\ \A i \in p .. n - 1 : r[i] = t[i + 1]
  <2> HIDE DEF p, n
  <2> QED BY <1>1, <1>2, RemoveAtFacts DEF n
<1> HIDE DEF ys, r, x
<1>5. ASSUME NEW v \in Int, NEW i \in 1 .. n - 1
      PROVE  r[i] < v <=> i <= Below(ys, v)
  <2>1. Below(xs, v) = Below(ys, v) + (IF x < v THEN 1 ELSE 0)
    BY BelowTail DEF ys, x
  <2>2. /\ x < v => Below(xs, x) < Below(xs, v)
        /\ v <= x => Below(xs, v) <= Below(xs, x)
    <3>1. x < v => x <= v /\ x <= xs[1] /\ xs[1] < v
      BY <1>0
    <3> QED BY <1>0, <3>1, BelowGrows
  <2>3. Below(xs, v) \in Int /\ Below(ys, v) \in Int
    <3>1. ys \in Ints
      BY TailOfInts DEF ys
    <3> QED BY <3>1, BelowIs
  <2>4. CASE i < p
    <3>1. i \in 1 .. n /\ i \in 1 .. p - 1
      BY <1>1, <2>4
    <3>2. (t[i] < v <=> i <= Below(xs, v)) /\ (t[i] < x <=> i <= Below(xs, x))
      BY <1>0, <3>1 DEF Ranks
    <3>3. r[i] = t[i] /\ t[i] \in Int /\ t[i] < x /\ i <= Below(xs, x)
      BY <1>0, <1>1, <1>4, <2>4, <3>1, <3>2
    <3>4. CASE x < v
      <4>1. t[i] < v /\ i <= Below(ys, v)
        BY <1>0, <1>1, <2>1, <2>2, <2>3, <3>3, <3>4
      <4> QED BY <3>3, <4>1
    <3>5. CASE ~(x < v)
      BY <1>0, <2>1, <2>3, <3>2, <3>3, <3>5
    <3> QED BY <3>4, <3>5
  <2>5. CASE ~(i < p)
    <3>1. i + 1 \in 1 .. n /\ i \in p .. n - 1
      BY <1>1, <2>5
    <3>2. r[i] = t[i + 1]
      BY <1>4, <3>1
    <3>3. t[i + 1] < v <=> i + 1 <= Below(xs, v)
      BY <3>1 DEF Ranks
    <3> QED BY <1>0, <1>1, <2>1, <2>2, <2>3, <2>5, <3>2, <3>3
  <2> QED BY <2>4, <2>5
<1>6. Len(ys) = n - 1
  BY <1>0, <1>1
<1> QED BY <1>3, <1>4, <1>5, <1>6 DEF Ranks, ys, x

-----------------------------------------------------------------------------
(* MedianMa and MedianAbsoluteDeviation. *)

SortedKeeps(s, p, xs) ==
    /\ DOMAIN s = {"period", "window", "sorted"}
    /\ s.period = p /\ s.window = xs /\ Len(xs) <= p
    /\ Ranks(s.sorted, xs)

LEMMA SortedStarts ==
    ASSUME NEW p \in Nat \ {0}
    PROVE  SortedKeeps(NewSortedWindow(p), p, <<>>)
<1>1. <<>> \in Ints /\ Len(<<>>) = 0 /\ 1 .. 0 = {}
  BY NoneIsInts
<1>2. Ranks(<<>>, <<>>)
  BY <1>1 DEF Ranks
<1> QED BY <1>1, <1>2 DEF SortedKeeps, NewSortedWindow

LEMMA SortedSlides ==
    ASSUME NEW p \in Nat \ {0}, NEW xs \in Ints, NEW x \in Int, NEW s, SortedKeeps(s, p, xs)
    PROVE  SortedKeeps(SortedWindowUpdated(s, x), p, Slid(xs, p, x))
<1> DEFINE full == Len(xs) = p
           kept == IF full THEN Tail(xs) ELSE xs
           left == IF full THEN Remove1(s.sorted, Head(xs)) ELSE s.sorted
           t == SortedWindowUpdated(s, x)
           ys == Slid(xs, p, x)
<1>1. /\ s.period = p /\ s.window = xs /\ Len(xs) <= p /\ Ranks(s.sorted, xs)
      /\ DOMAIN s = {"period", "window", "sorted"}
  BY DEF SortedKeeps
<1>2. kept \in Ints /\ Ranks(left, kept)
  <2>1. CASE full
    <3>1. xs # <<>>
      BY <2>1, IntsFacts
    <3> QED BY <1>1, <2>1, <3>1, TailOfInts, RemoveRanks
  <2>2. CASE ~full
    BY <1>1, <2>2
  <2> QED BY <2>1, <2>2
<1>3. t = [s EXCEPT !.window = Append(kept, x), !.sorted = Insert(left, x)]
  BY <1>1 DEF SortedWindowUpdated
<1>4. ys = Append(kept, x)
  BY DEF Slid
<1>5. Ranks(Insert(left, x), Append(kept, x))
  <2> HIDE DEF left, kept
  <2> QED BY <1>2, InsertRanks
<1>6. Len(ys) <= p
  BY <1>1, SlidFacts
<1> HIDE DEF left, kept, t, ys
<1>7. /\ DOMAIN t = {"period", "window", "sorted"}
      /\ t.period = p /\ t.window = ys /\ t.sorted = Insert(left, x)
  BY <1>1, <1>3, <1>4
<1> QED BY <1>4, <1>5, <1>6, <1>7 DEF SortedKeeps, t, ys

-----------------------------------------------------------------------------
(* The merge of two lists in order. *)

FromLeft(a, b, l, r) == l < Len(a) /\ (r < Len(b) => a[l + 1] <= b[r + 1])

Takes(g, a, b, n) ==
    IF n = 0 THEN 0
    ELSE IF FromLeft(a, b, g[n - 1], n - 1 - g[n - 1]) THEN g[n - 1] + 1 ELSE g[n - 1]

\* How many of the first n merged come from a.
FromA(a, b, N) == CHOOSE g : g = [n \in 0 .. N |-> Takes(g, a, b, n)]

LEMMA FromAExists ==
    ASSUME NEW a, NEW b, NEW N \in Nat
    PROVE  \A n \in 0 .. N : FromA(a, b, N)[n] = Takes(FromA(a, b, N), a, b, n)
<1> DEFINE Upto(g, k) == g = [n \in 0 .. k |-> Takes(g, a, b, n)]
           S == {k \in Nat : \E g : Upto(g, k)}
<1>1. 0 \in S
  <2> DEFINE g == [n \in 0 .. 0 |-> 0]
  <2>1. g = [n \in 0 .. 0 |-> g[n]] /\ \A n \in 0 .. 0 : n = 0 /\ g[n] = 0
    OBVIOUS
  <2> HIDE DEF g
  <2>2. Upto(g, 0)
    BY <2>1 DEF Takes
  <2> HIDE DEF Upto
  <2> QED BY <2>2
<1>2. \A k \in Nat : k \in S => k + 1 \in S
  <2> SUFFICES ASSUME NEW k \in Nat, k \in S PROVE k + 1 \in S
    OBVIOUS
  <2>1. PICK g : Upto(g, k)
    OBVIOUS
  <2> DEFINE h == [n \in 0 .. k + 1 |-> Takes(g, a, b, n)]
  <2>2. h = [n \in 0 .. k + 1 |-> h[n]] /\ \A n \in 0 .. k + 1 : h[n] = Takes(g, a, b, n)
    OBVIOUS
  <2> HIDE DEF h
  <2>3. \A n \in 0 .. k : g[n] = Takes(g, a, b, n)
    BY <2>1
  <2>4. \A n \in 0 .. k : h[n] = g[n]
    BY <2>2, <2>3
  <2>5. ASSUME NEW n \in 0 .. k + 1 PROVE h[n] = Takes(h, a, b, n)
    <3>1. n # 0 => h[n - 1] = g[n - 1]
      BY <2>4
    <3> QED BY <2>2, <3>1 DEF Takes
  <2>6. Upto(h, k + 1)
    BY <2>2, <2>5
  <2>7. k + 1 \in Nat
    OBVIOUS
  <2> HIDE DEF Upto
  <2> QED BY <2>6, <2>7
<1> HIDE DEF S
<1>3. N \in S
  BY <1>1, <1>2, SetInduction
<1>4. \E g : Upto(g, N)
  <2> HIDE DEF Upto
  <2> QED BY <1>3 DEF S
<1>5. FromA(a, b, N) = CHOOSE g : Upto(g, N)
  BY DEF FromA
<1>6. Upto(FromA(a, b, N), N)
  <2> HIDE DEF Upto
  <2> QED BY <1>4, <1>5
<1> QED BY <1>6

\* q holds the values of which there are A[v] below v, for each v.
Graded(q, A) ==
    /\ q \in Ints /\ A \in [Int -> 0 .. Len(q)]
    /\ \A v \in Int : \A i \in 1 .. Len(q) : q[i] < v <=> i <= A[v]

\* l of a and r of b are the smallest of both.
Placed(l, r, a, b, A, B) ==
    /\ l \in 0 .. Len(a) /\ r \in 0 .. Len(b)
    /\ \A v \in Int : (l <= A[v] /\ r <= B[v]) \/ (A[v] <= l /\ B[v] <= r)

LEMMA PlacedMoves ==
    ASSUME NEW a, NEW A, Graded(a, A), NEW b, NEW B, Graded(b, B),
           NEW l, NEW r, Placed(l, r, a, b, A, B), l + r < Len(a) + Len(b)
    PROVE  IF FromLeft(a, b, l, r)
           THEN /\ Placed(l + 1, r, a, b, A, B) /\ a[l + 1] \in Int
                /\ \A v \in Int : a[l + 1] < v <=> l + r + 1 <= A[v] + B[v]
           ELSE /\ Placed(l, r + 1, a, b, A, B) /\ b[r + 1] \in Int
                /\ \A v \in Int : b[r + 1] < v <=> l + r + 1 <= A[v] + B[v]
<1> DEFINE m == Len(a)
           n == Len(b)
           x == a[l + 1]
           y == b[r + 1]
<1>1. /\ m \in Nat /\ n \in Nat /\ l \in 0 .. m /\ r \in 0 .. n /\ l + r < m + n
      /\ \A i \in 1 .. m : a[i] \in Int
      /\ \A i \in 1 .. n : b[i] \in Int
  BY IntsFacts DEF Graded, Placed
<1>2. /\ l < m => l + 1 \in 1 .. m /\ x \in Int
      /\ r < n => r + 1 \in 1 .. n /\ y \in Int
  BY <1>1
<1>3. ASSUME NEW v \in Int
      PROVE  /\ A[v] \in 0 .. m /\ B[v] \in 0 .. n
             /\ l < m => (x < v <=> l + 1 <= A[v])
             /\ r < n => (y < v <=> r + 1 <= B[v])
             /\ (l <= A[v] /\ r <= B[v]) \/ (A[v] <= l /\ B[v] <= r)
  BY <1>2 DEF Graded, Placed
<1>4. FromLeft(a, b, l, r) <=> l < m /\ (r < n => x <= y)
  BY DEF FromLeft
<1> HIDE DEF m, n, x, y
<1>5. CASE FromLeft(a, b, l, r)
  <2>1. ASSUME NEW v \in Int
        PROVE  /\ (l + 1 <= A[v] /\ r <= B[v]) \/ (A[v] <= l + 1 /\ B[v] <= r)
               /\ x < v <=> l + r + 1 <= A[v] + B[v]
    <3>1. /\ A[v] \in 0 .. m /\ B[v] \in 0 .. n
          /\ x < v <=> l + 1 <= A[v]
          /\ r < n => (y < v <=> r + 1 <= B[v])
          /\ (l <= A[v] /\ r <= B[v]) \/ (A[v] <= l /\ B[v] <= r)
      BY <1>3, <1>4, <1>5
    <3>2. CASE l < A[v]
      BY <1>1, <3>1, <3>2
    <3>3. CASE ~(l < A[v])
      <4>1. B[v] <= r
        BY <1>1, <1>2, <1>4, <1>5, <3>1, <3>3
      <4> QED BY <1>1, <3>1, <3>3, <4>1
    <3> QED BY <3>2, <3>3
  <2>2. l + 1 \in 0 .. m /\ x \in Int
    BY <1>1, <1>2, <1>4, <1>5
  <2> QED BY <1>1, <1>5, <2>1, <2>2 DEF Placed, m, n, x
<1>6. CASE ~FromLeft(a, b, l, r)
  <2>0. r < n /\ (l < m => y < x)
    BY <1>1, <1>2, <1>4, <1>6
  <2>1. ASSUME NEW v \in Int
        PROVE  /\ (l <= A[v] /\ r + 1 <= B[v]) \/ (A[v] <= l /\ B[v] <= r + 1)
               /\ y < v <=> l + r + 1 <= A[v] + B[v]
    <3>1. /\ A[v] \in 0 .. m /\ B[v] \in 0 .. n
          /\ l < m => (x < v <=> l + 1 <= A[v])
          /\ y < v <=> r + 1 <= B[v]
          /\ (l <= A[v] /\ r <= B[v]) \/ (A[v] <= l /\ B[v] <= r)
      BY <1>3, <2>0
    <3>2. CASE r < B[v]
      BY <1>1, <3>1, <3>2
    <3>3. CASE ~(r < B[v])
      <4>1. A[v] <= l
        BY <1>1, <1>2, <2>0, <3>1, <3>3
      <4> QED BY <1>1, <3>1, <3>3, <4>1
    <3> QED BY <3>2, <3>3
  <2>2. r + 1 \in 0 .. n /\ y \in Int
    BY <1>1, <1>2, <2>0
  <2> QED BY <1>1, <1>6, <2>1, <2>2 DEF Placed, m, n, y
<1> QED BY <1>5, <1>6

Merged(a, b, N) ==
    [n \in 1 .. N |-> IF FromA(a, b, N)[n - 1] < FromA(a, b, N)[n] THEN a[FromA(a, b, N)[n]]
                      ELSE b[n - FromA(a, b, N)[n]]]

LEMMA MergedFacts ==
    ASSUME NEW a, NEW A, Graded(a, A), NEW b, NEW B, Graded(b, B),
           NEW N, N = Len(a) + Len(b)
    PROVE  /\ Merged(a, b, N) \in Ints /\ Len(Merged(a, b, N)) = N
           /\ \A v \in Int : \A n \in 1 .. N : Merged(a, b, N)[n] < v <=> n <= A[v] + B[v]
<1> DEFINE T == FromA(a, b, N)
           Good(k) == k <= N => Placed(T[k], k - T[k], a, b, A, B)
           P == {k \in Nat : Good(k)}
           q == Merged(a, b, N)
<1>1. Len(a) \in Nat /\ Len(b) \in Nat /\ N \in Nat
  BY IntsFacts DEF Graded
<1>2. \A n \in 0 .. N : T[n] = Takes(T, a, b, n)
  BY <1>1, FromAExists
<1>3. \A n \in 1 .. N : q[n] = IF T[n - 1] < T[n] THEN a[T[n]] ELSE b[n - T[n]]
  BY DEF Merged
<1> HIDE DEF T
<1>4. 0 \in P
  <2>1. T[0] = 0
    BY <1>1, <1>2 DEF Takes
  <2>2. ASSUME NEW v \in Int PROVE 0 <= A[v] /\ 0 <= B[v]
    <3>1. A[v] \in 0 .. Len(a) /\ B[v] \in 0 .. Len(b)
      BY DEF Graded
    <3> QED BY <1>1, <3>1
  <2>3. Placed(0, 0, a, b, A, B)
    BY <1>1, <2>2 DEF Placed
  <2> QED BY <2>1, <2>3
<1>5. ASSUME NEW k \in Nat, k + 1 <= N, Placed(T[k], k - T[k], a, b, A, B)
      PROVE  /\ Placed(T[k + 1], (k + 1) - T[k + 1], a, b, A, B)
             /\ q[k + 1] \in Int
             /\ \A v \in Int : q[k + 1] < v <=> k + 1 <= A[v] + B[v]
  <2> DEFINE l == T[k]
             r == k - T[k]
  <2>1. l \in 0 .. Len(a) /\ r \in 0 .. Len(b) /\ l + r = k /\ l + r < Len(a) + Len(b)
    BY <1>1, <1>5 DEF Placed
  <2>2. IF FromLeft(a, b, l, r)
        THEN /\ Placed(l + 1, r, a, b, A, B) /\ a[l + 1] \in Int
             /\ \A v \in Int : a[l + 1] < v <=> l + r + 1 <= A[v] + B[v]
        ELSE /\ Placed(l, r + 1, a, b, A, B) /\ b[r + 1] \in Int
             /\ \A v \in Int : b[r + 1] < v <=> l + r + 1 <= A[v] + B[v]
    <3> HIDE DEF l, r
    <3> QED BY <1>5, <2>1, PlacedMoves DEF l, r
  <2>3. T[k + 1] = IF FromLeft(a, b, l, r) THEN l + 1 ELSE l
    <3>1. k + 1 \in 0 .. N /\ k + 1 # 0 /\ (k + 1) - 1 = k
      BY <1>1, <1>5
    <3> QED BY <1>2, <3>1 DEF Takes
  <2>4. q[k + 1] = IF T[k] < T[k + 1] THEN a[T[k + 1]] ELSE b[(k + 1) - T[k + 1]]
    <3> DEFINE n == k + 1
    <3>1. n \in 1 .. N /\ n - 1 = k
      BY <1>1, <1>5
    <3> HIDE DEF q, P, n
    <3>2. q[n] = IF T[k] < T[n] THEN a[T[n]] ELSE b[n - T[n]]
      BY <1>3, <3>1
    <3> QED BY <3>2 DEF n
  <2> HIDE DEF q, r, P
  <2>5. CASE FromLeft(a, b, l, r)
    <3>1. T[k + 1] = l + 1 /\ (k + 1) - (l + 1) = r /\ l < l + 1
      BY <2>1, <2>3, <2>5
    <3> QED BY <2>1, <2>2, <2>4, <2>5, <3>1
  <2>6. CASE ~FromLeft(a, b, l, r)
    <3>1. T[k + 1] = l /\ (k + 1) - l = r + 1 /\ ~(l < l)
      BY <2>1, <2>3, <2>6
    <3> QED BY <2>1, <2>2, <2>4, <2>6, <3>1
  <2> QED BY <2>5, <2>6
<1>6. \A k \in Nat : k \in P => k + 1 \in P
  <2> SUFFICES ASSUME NEW k \in Nat, Good(k), k + 1 <= N
               PROVE  Placed(T[k + 1], (k + 1) - T[k + 1], a, b, A, B)
    <3>1. ASSUME NEW k \in Nat, Good(k) PROVE Good(k + 1)
      <4> QED BY <3>1
    <3> HIDE DEF Good
    <3> QED BY <3>1
  <2>1. k <= N
    BY <1>1
  <2>2. Placed(T[k], k - T[k], a, b, A, B)
    BY <2>1
  <2> HIDE DEF P, q
  <2> QED BY <1>5, <2>2
<1> HIDE DEF P, q
<1>7. \A k \in Nat : k \in P
  BY <1>4, <1>6, SetInduction
<1>8. ASSUME NEW n \in 1 .. N
      PROVE  q[n] \in Int /\ \A v \in Int : q[n] < v <=> n <= A[v] + B[v]
  <2>1. n - 1 \in Nat /\ n - 1 <= N /\ (n - 1) + 1 = n
    BY <1>1
  <2>2. Placed(T[n - 1], (n - 1) - T[n - 1], a, b, A, B)
    BY <1>7, <2>1 DEF P, Good
  <2>3. /\ q[(n - 1) + 1] \in Int
        /\ \A v \in Int : q[(n - 1) + 1] < v <=> (n - 1) + 1 <= A[v] + B[v]
    BY <1>1, <1>5, <2>1, <2>2
  <2> QED BY <2>1, <2>3
<1>9. q \in Ints /\ Len(q) = N
  <2>1. q = [n \in 1 .. N |-> q[n]]
    BY DEF q, Merged
  <2> QED BY <1>1, <1>8, <2>1 DEF Ints
<1> QED BY <1>8, <1>9 DEF q

-----------------------------------------------------------------------------
(* Twice the distances from a center that is given doubled. *)

\* Twice a value is below a limit just if the value is below half of it.
Half(a) == (a + 1) \div 2

LEMMA HalfIs ==
    ASSUME NEW a \in Int
    PROVE  /\ Half(a) \in Int /\ \A x \in Int : 2 * x < a <=> x < Half(a)
<1> DEFINE h == Half(a)
<1>1. h \in Int /\ 2 * h <= a + 1 /\ a + 1 < 2 * h + 2
  BY DEF Half
<1> HIDE DEF h
<1> QED BY <1>1 DEF h

LEMMA HalfGrows ==
    ASSUME NEW a \in Int, NEW b \in Int, a <= b
    PROVE  Half(a) <= Half(b)
<1> DEFINE h == Half(a)
           g == Half(b)
<1>1. h \in Int /\ 2 * h <= a + 1 /\ a + 1 < 2 * h + 2
  BY DEF Half
<1>2. g \in Int /\ 2 * g <= b + 1 /\ b + 1 < 2 * g + 2
  BY DEF Half
<1> HIDE DEF h, g
<1> QED BY <1>1, <1>2 DEF h, g

FarFrom(xs, c) == [i \in DOMAIN xs |-> IF 2 * xs[i] < c THEN c - 2 * xs[i] ELSE 2 * xs[i] - c]

LEMMA FarIs ==
    ASSUME NEW xs \in Ints, NEW c \in Int
    PROVE  /\ FarFrom(xs, c) \in Ints /\ Len(FarFrom(xs, c)) = Len(xs)
           /\ \A i \in 1 .. Len(xs) :
                  FarFrom(xs, c)[i] = IF 2 * xs[i] < c THEN c - 2 * xs[i] ELSE 2 * xs[i] - c
<1>1. DOMAIN xs = 1 .. Len(xs) /\ Len(xs) \in Nat /\ \A i \in 1 .. Len(xs) : xs[i] \in Int
  BY IntsFacts
<1> QED BY <1>1 DEF FarFrom, Ints

LEMMA FarBelow ==
    ASSUME NEW xs \in Ints, NEW c \in Int, NEW v \in Int
    PROVE  Below(FarFrom(xs, c), v) =
               IF v <= 0 THEN 0 ELSE Below(xs, Half(c + v)) - Below(xs, Half(c - v + 1))
<1> DEFINE q == FarFrom(xs, c)
           N == Len(xs)
           hi == Half(c + v)
           lo == Half(c - v + 1)
           Good(k) == k <= N => Count(q, k, v) = IF v <= 0 THEN 0
                                                 ELSE Count(xs, k, hi) - Count(xs, k, lo)
           P == {k \in Nat : Good(k)}
<1>1. /\ N \in Nat /\ (\A i \in 1 .. N : xs[i] \in Int) /\ q \in Ints /\ Len(q) = N
      /\ \A i \in 1 .. N : q[i] = IF 2 * xs[i] < c THEN c - 2 * xs[i] ELSE 2 * xs[i] - c
  BY IntsFacts, FarIs
<1>2. /\ \A x \in Int : 2 * x < c + v <=> x < hi
      /\ \A x \in Int : 2 * x < c - v + 1 <=> x < lo
      /\ hi \in Int /\ lo \in Int
  BY HalfIs, c + v \in Int, c - v + 1 \in Int
<1> HIDE DEF q, hi, lo
<1>3. ASSUME NEW i \in 1 .. N
      PROVE  q[i] < v <=> v > 0 /\ xs[i] < hi /\ ~(xs[i] < lo)
  <2> DEFINE x == xs[i]
  <2>1. x \in Int /\ q[i] = IF 2 * x < c THEN c - 2 * x ELSE 2 * x - c
    BY <1>1
  <2>2. (2 * x < c + v <=> x < hi) /\ (2 * x < c - v + 1 <=> x < lo)
    BY <1>2, <2>1
  <2> HIDE DEF x
  <2> QED BY <2>1, <2>2 DEF x
<1>3a. v > 0 => \A x \in Int : x < lo => x < hi
  BY <1>2
<1>4. 0 \in P
  BY CountOfNone
<1>5. ASSUME NEW k \in Nat, Good(k), k + 1 <= N PROVE Good(k + 1)
  <2>1. Count(q, k, v) = IF v <= 0 THEN 0 ELSE Count(xs, k, hi) - Count(xs, k, lo)
    BY <1>1, <1>5
  <2>2. /\ Count(q, k + 1, v) = IF q[k + 1] < v THEN Count(q, k, v) + 1 ELSE Count(q, k, v)
        /\ Count(xs, k + 1, hi) = IF xs[k + 1] < hi THEN Count(xs, k, hi) + 1 ELSE Count(xs, k, hi)
        /\ Count(xs, k + 1, lo) = IF xs[k + 1] < lo THEN Count(xs, k, lo) + 1 ELSE Count(xs, k, lo)
        /\ Count(xs, k, hi) \in 0 .. k /\ Count(xs, k, lo) \in 0 .. k
    BY CountStep
  <2>3. k + 1 \in 1 .. N
    BY <1>1, <1>5
  <2>4. /\ q[k + 1] < v <=> v > 0 /\ xs[k + 1] < hi /\ ~(xs[k + 1] < lo)
        /\ v > 0 => (xs[k + 1] < lo => xs[k + 1] < hi)
    BY <1>1, <1>3, <1>3a, <2>3
  <2> HIDE DEF P, Good
  <2>5. Count(q, k + 1, v) = IF v <= 0 THEN 0 ELSE Count(xs, k + 1, hi) - Count(xs, k + 1, lo)
    BY <2>1, <2>2, <2>4
  <2> QED BY <2>5 DEF Good
<1>6. \A k \in Nat : k \in P => k + 1 \in P
  <2>1. ASSUME NEW k \in Nat, Good(k) PROVE Good(k + 1)
    <3>1. CASE k + 1 <= N
      <4> HIDE DEF Good
      <4> QED BY <1>5, <2>1, <3>1
    <3> QED BY <3>1
  <2> HIDE DEF Good
  <2> QED BY <2>1
<1> HIDE DEF P, Good
<1>7. Good(N)
  <2>1. N \in P
    BY <1>1, <1>4, <1>6, SetInduction
  <2> QED BY <2>1 DEF P
<1>8. /\ Below(q, v) = Count(q, N, v) /\ Below(xs, hi) = Count(xs, N, hi)
      /\ Below(xs, lo) = Count(xs, N, lo)
  BY <1>1, BelowIs
<1>9. N <= N
  BY <1>1
<1> QED BY <1>7, <1>8, <1>9 DEF Good, q, hi, lo

-----------------------------------------------------------------------------
(* The two runs of distances of an ordered list. *)

\* How many of n are after the first l.
After(n, l) == IF l < n THEN n - l ELSE 0

Nearer(t, c, split) == [i \in 1 .. split |-> c - 2 * t[split + 1 - i]]
Farther(t, c, split) == [i \in 1 .. Len(t) - split |-> 2 * t[split + i] - c]

BelowCenter(t, c) == Cardinality({i \in DOMAIN t : 2 * t[i] < c})

LEMMA CenterIs ==
    ASSUME NEW xs \in Ints, NEW t, Ranks(t, xs), NEW c \in Int
    PROVE  BelowCenter(t, c) = Below(xs, Half(c))
<1>1. DOMAIN t = 1 .. Len(t) /\ \A i \in 1 .. Len(t) : t[i] \in Int
  BY IntsFacts DEF Ranks
<1>2. Half(c) \in Int /\ \A i \in 1 .. Len(t) : 2 * t[i] < c <=> t[i] < Half(c)
  BY <1>1, HalfIs
<1>3. {i \in DOMAIN t : 2 * t[i] < c} = {i \in DOMAIN t : t[i] < Half(c)}
  BY <1>1, <1>2
<1>4. Below(t, Half(c)) = Below(xs, Half(c))
  BY <1>2, RanksCount
<1> QED BY <1>3, <1>4 DEF BelowCenter, Below

NearGrades(xs, c, split) == [v \in Int |-> After(split, Below(xs, Half(c - v + 1)))]
FarGrades(xs, c, split) == [v \in Int |-> After(Below(xs, Half(c + v)), split)]
Splits(xs, c, split) == split = Below(xs, Half(c))

LEMMA RunsGraded ==
    ASSUME NEW xs \in Ints, NEW t, Ranks(t, xs), NEW c \in Int,
           NEW split, Splits(xs, c, split)
    PROVE  /\ Graded(Nearer(t, c, split), NearGrades(xs, c, split))
           /\ Len(Nearer(t, c, split)) = split
           /\ Graded(Farther(t, c, split), FarGrades(xs, c, split))
           /\ Len(Farther(t, c, split)) = Len(t) - split
           /\ \A v \in Int : NearGrades(xs, c, split)[v] + FarGrades(xs, c, split)[v]
                               = Below(FarFrom(xs, c), v)
<1> DEFINE n == Len(t)
           A == NearGrades(xs, c, split)
           B == FarGrades(xs, c, split)
           a == Nearer(t, c, split)
           b == Farther(t, c, split)
<1>1. /\ n \in Nat /\ Len(xs) = n /\ t \in Ints /\ \A i \in 1 .. n : t[i] \in Int
  BY IntsFacts DEF Ranks
<1>2. split \in 0 .. n
  BY <1>1, BelowIs DEF Splits
<1>2a. /\ A = [v \in Int |-> After(split, Below(xs, Half(c - v + 1)))]
       /\ B = [v \in Int |-> After(Below(xs, Half(c + v)), split)]
  BY DEF NearGrades, FarGrades
<1> HIDE DEF A, B
<1>3. ASSUME NEW v \in Int
      PROVE  /\ Below(xs, Half(c - v + 1)) \in 0 .. n /\ Below(xs, Half(c + v)) \in 0 .. n
             /\ \A i \in 1 .. n : 2 * t[i] < c - v + 1 <=> i <= Below(xs, Half(c - v + 1))
             /\ \A i \in 1 .. n : 2 * t[i] < c + v <=> i <= Below(xs, Half(c + v))
             /\ A[v] = After(split, Below(xs, Half(c - v + 1)))
             /\ B[v] = After(Below(xs, Half(c + v)), split)
  <2>1. /\ Half(c - v + 1) \in Int /\ Half(c + v) \in Int
        /\ \A x \in Int : 2 * x < c - v + 1 <=> x < Half(c - v + 1)
        /\ \A x \in Int : 2 * x < c + v <=> x < Half(c + v)
    BY HalfIs, c + v \in Int, c - v + 1 \in Int
  <2>2. Below(xs, Half(c - v + 1)) \in 0 .. n /\ Below(xs, Half(c + v)) \in 0 .. n
    BY <1>1, BelowIs
  <2>3. /\ \A i \in 1 .. n : t[i] < Half(c - v + 1) <=> i <= Below(xs, Half(c - v + 1))
        /\ \A i \in 1 .. n : t[i] < Half(c + v) <=> i <= Below(xs, Half(c + v))
    BY <2>1 DEF Ranks
  <2> QED BY <1>1, <1>2a, <2>1, <2>2, <2>3
<1>4. a \in Ints /\ Len(a) = split /\ \A i \in 1 .. split : a[i] = c - 2 * t[split + 1 - i]
  <2>1. a = [i \in 1 .. split |-> a[i]] /\ \A i \in 1 .. split : a[i] = c - 2 * t[split + 1 - i]
    BY DEF Nearer
  <2>2. \A i \in 1 .. split : split + 1 - i \in 1 .. n
    BY <1>1, <1>2
  <2> HIDE DEF a
  <2>3. \A i \in 1 .. split : a[i] \in Int
    BY <1>1, <2>1, <2>2
  <2> QED BY <1>2, <2>1, <2>3 DEF Ints
<1>5. b \in Ints /\ Len(b) = n - split /\ \A i \in 1 .. n - split : b[i] = 2 * t[split + i] - c
  <2>1. b = [i \in 1 .. n - split |-> b[i]] /\ \A i \in 1 .. n - split : b[i] = 2 * t[split + i] - c
    BY DEF Farther
  <2>2. \A i \in 1 .. n - split : split + i \in 1 .. n
    BY <1>1, <1>2
  <2> HIDE DEF b
  <2>3. \A i \in 1 .. n - split : b[i] \in Int
    BY <1>1, <2>1, <2>2
  <2>4. n - split \in Nat
    BY <1>1, <1>2
  <2> QED BY <2>1, <2>3, <2>4 DEF Ints
<1> HIDE DEF a, b, n
<1>6. Graded(a, A)
  <2>1. ASSUME NEW v \in Int
        PROVE  A[v] \in 0 .. split /\ \A i \in 1 .. split : a[i] < v <=> i <= A[v]
    <3> DEFINE L == Below(xs, Half(c - v + 1))
    <3>1. /\ L \in 0 .. n /\ A[v] = After(split, L)
          /\ \A i \in 1 .. n : 2 * t[i] < c - v + 1 <=> i <= L
      BY <1>3
    <3> HIDE DEF L
    <3>2. A[v] \in 0 .. split
      BY <1>1, <1>2, <3>1 DEF After
    <3>3. ASSUME NEW i \in 1 .. split PROVE a[i] < v <=> i <= A[v]
      <4> DEFINE j == split + 1 - i
      <4>1. j \in 1 .. n /\ i = split + 1 - j
        BY <1>1, <1>2
      <4>2. a[i] = c - 2 * t[j] /\ t[j] \in Int /\ (2 * t[j] < c - v + 1 <=> j <= L)
        BY <1>1, <1>4, <3>1, <4>1
      <4> HIDE DEF j
      <4> QED BY <1>1, <1>2, <3>1, <4>1, <4>2 DEF After
    <3> QED BY <3>2, <3>3
  <2>2. A \in [Int -> 0 .. split]
    <3>1. A = [v \in Int |-> A[v]]
      BY <1>2a
    <3> QED BY <2>1, <3>1, Zenon
  <2> QED BY <1>4, <2>1, <2>2 DEF Graded
<1>7. Graded(b, B)
  <2>1. ASSUME NEW v \in Int
        PROVE  B[v] \in 0 .. n - split /\ \A i \in 1 .. n - split : b[i] < v <=> i <= B[v]
    <3> DEFINE H == Below(xs, Half(c + v))
    <3>1. /\ H \in 0 .. n /\ B[v] = After(H, split)
          /\ \A i \in 1 .. n : 2 * t[i] < c + v <=> i <= H
      BY <1>3
    <3> HIDE DEF H
    <3>2. B[v] \in 0 .. n - split
      BY <1>1, <1>2, <3>1 DEF After
    <3>3. ASSUME NEW i \in 1 .. n - split PROVE b[i] < v <=> i <= B[v]
      <4> DEFINE j == split + i
      <4>1. j \in 1 .. n /\ i = j - split
        BY <1>1, <1>2
      <4>2. b[i] = 2 * t[j] - c /\ t[j] \in Int /\ (2 * t[j] < c + v <=> j <= H)
        BY <1>1, <1>5, <3>1, <4>1
      <4> HIDE DEF j
      <4> QED BY <1>1, <1>2, <3>1, <4>1, <4>2 DEF After
    <3> QED BY <3>2, <3>3
  <2>2. B \in [Int -> 0 .. n - split]
    <3>1. B = [v \in Int |-> B[v]]
      BY <1>2a
    <3> QED BY <2>1, <3>1, Zenon
  <2> QED BY <1>5, <2>1, <2>2 DEF Graded
<1>8. ASSUME NEW v \in Int PROVE A[v] + B[v] = Below(FarFrom(xs, c), v)
  <2> DEFINE L == Below(xs, Half(c - v + 1))
             H == Below(xs, Half(c + v))
  <2>1. L \in 0 .. n /\ H \in 0 .. n /\ A[v] = After(split, L) /\ B[v] = After(H, split)
    BY <1>3
  <2>2. Below(FarFrom(xs, c), v) = IF v <= 0 THEN 0 ELSE H - L
    BY FarBelow
  <2>3. /\ Half(c - v + 1) \in Int /\ Half(c + v) \in Int /\ Half(c) \in Int
    BY HalfIs, c + v \in Int, c - v + 1 \in Int
  <2>4. CASE v <= 0
    <3>1. c <= c - v + 1 /\ c + v <= c
      BY <2>4
    <3>2. Half(c) <= Half(c - v + 1) /\ Half(c + v) <= Half(c)
      BY <3>1, HalfGrows, c + v \in Int, c - v + 1 \in Int
    <3>3. split <= L /\ H <= split
      BY <2>3, <3>2, BelowGrows DEF Splits
    <3> HIDE DEF L, H
    <3> QED BY <1>1, <1>2, <2>1, <2>2, <2>4, <3>3 DEF After
  <2>5. CASE ~(v <= 0)
    <3>1. c - v + 1 <= c /\ c <= c + v
      BY <2>5
    <3>2. Half(c - v + 1) <= Half(c) /\ Half(c) <= Half(c + v)
      BY <3>1, HalfGrows, c + v \in Int, c - v + 1 \in Int
    <3>3. L <= split /\ split <= H
      BY <2>3, <3>2, BelowGrows DEF Splits
    <3> HIDE DEF L, H
    <3> QED BY <1>1, <1>2, <2>1, <2>2, <2>5, <3>3 DEF After
  <2> QED BY <2>4, <2>5
<1> QED BY <1>4, <1>5, <1>6, <1>7, <1>8 DEF a, b, n, A, B

LEMMA DistancesMerge ==
    ASSUME NEW t \in Ints, NEW c
    PROVE  Distances(t, c) = Merged(Nearer(t, c, BelowCenter(t, c)),
                                    Farther(t, c, BelowCenter(t, c)), Len(t))
<1>1. DOMAIN t = 1 .. Len(t)
  BY IntsFacts
<1>2. Distances(t, c) =
          [n \in DOMAIN t |->
              IF FromA(Nearer(t, c, BelowCenter(t, c)), Farther(t, c, BelowCenter(t, c)), Len(t))[n - 1]
                 < FromA(Nearer(t, c, BelowCenter(t, c)), Farther(t, c, BelowCenter(t, c)), Len(t))[n]
              THEN Nearer(t, c, BelowCenter(t, c))[
                   FromA(Nearer(t, c, BelowCenter(t, c)), Farther(t, c, BelowCenter(t, c)), Len(t))[n]]
              ELSE Farther(t, c, BelowCenter(t, c))[
                   n - FromA(Nearer(t, c, BelowCenter(t, c)), Farther(t, c, BelowCenter(t, c)), Len(t))[n]]]
  BY Zenon DEF Distances, FromA, Takes, FromLeft, Nearer, Farther, BelowCenter
<1> QED BY <1>1, <1>2 DEF Merged

LEMMA DistancesRank ==
    ASSUME NEW xs \in Ints, NEW t, Ranks(t, xs), NEW c \in Int
    PROVE  Ranks(Distances(t, c), FarFrom(xs, c))
<1> DEFINE split == Below(xs, Half(c))
           A == NearGrades(xs, c, split)
           B == FarGrades(xs, c, split)
           a == Nearer(t, c, split)
           b == Farther(t, c, split)
           n == Len(t)
<1>1. t \in Ints /\ n \in Nat /\ Len(xs) = n /\ split \in 0 .. n
  BY IntsFacts, BelowIs DEF Ranks
<1>2. Distances(t, c) = Merged(a, b, n)
  BY <1>1, CenterIs, DistancesMerge
<1>3. /\ Graded(a, A) /\ Len(a) = split /\ Graded(b, B) /\ Len(b) = n - split
      /\ \A v \in Int : A[v] + B[v] = Below(FarFrom(xs, c), v)
  <2>1. Splits(xs, c, split)
    BY DEF Splits
  <2> HIDE DEF split
  <2> QED BY <2>1, RunsGraded
<1>4. n = Len(a) + Len(b)
  BY <1>1, <1>3
<1> HIDE DEF A, B, a, b, n
<1>5. /\ Merged(a, b, n) \in Ints /\ Len(Merged(a, b, n)) = n
      /\ \A v \in Int : \A i \in 1 .. n : Merged(a, b, n)[i] < v <=> i <= A[v] + B[v]
  BY <1>3, <1>4, MergedFacts
<1>6. Len(FarFrom(xs, c)) = n
  BY <1>1, FarIs
<1> QED BY <1>2, <1>3, <1>5, <1>6 DEF Ranks

-----------------------------------------------------------------------------
(* The median and the median deviation of a sorted window. *)

LEMMA MedianIsInt ==
    ASSUME NEW t \in Ints, t # <<>>
    PROVE  Median2(t) \in Int
<1> DEFINE n == Len(t)
           mid == n \div 2
<1>1. n \in Nat /\ n # 0 /\ \A i \in 1 .. n : t[i] \in Int
  BY IntsFacts
<1> HIDE DEF n
<1>2. IF n % 2 = 0 THEN mid \in 1 .. n /\ mid + 1 \in 1 .. n ELSE mid + 1 \in 1 .. n
  BY <1>1
<1> HIDE DEF mid
<1>3. Median2(t) = IF n % 2 = 0 THEN t[mid] + t[mid + 1] ELSE 2 * t[mid + 1]
  BY DEF Median2, mid, n
<1>4. CASE n % 2 = 0
  <2>1. t[mid] \in Int /\ t[mid + 1] \in Int
    BY <1>1, <1>2, <1>4
  <2> QED BY <1>3, <1>4, <2>1
<1>5. CASE ~(n % 2 = 0)
  <2>1. t[mid + 1] \in Int
    BY <1>1, <1>2, <1>5
  <2> QED BY <1>3, <1>5, <2>1
<1> QED BY <1>4, <1>5

LEMMA SortedGives ==
    ASSUME NEW p \in Nat \ {0}, NEW xs \in Ints, xs # <<>>, NEW s, SortedKeeps(s, p, xs)
    PROVE  /\ MedianOf(s) = Median2(Sorted(xs)) /\ MedianOf(s) \in Int
           /\ DeviationOf(s) = MedianDeviation(xs) /\ DeviationOf(s) \in Int
<1> DEFINE t == s.sorted
           c == Median2(t)
           q == FarFrom(xs, c)
           d == Distances(t, c)
<1>1. Ranks(t, xs) /\ t \in Ints /\ t # <<>> /\ Len(xs) \in Nat
  BY IntsFacts DEF SortedKeeps, Ranks
<1>2. Sorted(xs) = t
  BY <1>1, SortedIs
<1>3. c \in Int
  BY <1>1, MedianIsInt
<1>4. MedianOf(s) = c
  BY DEF MedianOf
<1>5. DeviationOf(s) = Median2(d)
  BY DEF DeviationOf
<1>6. MedianDeviation(xs) = Median2(Sorted(q))
  BY <1>2 DEF MedianDeviation, FarFrom
<1> HIDE DEF c, t
<1>7. q \in Ints /\ Len(q) = Len(xs)
  BY <1>3, FarIs
<1>8. Ranks(d, q)
  BY <1>1, <1>3, DistancesRank
<1> HIDE DEF q, d
<1>9. Sorted(q) = d
  BY <1>7, <1>8, SortedIs
<1>10. d \in Ints /\ d # <<>>
  <2>1. d \in Ints /\ Len(d) = Len(xs)
    BY <1>7, <1>8 DEF Ranks
  <2>2. Len(xs) # 0
    BY IntsFacts
  <2> QED BY <2>1, <2>2, IntsFacts
<1>11. Median2(d) \in Int
  BY <1>10, MedianIsInt
<1> QED BY <1>2, <1>3, <1>4, <1>5, <1>6, <1>9, <1>11 DEF c

-----------------------------------------------------------------------------
(* UlcerIndex: the deque of the inputs that may still become the peak. *)

Entry == [at : Int, value : Int]

LEMMA PartOfEntries ==
    ASSUME NEW q \in Seq(Entry), NEW m \in 1 .. Len(q) + 1, NEW n \in m - 1 .. Len(q)
    PROVE  /\ SubSeq(q, m, n) \in Seq(Entry) /\ Len(SubSeq(q, m, n)) = n - m + 1
           /\ \A i \in 1 .. n - m + 1 : SubSeq(q, m, n)[i] = q[m + i - 1]
<1>1. Len(q) \in Nat /\ \A i \in 1 .. Len(q) : q[i] \in Entry
  BY LenProperties
<1>2. m \in Int /\ n \in Int /\ \A i \in m .. n : q[i] \in Entry
  BY <1>1
<1>3. /\ SubSeq(q, m, n) \in Seq(Entry)
      /\ Len(SubSeq(q, m, n)) = IF m <= n THEN n - m + 1 ELSE 0
      /\ \A i \in 1 .. n - m + 1 : SubSeq(q, m, n)[i] = q[m + i - 1]
  BY <1>2, SubSeqProperties
<1>4. m > n => n - m + 1 = 0
  BY <1>1
<1> QED BY <1>2, <1>3, <1>4

\* The deque after the n inputs of xs, for windows of p.
DequeKeeps(D, n, p, xs) ==
    /\ D \in Seq(Entry)
    /\ \A k \in 1 .. Len(D) : /\ D[k].at \in 1 .. n /\ n < D[k].at + p
                              /\ D[k].value = xs[D[k].at]
    /\ \A k, l \in 1 .. Len(D) : k < l => D[k].at < D[l].at /\ D[l].value < D[k].value
    /\ \A i \in 1 .. n : n < i + p =>
           \E k \in 1 .. Len(D) : i <= D[k].at /\ xs[i] <= D[k].value

IsUpTo(r, q, x) == r = UpTo(q, {i \in DOMAIN q : q[i].value > x})
IsFrom(r, q, S) == r = From(q, S)

StartsAt(r, q, S, m) ==
    /\ m \in S /\ \A i \in S : m <= i
    /\ r \in Seq(Entry) /\ Len(r) = Len(q) - m + 1
    /\ \A i \in 1 .. Len(q) - m + 1 : r[i] = q[m + i - 1]

\* pop_back keeps what is above x.
LEMMA UpToKeeps ==
    ASSUME NEW q \in Seq(Entry), NEW x \in Int,
           \A k, l \in 1 .. Len(q) : k < l => q[l].value < q[k].value,
           NEW r, IsUpTo(r, q, x)
    PROVE  /\ r \in Seq(Entry) /\ Len(r) \in 0 .. Len(q)
           /\ \A i \in 1 .. Len(r) : r[i] = q[i] /\ x < q[i].value
           /\ \A i \in Len(r) + 1 .. Len(q) : q[i].value <= x
<1> DEFINE n == Len(q)
           S == {i \in DOMAIN q : q[i].value > x} \cup {0}
           K == Max(S)
<1>1. n \in Nat /\ DOMAIN q = 1 .. n /\ \A i \in 1 .. n : q[i].value \in Int
  <2>1. n \in Nat /\ DOMAIN q = 1 .. n /\ \A i \in 1 .. n : q[i] \in Entry
    BY LenProperties
  <2> QED BY <2>1 DEF Entry
<1>2. S \in SUBSET (0 .. n) /\ 0 \in S
  BY <1>1
<1> HIDE DEF S
<1>3. K \in S /\ \A i \in S : i <= K
  <2>1. S \in SUBSET Int /\ S # {} /\ n \in Int /\ \A i \in S : i <= n
    BY <1>1, <1>2
  <2> HIDE DEF n
  <2> QED BY <2>1, MaxOf
<1>4. r = SubSeq(q, 1, K)
  BY DEF IsUpTo, UpTo, Largest1, S
<1> HIDE DEF K
<1>5. K \in 0 .. n
  BY <1>2, <1>3
<1>6. /\ r \in Seq(Entry) /\ Len(r) = K - 1 + 1
      /\ \A i \in 1 .. K - 1 + 1 : r[i] = q[1 + i - 1]
  <2>1. 1 \in 1 .. Len(q) + 1 /\ K \in 1 - 1 .. Len(q)
    BY <1>1, <1>5
  <2> QED BY <1>4, <2>1, PartOfEntries
<1>7. Len(r) = K /\ \A i \in 1 .. K : r[i] = q[i]
  <2>1. K - 1 + 1 = K /\ \A i \in 1 .. K : 1 + i - 1 = i
    BY <1>5
  <2> QED BY <1>6, <2>1
<1>8. ASSUME NEW i \in 1 .. K PROVE x < q[i].value
  <2>1. K \in 1 .. n /\ i \in 1 .. n /\ K # 0
    BY <1>1, <1>5
  <2>2. q[K].value > x
    BY <1>3, <2>1 DEF S
  <2>3. i < K => q[K].value < q[i].value
    BY <2>1
  <2> QED BY <1>1, <2>1, <2>2, <2>3
<1>9. ASSUME NEW i \in K + 1 .. n PROVE q[i].value <= x
  <2>1. i \in 1 .. n /\ ~(i <= K)
    BY <1>1, <1>5
  <2>2. i \notin S
    BY <1>3, <2>1
  <2>3. ~(q[i].value > x)
    BY <1>1, <2>1, <2>2 DEF S
  <2> QED BY <1>1, <2>1, <2>3
<1> QED BY <1>5, <1>6, <1>7, <1>8, <1>9

\* pop_front keeps what is from the first of some places on.
LEMMA FromKeeps ==
    ASSUME NEW q \in Seq(Entry), NEW S \in SUBSET (1 .. Len(q)), S # {},
           NEW r, IsFrom(r, q, S)
    PROVE  \E m \in S : StartsAt(r, q, S, m)
<1> DEFINE n == Len(q)
           m == Min(S)
<1>1. n \in Nat
  BY LenProperties
<1>2. m \in S /\ \A i \in S : m <= i
  <2>1. S \in SUBSET Int /\ \A i \in S : 1 <= i
    BY <1>1
  <2> QED BY <2>1, MinOf
<1>3. r = SubSeq(q, m, n)
  BY DEF IsFrom, From
<1> HIDE DEF m
<1>4. /\ r \in Seq(Entry) /\ Len(r) = n - m + 1
      /\ \A i \in 1 .. n - m + 1 : r[i] = q[m + i - 1]
  <2>1. m \in 1 .. Len(q) + 1 /\ n \in m - 1 .. Len(q)
    BY <1>1, <1>2
  <2> QED BY <1>3, <2>1, PartOfEntries
<1>5. StartsAt(r, q, S, m)
  BY <1>2, <1>4 DEF StartsAt
<1> QED BY <1>2, <1>5

LEMMA PeaksKeep ==
    ASSUME NEW p \in Nat \ {0}, NEW xs \in Ints, NEW x \in Int, NEW s, s.period = p,
           s.count = Len(xs), DequeKeeps(s.deque, Len(xs), p, xs)
    PROVE  DequeKeeps(TrailingPeaks(s, x), Len(xs) + 1, p, Append(xs, x))
<1> DEFINE D == s.deque
           n == Len(xs)
           ys == Append(xs, x)
           top == UpTo(D, {i \in DOMAIN D : D[i].value > x})
           K == Len(top)
           e == [at |-> n + 1, value |-> x]
           q == Append(top, e)
           S == {i \in DOMAIN q : q[i].at + p > n + 1}
           r == From(q, S)
<1>1. /\ n \in Nat /\ ys \in Ints /\ Len(ys) = n + 1 /\ ys[n + 1] = x
      /\ \A i \in 1 .. n : ys[i] = xs[i] /\ xs[i] \in Int
  BY IntsFacts, IntsGrow
<1>2. /\ D \in Seq(Entry) /\ Len(D) \in Nat
      /\ \A k \in 1 .. Len(D) : /\ D[k].at \in 1 .. n /\ n < D[k].at + p
                                /\ D[k].value = xs[D[k].at]
      /\ \A k, l \in 1 .. Len(D) : k < l => D[k].at < D[l].at /\ D[l].value < D[k].value
      /\ \A i \in 1 .. n : n < i + p =>
             \E k \in 1 .. Len(D) : i <= D[k].at /\ xs[i] <= D[k].value
  BY LenProperties DEF DequeKeeps
<1>3. TrailingPeaks(s, x) = r
  BY DEF TrailingPeaks
<1>3a. IsUpTo(top, D, x) /\ IsFrom(r, q, S)
  BY DEF IsUpTo, IsFrom
<1> HIDE DEF r, D
<1>4. /\ top \in Seq(Entry) /\ K \in 0 .. Len(D)
      /\ \A i \in 1 .. K : top[i] = D[i] /\ x < D[i].value
      /\ \A i \in K + 1 .. Len(D) : D[i].value <= x
  <2> HIDE DEF top
  <2> QED BY <1>2, <1>3a, UpToKeeps
<1> HIDE DEF top
<1>5. /\ q \in Seq(Entry) /\ Len(q) = K + 1 /\ K \in Nat
      /\ \A i \in 1 .. K : q[i] = D[i]
      /\ q[K + 1] = e
      /\ DOMAIN q = 1 .. K + 1
  <2>1. e \in Entry
    BY <1>1 DEF Entry
  <2>2. /\ q \in Seq(Entry) /\ Len(q) = Len(top) + 1
        /\ \A i \in 1 .. Len(top) : q[i] = top[i]
        /\ q[Len(top) + 1] = e
    BY <1>4, <2>1, AppendProperties
  <2> HIDE DEF q, e
  <2>3. K \in Nat
    BY <1>2, <1>4
  <2>4. DOMAIN q = 1 .. K + 1
    BY <2>2, <2>3, LenProperties
  <2> QED BY <1>4, <2>2, <2>3, <2>4
<1>5a. e.at = n + 1 /\ e.value = x
  OBVIOUS
<1> HIDE DEF q, e, K
<1>6. S \in SUBSET (1 .. K + 1) /\ K + 1 \in S
  <2>1. q[K + 1].at + p > n + 1
    BY <1>1, <1>5, <1>5a
  <2>2. K + 1 \in 1 .. K + 1
    BY <1>5
  <2> QED BY <1>5, <2>1, <2>2
<1>6a. S \in SUBSET (1 .. Len(q)) /\ S # {}
  BY <1>5, <1>6
<1>6b. PICK m \in S : StartsAt(r, q, S, m)
  <2> HIDE DEF S
  <2> QED BY <1>3a, <1>5, <1>6a, FromKeeps
<1>7. /\ \A i \in S : m <= i
      /\ r \in Seq(Entry) /\ Len(r) = K + 1 - m + 1
      /\ \A i \in 1 .. K + 1 - m + 1 : r[i] = q[m + i - 1]
  <2>1. StartsAt(r, q, S, m)
    BY <1>6b
  <2> HIDE DEF S
  <2>2. \A i \in S : m <= i
    BY <2>1 DEF StartsAt
  <2>3. r \in Seq(Entry) /\ Len(r) = Len(q) - m + 1
    BY <2>1 DEF StartsAt
  <2>4. \A i \in 1 .. Len(q) - m + 1 : r[i] = q[m + i - 1]
    BY <2>1 DEF StartsAt
  <2>5. Len(q) - m + 1 = K + 1 - m + 1
    <3>1. m \in Int /\ Len(q) = K + 1 /\ K \in Nat
      BY <1>5, <1>6a
    <3> QED BY <3>1
  <2> QED BY <2>2, <2>3, <2>4, <2>5
<1>8. m \in 1 .. K + 1 /\ q[m].at + p > n + 1 /\ m \in Int
  BY <1>5, <1>6
<1>9. ASSUME NEW k \in 1 .. K + 1
      PROVE  /\ q[k].at \in 1 .. n + 1 /\ q[k].value = ys[q[k].at]
             /\ q[k].value \in Int
             /\ \A l \in 1 .. K + 1 : k < l => q[k].at < q[l].at /\ q[l].value < q[k].value
  <2>1. CASE k = K + 1
    BY <1>1, <1>5, <1>5a, <2>1
  <2>2. CASE k # K + 1
    <3>1. k \in 1 .. K /\ k \in 1 .. Len(D) /\ q[k] = D[k]
      BY <1>2, <1>4, <1>5, <2>2
    <3>2. D[k].at \in 1 .. n /\ D[k].value = ys[D[k].at] /\ D[k].value \in Int /\ x < D[k].value
      BY <1>1, <1>2, <1>4, <3>1
    <3>3. ASSUME NEW l \in 1 .. K + 1, k < l
          PROVE  q[k].at < q[l].at /\ q[l].value < q[k].value
      <4>1. CASE l = K + 1
        BY <1>1, <1>5, <1>5a, <3>1, <3>2, <4>1
      <4>2. CASE l # K + 1
        <5>1. l \in 1 .. K /\ l \in 1 .. Len(D) /\ q[l] = D[l]
          BY <1>2, <1>4, <1>5, <4>2
        <5> QED BY <1>2, <3>1, <3>3, <5>1
      <4> QED BY <4>1, <4>2
    <3> QED BY <1>1, <3>1, <3>2, <3>3
  <2> QED BY <2>1, <2>2
<1>10. ASSUME NEW k \in 1 .. Len(r)
       PROVE  /\ m + k - 1 \in m .. K + 1 /\ m + k - 1 \in 1 .. K + 1 /\ r[k] = q[m + k - 1]
  <2>1. K + 1 - m + 1 = K + 2 - m /\ m + k - 1 \in m .. K + 1
    BY <1>5, <1>7, <1>8
  <2> QED BY <1>5, <1>7, <1>8, <2>1
<1>11. ASSUME NEW k \in 1 .. Len(r)
       PROVE  r[k].at \in 1 .. n + 1 /\ n + 1 < r[k].at + p /\ r[k].value = ys[r[k].at]
  <2> DEFINE j == m + k - 1
  <2>1. j \in 1 .. K + 1 /\ r[k] = q[j] /\ (m < j \/ m = j)
    BY <1>8, <1>10
  <2> HIDE DEF j
  <2>2. q[m].at \in 1 .. n + 1 /\ q[j].at \in 1 .. n + 1 /\ (m < j => q[m].at < q[j].at)
    BY <1>8, <1>9, <2>1
  <2> QED BY <1>1, <1>8, <1>9, <2>1, <2>2
<1>12. ASSUME NEW k \in 1 .. Len(r), NEW l \in 1 .. Len(r), k < l
       PROVE  r[k].at < r[l].at /\ r[l].value < r[k].value
  <2> DEFINE i == m + k - 1
             j == m + l - 1
  <2>1. i \in 1 .. K + 1 /\ j \in 1 .. K + 1 /\ i < j /\ r[k] = q[i] /\ r[l] = q[j]
    BY <1>8, <1>10, <1>12
  <2> HIDE DEF i, j
  <2> QED BY <1>9, <2>1
<1>13. ASSUME NEW i \in 1 .. n + 1, n + 1 < i + p
       PROVE  \E k \in 1 .. Len(r) : i <= r[k].at /\ ys[i] <= r[k].value
  <2>1. ASSUME NEW j \in 1 .. K + 1, i <= q[j].at, ys[i] <= q[j].value
        PROVE  \E k \in 1 .. Len(r) : i <= r[k].at /\ ys[i] <= r[k].value
    <3>1. q[j].at \in 1 .. n + 1
      BY <1>9
    <3>2. q[j].at + p > n + 1
      BY <1>1, <1>13, <2>1, <3>1
    <3>3. j \in S
      BY <1>5, <3>2
    <3>4. m <= j
      BY <1>7, <3>3
    <3> DEFINE k == j - m + 1
    <3>5. k \in 1 .. Len(r) /\ m + k - 1 = j
      BY <1>5, <1>7, <1>8, <3>4
    <3>6. r[k] = q[j]
      <4> HIDE DEF k
      <4> QED BY <1>10, <3>5
    <3> HIDE DEF k
    <3> QED BY <2>1, <3>5, <3>6
  <2>2. K + 1 \in 1 .. K + 1
    BY <1>5
  <2>3. CASE i = n + 1
    BY <1>1, <1>5, <1>5a, <2>1, <2>2, <2>3
  <2>4. CASE i # n + 1
    <3>1. i \in 1 .. n /\ n < i + p
      BY <1>1, <1>13, <2>4
    <3>2. PICK k \in 1 .. Len(D) : i <= D[k].at /\ xs[i] <= D[k].value
      BY <1>2, <3>1
    <3>3. CASE k <= K
      <4>1. k \in 1 .. K /\ k \in 1 .. K + 1
        BY <1>2, <1>5, <3>3
      <4> QED BY <1>1, <1>5, <2>1, <3>1, <3>2, <4>1
    <3>4. CASE ~(k <= K)
      <4>1. k \in K + 1 .. Len(D) /\ D[k].value \in Int
        <5>1. D[k].at \in 1 .. n /\ D[k].value = xs[D[k].at]
          BY <1>2
        <5> QED BY <1>1, <1>2, <1>5, <3>4, <5>1
      <4>2. D[k].value <= x
        BY <1>4, <4>1
      <4>3. ys[i] <= x /\ i <= n + 1
        BY <1>1, <3>1, <3>2, <4>1, <4>2
      <4> QED BY <1>5, <1>5a, <2>1, <2>2, <4>3
    <3> QED BY <3>3, <3>4
  <2> QED BY <2>3, <2>4
<1> HIDE DEF ys
<1>14. DequeKeeps(r, n + 1, p, ys)
  BY <1>7, <1>11, <1>12, <1>13 DEF DequeKeeps
<1> QED BY <1>3, <1>14 DEF ys

LEMMA SquaredIsInt ==
    ASSUME NEW h \in Int, NEW x \in Int
    PROVE  SquaredDrawdown(h, x) \in Int
<1> DEFINE fall == (x - h) * Scale
           d == IF h > 0 THEN fall \div h ELSE (-fall) \div (-h)
<1>1. Scale \in Nat \ {0}
  BY ScaleAssumption
<1>2. fall \in Int
  BY <1>1
<1> HIDE DEF fall
<1>3. h # 0 => d \in Int
  <2>1. CASE h > 0
    BY <1>2, <2>1
  <2>2. CASE ~(h > 0)
    <3> DEFINE a == -fall
               b == -h
    <3>1. a \in Int /\ b \in Int /\ (h # 0 => b > 0)
      BY <1>2, <2>2
    <3> HIDE DEF a, b
    <3>2. h # 0 => a \div b \in Int
      BY <3>1
    <3> QED BY <2>2, <3>2 DEF a, b
  <2> QED BY <2>1, <2>2
<1>4. SquaredDrawdown(h, x) = IF h = 0 THEN 0 ELSE d * d
  BY DEF SquaredDrawdown, fall
<1> HIDE DEF d
<1> QED BY <1>3, <1>4

LEMMA HighestSame ==
    ASSUME NEW m, NEW n, NEW xs, NEW ys, \A i \in m .. n : xs[i] = ys[i]
    PROVE  Highest(xs, m, n) = Highest(ys, m, n)
<1>1. {xs[i] : i \in m .. n} = {ys[i] : i \in m .. n}
  OBVIOUS
<1> QED BY <1>1 DEF Highest

\* How far below the peak of the p inputs up to it input t is, squared.
SquareAt(xs, p, t) == SquaredDrawdown(Highest(xs, t - p + 1, t), xs[t])

LEMMA SquareAtIs ==
    ASSUME NEW p \in Nat \ {0}, NEW xs \in Ints, NEW t \in p .. Len(xs)
    PROVE  /\ SquareAt(xs, p, t) \in Int
           /\ \A x : SquareAt(Append(xs, x), p, t) = SquareAt(xs, p, t)
<1>1. /\ Len(xs) \in Nat /\ t \in 1 .. Len(xs) /\ t - p + 1 \in Int /\ t - p + 1 <= t
      /\ t \in Int /\ \A i \in t - p + 1 .. t : i \in 1 .. Len(xs)
  BY IntsFacts
<1>2. \A i \in 1 .. Len(xs) : xs[i] \in Int
  BY IntsFacts
<1>3. Highest(xs, t - p + 1, t) \in Int
  <2> DEFINE m == t - p + 1
  <2>1. m \in Int /\ m <= t /\ \A i \in m .. t : xs[i] \in Int
    BY <1>1, <1>2
  <2> HIDE DEF m
  <2>2. Highest(xs, m, t) \in Int
    BY <1>1, <2>1, HighestFacts
  <2> QED BY <2>2 DEF m
<1>4. SquareAt(xs, p, t) \in Int
  BY <1>1, <1>2, <1>3, SquaredIsInt DEF SquareAt
<1>5. ASSUME NEW x PROVE SquareAt(Append(xs, x), p, t) = SquareAt(xs, p, t)
  <2> DEFINE ys == Append(xs, x)
  <2>1. \A i \in 1 .. Len(xs) : xs[i] = ys[i]
    BY <1>1 DEF Ints
  <2> HIDE DEF ys
  <2>2. \A i \in t - p + 1 .. t : xs[i] = ys[i]
    BY <1>1, <2>1
  <2>3. Highest(xs, t - p + 1, t) = Highest(ys, t - p + 1, t)
    BY <2>2, HighestSame
  <2> QED BY <1>1, <2>1, <2>3 DEF SquareAt, ys
<1> QED BY <1>4, <1>5

\* The first entry is the peak of the window.
LEMMA FirstIsPeak ==
    ASSUME NEW p \in Nat \ {0}, NEW xs \in Ints, p <= Len(xs), NEW D,
           DequeKeeps(D, Len(xs), p, xs)
    PROVE  D[1].value = Highest(xs, Len(xs) - p + 1, Len(xs))
<1> DEFINE n == Len(xs)
           m == n - p + 1
<1>1. n \in Nat /\ m \in 1 .. n /\ \A i \in 1 .. n : xs[i] \in Int
  BY IntsFacts
<1>2. /\ D \in Seq(Entry) /\ Len(D) \in Nat
      /\ \A k \in 1 .. Len(D) : /\ D[k].at \in 1 .. n /\ n < D[k].at + p
                                /\ D[k].value = xs[D[k].at]
      /\ \A k, l \in 1 .. Len(D) : k < l => D[k].at < D[l].at /\ D[l].value < D[k].value
      /\ \A i \in 1 .. n : n < i + p =>
             \E k \in 1 .. Len(D) : i <= D[k].at /\ xs[i] <= D[k].value
  BY LenProperties DEF DequeKeeps
<1> DEFINE j == D[1].at
<1>3. \A i \in m .. n : i \in 1 .. n /\ n < i + p
  BY <1>1
<1>4. 1 \in 1 .. Len(D)
  BY <1>1, <1>2, <1>3
<1>5. j \in m .. n /\ xs[j] = D[1].value /\ xs[j] \in Int
  BY <1>1, <1>2, <1>4
<1>6. ASSUME NEW i \in m .. n PROVE xs[i] <= xs[j]
  <2>1. PICK k \in 1 .. Len(D) : xs[i] <= D[k].value
    BY <1>2, <1>3
  <2>2. D[k].value \in Int /\ D[k].value <= D[1].value
    <3>1. D[k].value \in Int
      BY <1>1, <1>2
    <3>2. k = 1 \/ 1 < k
      BY <1>2
    <3> QED BY <1>2, <1>4, <1>5, <3>1, <3>2
  <2>3. xs[i] \in Int
    BY <1>1, <1>3
  <2> QED BY <1>5, <2>1, <2>2, <2>3
<1> HIDE DEF j
<1>7. Highest(xs, m, n) = xs[j]
  <2>1. m \in Int /\ n \in Int /\ \A i \in m .. n : xs[i] \in Int
    BY <1>1, <1>3
  <2>2. j \in m .. n /\ \A i \in m .. n : xs[i] <= xs[j]
    BY <1>5, <1>6
  <2> HIDE DEF m, n
  <2> QED BY <2>1, <2>2, HighestIs
<1> QED BY <1>5, <1>7

\* The state after the inputs xs.  The squares, of which there are p at most, are those
\* of the last inputs.
SquaresKeep(squares, p, xs) ==
    /\ squares \in Ints
    /\ Len(squares) = IF Len(xs) < p THEN 0
                      ELSE IF Len(xs) - p + 1 < p THEN Len(xs) - p + 1 ELSE p
    /\ \A j \in 1 .. Len(squares) :
           squares[j] = SquareAt(xs, p, (Len(xs) - Len(squares)) + j)

UlcerKeeps(s, p, xs) ==
    /\ DOMAIN s = {"period", "count", "deque", "squares", "sum", "last"}
    /\ s.period = p /\ s.count = Len(xs)
    /\ DequeKeeps(s.deque, Len(xs), p, xs)
    /\ SquaresKeep(s.squares, p, xs)
    /\ s.sum = Added(s.squares)
    /\ s.last = IF Len(xs) < 2 * p - 1 THEN None ELSE Some(s.sum)

LEMMA UlcerStarts ==
    ASSUME NEW p \in Nat \ {0}
    PROVE  UlcerKeeps(NewUlcer(p), p, <<>>)
<1> DEFINE s == NewUlcer(p)
<1>1. <<>> \in Ints /\ Len(<<>>) = 0 /\ Added(<<>>) = 0 /\ <<>> \in Seq(Entry)
  BY NoneIsInts
<1>2. /\ DOMAIN s = {"period", "count", "deque", "squares", "sum", "last"}
      /\ s.period = p /\ s.count = 0 /\ s.deque = <<>> /\ s.squares = <<>> /\ s.sum = 0
      /\ s.last = None
  BY DEF NewUlcer, None
<1>3. 0 < p /\ 0 < 2 * p - 1 /\ 1 .. 0 = {}
  OBVIOUS
<1> HIDE DEF s
<1>4. DequeKeeps(<<>>, 0, p, <<>>)
  BY <1>1, <1>3 DEF DequeKeeps
<1>5. SquaresKeep(<<>>, p, <<>>)
  BY <1>1, <1>3 DEF SquaresKeep
<1> QED BY <1>1, <1>2, <1>3, <1>4, <1>5 DEF UlcerKeeps, s

LEMMA SquaresSlide ==
    ASSUME NEW p \in Nat \ {0}, NEW xs \in Ints, NEW x \in Int, p <= Len(xs) + 1,
           NEW squares, SquaresKeep(squares, p, xs),
           NEW square, square = SquareAt(Append(xs, x), p, Len(xs) + 1)
    PROVE  square \in Int /\ SquaresKeep(Slid(squares, p, square), p, Append(xs, x))
<1> DEFINE n == Len(xs)
           m == Len(squares)
           ys == Append(xs, x)
           r == Slid(squares, p, square)
<1>1. n \in Nat /\ ys \in Ints /\ Len(ys) = n + 1
  BY IntsFacts, IntsGrow
<1>2. /\ squares \in Ints /\ m \in Nat
      /\ m = IF n < p THEN 0 ELSE IF n - p + 1 < p THEN n - p + 1 ELSE p
      /\ \A j \in 1 .. m : squares[j] = SquareAt(xs, p, (n - m) + j)
  BY IntsFacts DEF SquaresKeep
<1>3. square \in Int
  <2>1. n + 1 \in p .. Len(ys)
    BY <1>1
  <2> HIDE DEF ys
  <2>2. SquareAt(ys, p, n + 1) \in Int
    BY <1>1, <2>1, SquareAtIs
  <2> QED BY <2>2 DEF ys
<1>4. m <= p /\ n - m + 1 >= p /\ m <= n
  BY <1>1, <1>2
<1>5. \A j \in 1 .. m : squares[j] = SquareAt(ys, p, (n - m) + j)
  <2> SUFFICES ASSUME NEW j \in 1 .. m PROVE squares[j] = SquareAt(ys, p, (n - m) + j)
    OBVIOUS
  <2>1. (n - m) + j \in p .. n
    BY <1>1, <1>2, <1>4
  <2>2. SquareAt(ys, p, (n - m) + j) = SquareAt(xs, p, (n - m) + j)
    BY <2>1, SquareAtIs
  <2> QED BY <1>2, <2>2
<1> HIDE DEF r, m, n, ys
<1>6. r \in Ints /\ Len(r) = IF m = p THEN p ELSE m + 1
  BY <1>2, <1>3, <1>4, SlidFacts DEF r, m
<1>7. /\ m = p => /\ \A i \in 1 .. p - 1 : r[i] = squares[i + 1]
                  /\ r[p] = square
      /\ m < p => /\ \A i \in 1 .. m : r[i] = squares[i]
                  /\ r[m + 1] = square
  BY <1>2, <1>3, <1>4, SlidAt DEF r, m
<1>8. Len(r) = IF n + 1 < p THEN 0 ELSE IF (n + 1) - p + 1 < p THEN (n + 1) - p + 1 ELSE p
  BY <1>1, <1>2, <1>4, <1>6 DEF n
<1>9. square = SquareAt(ys, p, n + 1)
  BY DEF ys, n
<1>10. ASSUME NEW j \in 1 .. Len(r)
       PROVE  r[j] = SquareAt(ys, p, ((n + 1) - Len(r)) + j)
  <2>1. CASE m = p
    <3>1. Len(r) = p
      BY <1>6, <2>1
    <3>2. CASE j = p
      <4>1. ((n + 1) - p) + p = n + 1
        BY <1>1
      <4> QED BY <1>7, <1>9, <2>1, <3>1, <3>2, <4>1
    <3>3. CASE j # p
      <4>1. j \in 1 .. p - 1 /\ j + 1 \in 1 .. m /\ (n - m) + (j + 1) = ((n + 1) - p) + j
        BY <1>1, <1>2, <2>1, <3>1, <3>3
      <4> QED BY <1>5, <1>7, <2>1, <3>1, <4>1
    <3> QED BY <3>2, <3>3
  <2>2. CASE m # p
    <3>1. Len(r) = m + 1 /\ m < p
      BY <1>2, <1>4, <1>6, <2>2
    <3>2. CASE j = m + 1
      <4>1. ((n + 1) - (m + 1)) + (m + 1) = n + 1
        BY <1>1, <1>2
      <4> QED BY <1>7, <1>9, <3>1, <3>2, <4>1
    <3>3. CASE j # m + 1
      <4>1. j \in 1 .. m /\ (n - m) + j = ((n + 1) - (m + 1)) + j
        BY <1>1, <1>2, <3>1, <3>3
      <4> QED BY <1>5, <1>7, <3>1, <4>1
    <3> QED BY <3>2, <3>3
  <2> QED BY <2>1, <2>2
<1>11. SquaresKeep(r, p, ys)
  BY <1>1, <1>6, <1>8, <1>10 DEF SquaresKeep
<1> QED BY <1>3, <1>11 DEF r, ys

LEMMA UlcerGrows ==
    ASSUME NEW p \in Nat \ {0}, NEW xs \in Ints, NEW x \in Int, NEW s, UlcerKeeps(s, p, xs)
    PROVE  UlcerKeeps(UlcerUpdated(s, x), p, Append(xs, x))
<1> DEFINE n == Len(xs)
           ys == Append(xs, x)
           deque == TrailingPeaks(s, x)
           square == SquaredDrawdown(deque[1].value, x)
           full == Len(s.squares) = s.period
           sum == s.sum - (IF full THEN Head(s.squares) ELSE 0) + square
           squares == Append(IF full THEN Tail(s.squares) ELSE s.squares, square)
           moved == [s EXCEPT !.count = @ + 1, !.deque = deque]
           begun == [moved EXCEPT !.squares = squares, !.sum = sum,
                                  !.last = IF Len(squares) < s.period THEN @ ELSE <<sum>>]
           t == UlcerUpdated(s, x)
           fields == {"period", "count", "deque", "squares", "sum", "last"}
<1>1. /\ DOMAIN s = fields /\ s.period = p /\ s.count = n
      /\ DequeKeeps(s.deque, n, p, xs) /\ SquaresKeep(s.squares, p, xs)
      /\ s.sum = Added(s.squares)
      /\ s.last = IF n < 2 * p - 1 THEN None ELSE Some(s.sum)
  BY DEF UlcerKeeps
<1>2. n \in Nat /\ ys \in Ints /\ Len(ys) = n + 1 /\ ys[n + 1] = x
  BY IntsFacts, IntsGrow
<1>3. t = IF moved.count < s.period THEN moved ELSE begun
  <2>1. begun = [moved EXCEPT !.squares = squares, !.sum = sum,
                              !.last = IF Len(squares) < s.period THEN @ ELSE <<sum>>]
    OBVIOUS
  <2>2. squares = Append(IF Len(s.squares) = s.period THEN Tail(s.squares) ELSE s.squares,
                         square)
    OBVIOUS
  <2> QED BY DEF UlcerUpdated
<1>4. squares = Slid(s.squares, p, square)
  BY <1>1 DEF Slid
<1> HIDE DEF t
<1>5. DequeKeeps(deque, n + 1, p, ys)
  <2> HIDE DEF deque
  <2> QED BY <1>1, PeaksKeep DEF deque
<1> HIDE DEF deque, squares, square, sum
<1>6. /\ DOMAIN moved = fields /\ moved.period = p /\ moved.count = n + 1
      /\ moved.deque = deque /\ moved.squares = s.squares /\ moved.sum = s.sum
      /\ moved.last = s.last
  BY <1>1
<1> HIDE DEF moved
<1>7. /\ DOMAIN begun = fields /\ begun.period = p /\ begun.count = n + 1
      /\ begun.deque = deque /\ begun.squares = squares /\ begun.sum = sum
      /\ begun.last = IF Len(squares) < p THEN s.last ELSE <<sum>>
  BY <1>1, <1>6
<1> HIDE DEF begun, ys, n
<1>8. CASE n + 1 < p
  <2>1. t = moved
    BY <1>1, <1>3, <1>6, <1>8
  <2>2. SquaresKeep(s.squares, p, ys)
    <3>1. s.squares \in Ints /\ Len(s.squares) = 0
      BY <1>1, <1>2, <1>8 DEF SquaresKeep, n
    <3> QED BY <1>2, <1>8, <3>1 DEF SquaresKeep
  <2>3. n < 2 * p - 1 /\ n + 1 < 2 * p - 1
    BY <1>2, <1>8
  <2> QED BY <1>1, <1>2, <1>5, <1>6, <2>1, <2>2, <2>3 DEF UlcerKeeps, t, ys
<1>9. CASE ~(n + 1 < p)
  <2>1. t = begun
    BY <1>1, <1>3, <1>6, <1>9
  <2>2. square = SquareAt(ys, p, n + 1)
    <3>1. p <= Len(ys)
      BY <1>2, <1>9
    <3>2. deque[1].value = Highest(ys, (n + 1) - p + 1, n + 1)
      BY <1>2, <1>5, <3>1, FirstIsPeak
    <3> QED BY <1>2, <3>2 DEF square, SquareAt
  <2>3. square \in Int /\ SquaresKeep(squares, p, ys)
    <3>1. p <= n + 1
      BY <1>2, <1>9
    <3> QED BY <1>1, <1>4, <2>2, <3>1, SquaresSlide DEF ys, n
  <2>4. /\ s.squares \in Ints /\ Len(s.squares) \in Nat
        /\ Len(s.squares) = IF n < p THEN 0 ELSE IF n - p + 1 < p THEN n - p + 1 ELSE p
    BY <1>1, IntsFacts DEF SquaresKeep, n
  <2>5. Len(s.squares) <= p
    BY <1>2, <2>4
  <2>6. Added(squares) = Added(s.squares) - (IF Len(s.squares) = p THEN s.squares[1] ELSE 0)
                         + square
    BY <1>4, <2>3, <2>4, <2>5, SlidSum
  <2>7. Len(s.squares) = p => Head(s.squares) = s.squares[1]
    <3>1. Len(s.squares) = p => s.squares # <<>>
      BY <2>4, IntsFacts
    <3> QED BY <2>4, <3>1, TailOfInts
  <2>8. sum = Added(squares)
    BY <1>1, <2>6, <2>7 DEF sum
  <2>9. Len(squares) = IF (n + 1) - p + 1 < p THEN (n + 1) - p + 1 ELSE p
    BY <1>2, <1>9, <2>3 DEF SquaresKeep
  <2>10. begun.last = IF n + 1 < 2 * p - 1 THEN None ELSE Some(sum)
    <3>1. CASE n + 1 < 2 * p - 1
      <4>1. Len(squares) < p /\ n < 2 * p - 1
        BY <1>2, <2>9, <3>1
      <4> QED BY <1>1, <1>7, <3>1, <4>1
    <3>2. CASE ~(n + 1 < 2 * p - 1)
      <4>1. ~(Len(squares) < p)
        BY <1>2, <2>9, <3>2
      <4> QED BY <1>7, <3>2, <4>1 DEF Some
    <3> QED BY <3>1, <3>2
  <2> QED BY <1>2, <1>5, <1>7, <2>1, <2>3, <2>8, <2>10 DEF UlcerKeeps, t, ys
<1> QED BY <1>8, <1>9

\* What it answers.
LEMMA UlcerGives ==
    ASSUME NEW p \in Nat \ {0}, NEW xs \in Ints, NEW s, UlcerKeeps(s, p, xs),
           ~(Len(xs) < 2 * p - 1)
    PROVE  s.last = Some(SumOfSquares(xs, p)) /\ SumOfSquares(xs, p) \in Int
<1> DEFINE n == Len(xs)
           q == s.squares
           square(t) == SquaredDrawdown(Max({xs[i] : i \in t - p + 1 .. t}), xs[t])
           r == [j \in 1 .. p |-> square(n - p + j)]
<1>1. /\ s.last = Some(s.sum) /\ s.sum = Added(q) /\ SquaresKeep(q, p, xs)
  BY DEF UlcerKeeps
<1>2. n \in Nat /\ ~(n < 2 * p - 1)
  BY IntsFacts
<1>3. /\ q \in Ints /\ Len(q) = IF n < p THEN 0 ELSE IF n - p + 1 < p THEN n - p + 1 ELSE p
      /\ \A j \in 1 .. Len(q) : q[j] = SquareAt(xs, p, (n - Len(q)) + j)
  BY <1>1 DEF SquaresKeep
<1>4. Len(q) = p
  BY <1>2, <1>3
<1>5. \A t : square(t) = SquareAt(xs, p, t)
  BY DEF SquareAt, Highest
<1> HIDE DEF square
<1>6. DOMAIN r = 1 .. p /\ \A j \in 1 .. p : r[j] = SquareAt(xs, p, n - p + j)
  BY <1>5
<1>7. SumOfSquares(xs, p) = Added(r)
  BY DEF SumOfSquares, Added, square
<1> HIDE DEF r
<1>8. \A j \in 1 .. p : q[j] = r[j]
  <2> SUFFICES ASSUME NEW j \in 1 .. p PROVE q[j] = r[j]
    OBVIOUS
  <2>1. (n - p) + j = n - p + j
    BY <1>2
  <2> QED BY <1>3, <1>4, <1>6, <2>1
<1> HIDE DEF q, n
<1>9. IsList(q, p)
  <2>1. DOMAIN q = 1 .. Len(q) /\ \A j \in 1 .. Len(q) : q[j] \in Int
    BY <1>3, IntsFacts
  <2> QED BY <1>4, <2>1 DEF IsList
<1>10. IsList(r, p)
  BY <1>6, <1>8, <1>9 DEF IsList
<1>11. Added(q) = Added(r) /\ Added(q) \in Int
  BY <1>8, <1>9, <1>10, SumSame, SumIsInt
<1> QED BY <1>1, <1>7, <1>11

-----------------------------------------------------------------------------
(* MaxDrawdown: the drawdowns of a part of a list. *)

\* Below the peak of the values from m on.
FallAt(xs, m, t) == Drawdown(Highest(xs, m, t), xs[t])
Falls(xs, m, n) == [t \in m .. n |-> FallAt(xs, m, t)]
Deep(xs, m, n) == Highest(Falls(xs, m, n), m, n)

LEMMA FallFacts ==
    ASSUME NEW m \in Int, NEW n \in Int, NEW xs, \A i \in m .. n : xs[i] \in Int,
           NEW t \in m .. n
    PROVE  /\ FallAt(xs, m, t) \in Int /\ 0 <= FallAt(xs, m, t)
           /\ Falls(xs, m, n)[t] = FallAt(xs, m, t)
<1>1. t \in Int /\ m <= t /\ \A i \in m .. t : xs[i] \in Int
  OBVIOUS
<1>2. Highest(xs, m, t) \in Int /\ xs[t] <= Highest(xs, m, t) /\ xs[t] \in Int
  <2>1. t \in m .. t
    BY <1>1
  <2>2. Highest(xs, m, t) \in Int /\ \A i \in m .. t : xs[i] <= Highest(xs, m, t)
    BY <1>1, HighestFacts
  <2> QED BY <2>1, <2>2
<1> QED BY <1>2, DrawdownFacts DEF FallAt, Falls

LEMMA DeepFacts ==
    ASSUME NEW m \in Int, NEW n \in Int, m <= n, NEW xs, \A i \in m .. n : xs[i] \in Int
    PROVE  /\ Deep(xs, m, n) \in Int /\ 0 <= Deep(xs, m, n)
           /\ \E k \in m .. n : Deep(xs, m, n) = FallAt(xs, m, k)
           /\ \A t \in m .. n : FallAt(xs, m, t) <= Deep(xs, m, n)
<1> DEFINE ds == Falls(xs, m, n)
<1>1. \A t \in m .. n : /\ ds[t] = FallAt(xs, m, t) /\ ds[t] \in Int
                        /\ 0 <= FallAt(xs, m, t)
  BY FallFacts
<1> HIDE DEF ds
<1>2. /\ Highest(ds, m, n) \in Int
      /\ \E k \in m .. n : Highest(ds, m, n) = ds[k]
      /\ \A t \in m .. n : ds[t] <= Highest(ds, m, n)
  BY <1>1, HighestFacts
<1>3. Deep(xs, m, n) = Highest(ds, m, n)
  BY DEF Deep, ds
<1> QED BY <1>1, <1>2, <1>3

LEMMA DeepIs ==
    ASSUME NEW m \in Int, NEW n \in Int, NEW xs, \A i \in m .. n : xs[i] \in Int,
           NEW k \in m .. n, NEW v, v = FallAt(xs, m, k),
           \A t \in m .. n : FallAt(xs, m, t) <= v
    PROVE  Deep(xs, m, n) = v
<1> DEFINE ds == Falls(xs, m, n)
<1>1. \A t \in m .. n : ds[t] = FallAt(xs, m, t) /\ ds[t] \in Int
  BY FallFacts
<1> HIDE DEF ds
<1>2. ds[k] = v /\ \A t \in m .. n : ds[t] <= ds[k]
  BY <1>1
<1>3. Highest(ds, m, n) = ds[k]
  BY <1>1, <1>2, HighestIs
<1> QED BY <1>2, <1>3 DEF Deep, ds

\* The same values elsewhere.
Shifted(ys, m, n, xs, d) == \A i \in m .. n : ys[i] = xs[i + d]

LEMMA DeepMoved ==
    ASSUME NEW m \in Int, NEW n \in Int, NEW d \in Int, NEW xs, NEW ys,
           Shifted(ys, m, n, xs, d)
    PROVE  /\ Highest(ys, m, n) = Highest(xs, m + d, n + d)
           /\ Deep(ys, m, n) = Deep(xs, m + d, n + d)
<1>0. \A i \in m .. n : ys[i] = xs[i + d]
  BY DEF Shifted
<1>1. ASSUME NEW t \in Int, t <= n
      PROVE  Highest(ys, m, t) = Highest(xs, m + d, t + d)
  <2>1. \A v : v \in {ys[i] : i \in m .. t} <=> v \in {xs[i] : i \in m + d .. t + d}
    <3> SUFFICES ASSUME NEW v
                 PROVE  (\E i \in m .. t : v = ys[i]) <=> (\E i \in m + d .. t + d : v = xs[i])
      OBVIOUS
    <3>1. ASSUME NEW i \in m .. t, v = ys[i] PROVE \E j \in m + d .. t + d : v = xs[j]
      <4>1. i + d \in m + d .. t + d /\ i \in m .. n
        BY <1>1
      <4> QED BY <1>0, <3>1, <4>1
    <3>2. ASSUME NEW j \in m + d .. t + d, v = xs[j] PROVE \E i \in m .. t : v = ys[i]
      <4>1. j - d \in m .. t /\ j - d \in m .. n /\ (j - d) + d = j
        BY <1>1
      <4> QED BY <1>0, <3>2, <4>1
    <3> QED BY <3>1, <3>2
  <2>2. {ys[i] : i \in m .. t} = {xs[i] : i \in m + d .. t + d}
    BY <2>1
  <2> QED BY <2>2 DEF Highest
<1>2. Highest(ys, m, n) = Highest(xs, m + d, n + d)
  BY <1>1
<1>3. \A t \in m .. n : FallAt(ys, m, t) = FallAt(xs, m + d, t + d)
  <2> SUFFICES ASSUME NEW t \in m .. n PROVE FallAt(ys, m, t) = FallAt(xs, m + d, t + d)
    OBVIOUS
  <2>1. Highest(ys, m, t) = Highest(xs, m + d, t + d)
    BY <1>1
  <2> QED BY <1>0, <2>1 DEF FallAt
<1>4. \A v : v \in {Falls(ys, m, n)[t] : t \in m .. n}
             <=> v \in {Falls(xs, m + d, n + d)[t] : t \in m + d .. n + d}
  <2>1. \A t \in m .. n : Falls(ys, m, n)[t] = FallAt(ys, m, t)
    BY DEF Falls
  <2>2. \A t \in m + d .. n + d : Falls(xs, m + d, n + d)[t] = FallAt(xs, m + d, t)
    BY DEF Falls
  <2>3. \A t \in m .. n : t + d \in m + d .. n + d
    OBVIOUS
  <2>4. \A t \in m + d .. n + d : t - d \in m .. n /\ (t - d) + d = t
    OBVIOUS
  <2>5. \A t \in m .. n : Falls(ys, m, n)[t] = Falls(xs, m + d, n + d)[t + d]
    BY <1>3, <2>1, <2>2, <2>3
  <2> QED BY <2>3, <2>4, <2>5
<1>5. {Falls(ys, m, n)[t] : t \in m .. n}
      = {Falls(xs, m + d, n + d)[t] : t \in m + d .. n + d}
  BY <1>4
<1>6. Deep(ys, m, n) = Deep(xs, m + d, n + d)
  BY <1>5 DEF Deep, Highest
<1> QED BY <1>2, <1>6

\* A whole list.
LEMMA DeepOfAll ==
    ASSUME NEW xs \in Ints
    PROVE  /\ \A t : Peak(xs, t) = Highest(xs, 1, t)
           /\ DeepestDecline(xs) = Deep(xs, 1, Len(xs))
<1>1. \A t : Peak(xs, t) = Highest(xs, 1, t)
  BY DEF Peak, Highest
<1>2. DOMAIN xs = 1 .. Len(xs)
  BY IntsFacts
<1>3. \A t \in 1 .. Len(xs) : Falls(xs, 1, Len(xs))[t] = Drawdown(Peak(xs, t), xs[t])
  BY <1>1 DEF Falls, FallAt
<1>4. {Drawdown(Peak(xs, t), xs[t]) : t \in DOMAIN xs}
      = {Falls(xs, 1, Len(xs))[t] : t \in 1 .. Len(xs)}
  BY <1>2, <1>3
<1> QED BY <1>1, <1>4 DEF DeepestDecline, Deep, Highest

\* One value in front of a part.  Up to where the value is the peak, and behind that.
HeadsRun(xs, m, c, n) ==
    /\ \A i \in m .. n : xs[i] \in Int
    /\ \A i \in m .. c - 1 : i <= n => xs[i] <= xs[m]
    /\ c <= n => xs[m] < xs[c]

HighestBehind(xs, m, c, n) ==
    /\ \A t \in m .. c - 1 : t <= n => Highest(xs, m, t) = xs[m]
    /\ \A t \in c .. n : Highest(xs, m, t) = Highest(xs, c, t)

LEMMA HighestInFront ==
    ASSUME NEW m \in Int, NEW c \in Int, m < c, NEW n \in Int, NEW xs,
           HeadsRun(xs, m, c, n)
    PROVE  HighestBehind(xs, m, c, n)
<1>0. /\ \A i \in m .. n : xs[i] \in Int
      /\ \A i \in m .. c - 1 : i <= n => xs[i] <= xs[m]
      /\ c <= n => xs[m] < xs[c]
  BY DEF HeadsRun
<1>1. ASSUME NEW t \in m .. c - 1, t <= n PROVE Highest(xs, m, t) = xs[m]
  <2>1. /\ t \in Int /\ m \in m .. t /\ \A i \in m .. t : xs[i] \in Int /\ xs[i] <= xs[m]
    BY <1>0, <1>1
  <2> QED BY <2>1, HighestIs
<1>2. ASSUME NEW t \in c .. n PROVE Highest(xs, m, t) = Highest(xs, c, t)
  <2>1. t \in Int /\ c <= t /\ \A i \in c .. t : xs[i] \in Int
    BY <1>0
  <2>2. PICK k \in c .. t : Highest(xs, c, t) = xs[k]
    BY <2>1, HighestFacts
  <2>3. \A i \in c .. t : xs[i] <= xs[k]
    BY <2>1, <2>2, HighestFacts
  <2>4. xs[c] <= xs[k] /\ xs[m] < xs[c] /\ xs[m] \in Int /\ xs[c] \in Int /\ xs[k] \in Int
    BY <1>0, <2>1, <2>3
  <2>5. /\ \A i \in m .. t : xs[i] \in Int /\ xs[i] <= xs[k]
        /\ k \in m .. t
    <3> SUFFICES ASSUME NEW i \in m .. t PROVE xs[i] \in Int /\ xs[i] <= xs[k]
      OBVIOUS
    <3>1. i \in m .. n /\ xs[i] \in Int
      BY <1>0
    <3>2. CASE i < c
      <4>1. xs[i] <= xs[m]
        BY <1>0, <3>1, <3>2
      <4> QED BY <2>4, <3>1, <4>1
    <3>3. CASE ~(i < c)
      <4>1. i \in c .. t
        BY <3>3
      <4> QED BY <2>3, <3>1, <4>1
    <3> QED BY <3>2, <3>3
  <2>6. Highest(xs, m, t) = xs[k]
    BY <2>1, <2>5, HighestIs
  <2> QED BY <2>2, <2>6
<1> QED BY <1>1, <1>2 DEF HighestBehind

-----------------------------------------------------------------------------
(* refill_front: the walk, newest value first. *)

NewWalk == [scratch |-> <<>>, peak |-> Bottom, front |-> <<>>]
Walked(zs) == FoldRight(Walk, zs, NewWalk)

\* The walk over the newest k values, for every k.
AreWalked(V, zs, N) ==
    /\ V[0] = NewWalk /\ V[N] = Walked(zs)
    /\ \A k \in 0 .. N - 1 : V[k + 1] = Walk(zs[N - k], V[k])

LEMMA WalkedExist ==
    ASSUME NEW N \in Nat, NEW zs, DOMAIN zs = 1 .. N
    PROVE  \E V : AreWalked(V, zs, N)
<1> DEFINE Next1(g, s) == IF s = {} THEN NewWalk ELSE Walk(zs[Min(s)], g[s \ {Min(s)}])
           Range1(k) == (N + 1) - k .. N
           Upto(g, k) == g = [s \in SUBSET Range1(k) |-> Next1(g, s)]
           S == {k \in Nat : \E g : Upto(g, k)}
<1>0. \A s \in SUBSET Int : \A i \in Int : s # {} /\ (\A y \in s : i <= y) =>
          Min(s) \in s /\ \A y \in s : Min(s) <= y
  BY MinOf
<1>1. 0 \in S
  <2> DEFINE g == [s \in SUBSET Range1(0) |-> NewWalk]
  <2>1. g = [s \in SUBSET Range1(0) |-> g[s]]
    OBVIOUS
  <2>2. \A s \in SUBSET Range1(0) : s = {} /\ g[s] = NewWalk
    <3>1. Range1(0) = {}
      OBVIOUS
    <3> QED BY <3>1
  <2> HIDE DEF g, Range1
  <2>3. Upto(g, 0)
    BY <2>1, <2>2, Zenon
  <2> HIDE DEF Upto
  <2> QED BY <2>3
<1>2. \A k \in Nat : k \in S => k + 1 \in S
  <2> SUFFICES ASSUME NEW k \in Nat, k \in S PROVE k + 1 \in S
    OBVIOUS
  <2>1. PICK g : Upto(g, k)
    OBVIOUS
  <2> DEFINE e == N - k
             h == [s \in SUBSET Range1(k + 1) |->
                      IF e \in s THEN Walk(zs[e], g[s \ {e}]) ELSE g[s]]
  <2>2. h = [s \in SUBSET Range1(k + 1) |-> h[s]]
    OBVIOUS
  <2>0. /\ e \in Int /\ Range1(k + 1) \in SUBSET Int
        /\ \A y \in Range1(k + 1) : e <= y
        /\ \A y : y \in Range1(k) => y \in Range1(k + 1) /\ ~(y = e)
        /\ \A y : y \in Range1(k + 1) /\ ~(y = e) => y \in Range1(k)
    OBVIOUS
  <2> HIDE DEF Range1, e
  <2>3. \A s \in SUBSET Range1(k) : s \in SUBSET Range1(k + 1) /\ ~(e \in s)
    BY <2>0
  <2>4. \A s \in SUBSET Range1(k) : h[s] = g[s]
    BY <2>3
  <2>5. \A s \in SUBSET Range1(k + 1) : e \in s => h[s] = Walk(zs[e], g[s \ {e}])
    OBVIOUS
  <2> HIDE DEF h
  <2>6. ASSUME NEW s \in SUBSET Range1(k + 1) PROVE h[s] = Next1(h, s)
    <3>1. CASE e \in s
      <4>1. Min(s) \in s /\ \A y \in s : Min(s) <= y
        <5>1. s \in SUBSET Int /\ s # {} /\ \A y \in s : e <= y
          BY <2>0, <3>1
        <5> QED BY <1>0, <2>0, <5>1
      <4>2. Min(s) = e
        <5>1. Min(s) \in Int /\ e <= Min(s) /\ Min(s) <= e
          BY <2>0, <3>1, <4>1
        <5> QED BY <2>0, <5>1
      <4>3. s \ {e} \in SUBSET Range1(k)
        BY <2>0
      <4>4. h[s] = Walk(zs[e], h[s \ {e}])
        BY <2>4, <2>5, <3>1, <4>3
      <4>5. s # {}
        BY <3>1
      <4> QED BY <4>2, <4>4, <4>5
    <3>2. CASE ~(e \in s)
      <4>1. s \in SUBSET Range1(k)
        BY <2>0, <3>2
      <4>2. h[s] = g[s] /\ g[s] = Next1(g, s)
        BY <2>1, <2>4, <4>1
      <4>3. CASE s = {}
        BY <4>2, <4>3
      <4>4. CASE s # {}
        <5>1. s \ {Min(s)} \in SUBSET Range1(k)
          BY <4>1
        <5>2. h[s \ {Min(s)}] = g[s \ {Min(s)}]
          BY <2>4, <5>1
        <5> QED BY <4>2, <4>4, <5>2
      <4> QED BY <4>3, <4>4
    <3> QED BY <3>1, <3>2
  <2>7. Upto(h, k + 1)
    <3> HIDE DEF Next1
    <3> QED BY <2>2, <2>6, Zenon
  <2>8. k + 1 \in Nat
    OBVIOUS
  <2> HIDE DEF Upto
  <2> QED BY <2>7, <2>8
<1> HIDE DEF S
<1>3. N \in S
  BY <1>1, <1>2, SetInduction
<1> DEFINE Is(g) == g = [s \in SUBSET DOMAIN zs |-> Next1(g, s)]
           iter == CHOOSE g : Is(g)
<1>4. \E g : Is(g)
  <2>1. PICK g : Upto(g, N)
    <3> HIDE DEF Upto
    <3> QED BY <1>3 DEF S
  <2>2. Is(g)
    <3> HIDE DEF Next1
    <3>0. Range1(N) = 1 .. N
      OBVIOUS
    <3>1. g = [s \in SUBSET (1 .. N) |-> Next1(g, s)]
      BY <2>1, <3>0
    <3> QED BY <3>1
  <2> HIDE DEF Is
  <2> QED BY <2>2
<1>5. Is(iter)
  <2> HIDE DEF Is
  <2> QED BY <1>4
<1>6. Walked(zs) = iter[1 .. N]
  <2>1. Walked(zs) = (CHOOSE g : g = [s \in SUBSET DOMAIN zs |->
             IF s = {} THEN NewWalk ELSE Walk(zs[Min(s)], g[s \ {Min(s)}])])[DOMAIN zs]
    BY DEF Walked, FoldRight, MapThenFoldSet
  <2> QED BY <2>1
<1> HIDE DEF iter
<1>7. \A s \in SUBSET (1 .. N) : iter[s] = Next1(iter, s)
  <2> HIDE DEF Next1
  <2> QED BY <1>5
<1> DEFINE V == [k \in 0 .. N |-> iter[(N + 1) - k .. N]]
<1>8. V[0] = NewWalk /\ V[N] = Walked(zs)
  <2>1. /\ (N + 1) - 0 .. N = {} /\ (N + 1) - N .. N = 1 .. N
        /\ {} \in SUBSET (1 .. N) /\ 0 \in 0 .. N /\ N \in 0 .. N
    OBVIOUS
  <2>2. iter[{}] = NewWalk
    BY <1>7, <2>1
  <2> QED BY <1>6, <2>1, <2>2
<1>9. \A k \in 0 .. N - 1 : V[k + 1] = Walk(zs[N - k], V[k])
  <2> SUFFICES ASSUME NEW k \in 0 .. N - 1 PROVE V[k + 1] = Walk(zs[N - k], V[k])
    OBVIOUS
  <2> DEFINE s == N - k .. N
             e == N - k
  <2>1. /\ s \in SUBSET (1 .. N) /\ s # {} /\ e \in s /\ e \in Int
        /\ s \in SUBSET Int /\ \A y \in s : e <= y
        /\ s \ {e} = (N + 1) - k .. N /\ (N + 1) - (k + 1) .. N = s
        /\ k \in 0 .. N /\ k + 1 \in 0 .. N
    OBVIOUS
  <2>2. V[k + 1] = iter[s] /\ V[k] = iter[s \ {e}]
    BY <2>1
  <2> HIDE DEF s, e, V
  <2>3. Min(s) = e
    BY <2>1, MinIs
  <2>4. iter[s] = Walk(zs[e], iter[s \ {e}])
    BY <1>7, <2>1, <2>3
  <2> QED BY <2>2, <2>4 DEF e
<1> HIDE DEF V
<1>10. AreWalked(V, zs, N)
  BY <1>8, <1>9 DEF AreWalked
<1> QED BY <1>10

\* The deepest decline of a run below its first value, and of what follows it.
LowestOfRun(zs, a, c, N, l) ==
    /\ a < c /\ c <= N + 1 /\ l \in a .. c - 1
    /\ \A i \in a .. N : zs[i] \in Int
    /\ \A i \in a .. c - 1 : zs[i] <= zs[a] /\ zs[l] <= zs[i]
    /\ c <= N => zs[a] < zs[c]

LEMMA DeepOfRun ==
    ASSUME NEW a \in Int, NEW c \in Int, NEW N \in Int, NEW zs, NEW l,
           LowestOfRun(zs, a, c, N, l)
    PROVE  Deep(zs, a, N) = Larger(IF N < c THEN 0 ELSE Deep(zs, c, N), Drawdown(zs[a], zs[l]))
<1> DEFINE low == zs[l]
           d == Drawdown(zs[a], low)
           e == IF N < c THEN 0 ELSE Deep(zs, c, N)
<1>0. /\ a < c /\ c <= N + 1 /\ l \in a .. c - 1
      /\ \A i \in a .. N : zs[i] \in Int
      /\ \A i \in a .. c - 1 : zs[i] <= zs[a] /\ zs[l] <= zs[i]
      /\ c <= N => zs[a] < zs[c]
  BY DEF LowestOfRun
<1>1. /\ \A t \in a .. c - 1 : t \in a .. N /\ t <= N
      /\ \A t \in c .. N : t \in a .. N
      /\ \A t \in a .. N : t \in a .. c - 1 \/ t \in c .. N
      /\ a \in a .. c - 1
  BY <1>0
<1>2. /\ \A t \in a .. c - 1 : Highest(zs, a, t) = zs[a]
      /\ \A t \in c .. N : Highest(zs, a, t) = Highest(zs, c, t)
  <2>1. HeadsRun(zs, a, c, N)
    BY <1>0 DEF HeadsRun
  <2>2. /\ \A t \in a .. c - 1 : t <= N => Highest(zs, a, t) = zs[a]
        /\ \A t \in c .. N : Highest(zs, a, t) = Highest(zs, c, t)
    BY <1>0, <2>1, HighestInFront DEF HighestBehind
  <2> QED BY <1>1, <2>2
<1>3. \A t \in a .. c - 1 : FallAt(zs, a, t) = Drawdown(zs[a], zs[t])
  BY <1>2 DEF FallAt
<1>4. \A t \in c .. N : FallAt(zs, a, t) = FallAt(zs, c, t)
  BY <1>2 DEF FallAt
<1>5. zs[a] \in Int /\ low \in Int /\ low <= zs[a]
  BY <1>0, <1>1
<1> HIDE DEF low
<1>6. d \in Int /\ 0 <= d
  BY <1>5, DrawdownFacts
<1>7. \A t \in a .. c - 1 : FallAt(zs, a, t) <= d
  <2> SUFFICES ASSUME NEW t \in a .. c - 1 PROVE Drawdown(zs[a], zs[t]) <= d
    BY <1>3
  <2>1. zs[t] \in Int /\ low <= zs[t]
    BY <1>0, <1>1 DEF low
  <2> QED BY <1>5, <2>1, DrawdownFacts
<1>8. FallAt(zs, a, l) = d /\ l \in a .. N
  BY <1>0, <1>1, <1>3 DEF low
<1>9. CASE N < c
  <2>1. \A t \in a .. N : FallAt(zs, a, t) <= d
    BY <1>1, <1>7, <1>9
  <2> HIDE DEF d
  <2>2. Deep(zs, a, N) = d
    BY <1>0, <1>8, <2>1, DeepIs
  <2>3. Larger(0, d) = d
    BY <1>6 DEF Larger
  <2> QED BY <1>9, <2>2, <2>3 DEF d, low
<1>10. CASE ~(N < c)
  <2>1. c <= N /\ \A i \in c .. N : zs[i] \in Int
    BY <1>0, <1>1, <1>10
  <2>2. /\ Deep(zs, c, N) \in Int
        /\ \E k \in c .. N : Deep(zs, c, N) = FallAt(zs, c, k)
        /\ \A t \in c .. N : FallAt(zs, c, t) <= Deep(zs, c, N)
    BY <2>1, DeepFacts
  <2>3. e = Deep(zs, c, N)
    BY <1>10
  <2> HIDE DEF d, e
  <2>4. \A t \in a .. N : FallAt(zs, a, t) \in Int
    BY <1>0, FallFacts
  <2>5. CASE e < d
    <3>1. \A t \in a .. N : FallAt(zs, a, t) <= d
      BY <1>1, <1>4, <1>6, <1>7, <2>2, <2>3, <2>4, <2>5
    <3>2. Deep(zs, a, N) = d
      BY <1>0, <1>8, <3>1, DeepIs
    <3> QED BY <2>5, <3>2 DEF d, e, low, Larger
  <2>6. CASE ~(e < d)
    <3>1. PICK k \in c .. N : e = FallAt(zs, c, k)
      BY <2>2, <2>3
    <3>2. k \in a .. N /\ e = FallAt(zs, a, k)
      BY <1>1, <1>4, <3>1
    <3>3. \A t \in a .. N : FallAt(zs, a, t) <= e
      BY <1>1, <1>4, <1>6, <1>7, <2>2, <2>3, <2>4, <2>6
    <3>4. Deep(zs, a, N) = e
      BY <1>0, <3>2, <3>3, DeepIs
    <3> QED BY <2>6, <3>4 DEF d, e, low, Larger
  <2> QED BY <2>5, <2>6
<1> QED BY <1>9, <1>10

\* The stack of the walk: runs of values below their first one, the newest run at the
\* bottom.  Run i begins at st[i].
Run == [peak : Int, low : Int, worst : Int]
Runs(sc, st, zs, m, N) ==
    /\ sc \in Seq(Run)
    /\ st[0] = N + 1 /\ st[Len(sc)] = m
    /\ \A i \in 0 .. Len(sc) : st[i] \in m .. N + 1
    /\ \A i, j \in 0 .. Len(sc) : i < j => st[j] < st[i]
    /\ \A i \in 1 .. Len(sc) :
           /\ sc[i].peak = zs[st[i]] /\ sc[i].worst = Deep(zs, st[i], N)
           /\ \A t \in st[i] .. st[i - 1] - 1 : zs[t] <= sc[i].peak /\ sc[i].low <= zs[t]
           /\ \E t \in st[i] .. st[i - 1] - 1 : zs[t] = sc[i].low
    /\ \A i, j \in 1 .. Len(sc) : i < j => sc[j].peak < sc[i].peak

LEMMA RunOf ==
    ASSUME NEW m \in Int, NEW N \in Int, NEW zs, NEW sc, NEW st, Runs(sc, st, zs, m, N),
           NEW c \in 0 .. Len(sc), NEW t \in m .. st[c] - 1
    PROVE  \E j \in c + 1 .. Len(sc) : t \in st[j] .. st[j - 1] - 1
<1> DEFINE n == Len(sc)
           S == {j \in c + 1 .. n : st[j] <= t}
<1>1. /\ n \in Nat /\ st[n] = m /\ \A i \in 0 .. n : st[i] \in m .. N + 1
  BY LenProperties DEF Runs
<1> HIDE DEF n
<1>2. c \in 0 .. n /\ c \in Nat
  BY DEF n
<1>3. n \in S
  <2>1. c # n
    BY <1>1, <1>2
  <2> QED BY <1>1, <1>2, <2>1
<1>4. S \in SUBSET Nat /\ S # {}
  BY <1>1, <1>2, <1>3
<1>5. PICK j \in S : \A y \in S : ~(y < j)
  <2> HIDE DEF S
  <2> QED BY <1>4, SmallestOf
<1>6. j \in c + 1 .. n /\ st[j] <= t /\ j - 1 \in c .. n /\ j - 1 \in 0 .. n
  BY <1>1, <1>2, <1>5
<1>7. t < st[j - 1]
  <2>1. CASE j - 1 = c
    BY <1>1, <1>2, <2>1
  <2>2. CASE j - 1 # c
    <3>1. j - 1 \in c + 1 .. n /\ j - 1 < j
      BY <1>1, <1>2, <1>6, <2>2
    <3>2. j - 1 \notin S
      BY <1>5, <3>1
    <3>3. ~(st[j - 1] <= t)
      BY <3>1, <3>2
    <3> QED BY <1>1, <1>6, <3>3
  <2> QED BY <2>1, <2>2
<1>8. t \in st[j] .. st[j - 1] - 1
  <2>1. st[j] \in Int /\ st[j - 1] \in Int
    BY <1>1, <1>2, <1>6
  <2> QED BY <1>6, <1>7, <2>1
<1> QED BY <1>6, <1>8 DEF n

\* The runs a value covers, and those it does not.
KeptOf(sc, x) == Largest1({i \in 1 .. Len(sc) : sc[i].peak > x}, 0)
AboveOf(sc, x) == SubSeq(sc, 1, KeptOf(sc, x))
LowOf(sc, x) == Min({x} \cup {sc[i].low : i \in KeptOf(sc, x) + 1 .. Len(sc)})
WorstOf(sc, x) == Larger(IF AboveOf(sc, x) = <<>> THEN 0 ELSE Last(AboveOf(sc, x)).worst,
                         Drawdown(x, LowOf(sc, x)))

LEMMA WalkIs ==
    ASSUME NEW w, NEW x
    PROVE  Walk(x, w) =
             [scratch |-> Append(AboveOf(w.scratch, x),
                                 [peak |-> x, low |-> LowOf(w.scratch, x),
                                  worst |-> WorstOf(w.scratch, x)]),
              peak |-> Larger(w.peak, x),
              front |-> Append(w.front, [peak |-> Larger(w.peak, x),
                                         worst |-> WorstOf(w.scratch, x)])]
  BY DEF Walk, KeptOf, AboveOf, LowOf, WorstOf

LEMMA RunsFacts ==
    ASSUME NEW m \in Int, NEW N \in Int, NEW zs, NEW sc, NEW st, Runs(sc, st, zs, m, N)
    PROVE  /\ Len(sc) \in Nat
           /\ \A i \in 1 .. Len(sc) : /\ sc[i] \in Run /\ sc[i].peak \in Int
                                      /\ sc[i].low \in Int /\ sc[i].worst \in Int
<1>1. sc \in Seq(Run)
  BY DEF Runs
<1>2. Len(sc) \in Nat /\ \A i \in 1 .. Len(sc) : sc[i] \in Run
  BY <1>1, LenProperties
<1> QED BY <1>2 DEF Run

LEMMA KeptFacts ==
    ASSUME NEW m \in Int, NEW N \in Int, NEW zs, NEW sc, NEW st, Runs(sc, st, zs, m, N),
           NEW x \in Int
    PROVE  /\ KeptOf(sc, x) \in 0 .. Len(sc)
           /\ \A i \in 1 .. KeptOf(sc, x) : x < sc[i].peak
           /\ \A i \in KeptOf(sc, x) + 1 .. Len(sc) : sc[i].peak <= x
<1> DEFINE n == Len(sc)
           S == {i \in 1 .. n : sc[i].peak > x} \cup {0}
           K == Max(S)
<1>1. n \in Nat /\ \A i \in 1 .. n : sc[i].peak \in Int
  BY RunsFacts
<1>2. \A i, j \in 1 .. n : i < j => sc[j].peak < sc[i].peak
  BY DEF Runs
<1> HIDE DEF n
<1>3. K \in S /\ \A i \in S : i <= K
  <2>1. S \in SUBSET Int /\ S # {} /\ n \in Int /\ \A i \in S : i <= n
    BY <1>1
  <2> HIDE DEF S
  <2> QED BY <2>1, MaxOf
<1>4. KeptOf(sc, x) = K
  BY DEF KeptOf, Largest1, n
<1> HIDE DEF K
<1>5. K \in 0 .. n
  BY <1>1, <1>3
<1>6. ASSUME NEW i \in 1 .. K PROVE x < sc[i].peak
  <2>1. K \in 1 .. n /\ i \in 1 .. n /\ sc[K].peak > x
    BY <1>1, <1>3, <1>5
  <2>2. i < K => sc[K].peak < sc[i].peak
    BY <1>2, <2>1
  <2>3. sc[i].peak \in Int /\ sc[K].peak \in Int
    BY <1>1, <2>1
  <2> QED BY <2>1, <2>2, <2>3
<1>7. ASSUME NEW i \in K + 1 .. n PROVE sc[i].peak <= x
  <2>1. i \in 1 .. n /\ ~(i <= K)
    BY <1>1, <1>5
  <2>2. i \notin S
    BY <1>3, <2>1
  <2>3. ~(sc[i].peak > x) /\ sc[i].peak \in Int
    BY <1>1, <2>1, <2>2
  <2> QED BY <2>3
<1> QED BY <1>4, <1>5, <1>6, <1>7 DEF n

\* The values up to the first run that is kept are below the new one.
LEMMA RunsBelow ==
    ASSUME NEW N \in Int, NEW a \in Int, NEW zs, \A i \in a .. N : zs[i] \in Int,
           NEW sc, NEW st, Runs(sc, st, zs, a + 1, N)
    PROVE  LET K == KeptOf(sc, zs[a])
               c == st[K]
           IN  /\ c \in a + 1 .. N + 1
               /\ \A t \in a .. c - 1 : zs[t] <= zs[a] /\ LowOf(sc, zs[a]) <= zs[t]
               /\ \E l \in a .. c - 1 : LowOf(sc, zs[a]) = zs[l]
               /\ c <= N => zs[a] < zs[c]
<1> DEFINE n == Len(sc)
           x == zs[a]
           K == KeptOf(sc, x)
           c == st[K]
           low == LowOf(sc, x)
           T == {x} \cup {sc[i].low : i \in K + 1 .. n}
<1>1. /\ n \in Nat /\ \A i \in 1 .. n : sc[i].peak \in Int /\ sc[i].low \in Int
  BY RunsFacts
<1>2. /\ st[0] = N + 1 /\ st[n] = a + 1
      /\ \A i \in 0 .. n : st[i] \in a + 1 .. N + 1
      /\ \A i, j \in 0 .. n : i < j => st[j] < st[i]
      /\ \A i \in 1 .. n :
             /\ sc[i].peak = zs[st[i]]
             /\ \A t \in st[i] .. st[i - 1] - 1 : zs[t] <= sc[i].peak /\ sc[i].low <= zs[t]
             /\ \E t \in st[i] .. st[i - 1] - 1 : zs[t] = sc[i].low
  BY DEF Runs
<1>3. a \in a .. N \/ N < a
  OBVIOUS
<1>4. a + 1 <= N + 1
  <2>1. n \in 0 .. n
    BY <1>1
  <2>2. st[n] \in a + 1 .. N + 1
    BY <1>2, <2>1
  <2> QED BY <1>2, <2>2
<1>5. x \in Int
  BY <1>4
<1>6. /\ K \in 0 .. n
      /\ \A i \in 1 .. K : x < sc[i].peak
      /\ \A i \in K + 1 .. n : sc[i].peak <= x
  <2> HIDE DEF x
  <2>1. a + 1 \in Int
    OBVIOUS
  <2> QED BY <1>5, <2>1, KeptFacts
<1>7. low = Min(T)
  BY DEF LowOf
<1> HIDE DEF n, x, K, low
<1>8. \A i \in K + 1 .. n : i \in 1 .. n /\ sc[i].low \in Int
  BY <1>1, <1>6
<1>9. c \in a + 1 .. N + 1
  BY <1>2, <1>6
<1> HIDE DEF c
<1>10. \A t \in a + 1 .. c - 1 : \E j \in K + 1 .. n : t \in st[j] .. st[j - 1] - 1
  <2>1. a + 1 \in Int /\ K \in 0 .. Len(sc)
    BY <1>6 DEF n
  <2> QED BY <2>1, RunOf DEF n, c
<1>11. \A t \in a .. c - 1 : zs[t] \in Int /\ (t = a \/ t \in a + 1 .. c - 1)
  BY <1>9
<1>12. ASSUME NEW t \in a .. c - 1
       PROVE  zs[t] <= x /\ (t = a \/ \E j \in K + 1 .. n : sc[j].low <= zs[t])
  <2>1. CASE t = a
    BY <1>5, <2>1 DEF x
  <2>2. CASE t # a
    <3>1. PICK j \in K + 1 .. n : t \in st[j] .. st[j - 1] - 1
      BY <1>10, <1>11, <2>2
    <3>2. zs[t] <= sc[j].peak /\ sc[j].low <= zs[t] /\ sc[j].peak <= x
      BY <1>2, <1>6, <1>8, <3>1
    <3>3. zs[t] \in Int /\ sc[j].peak \in Int
      BY <1>1, <1>8, <1>11
    <3> QED BY <1>5, <3>2, <3>3
  <2> QED BY <2>1, <2>2
<1>13. \A y \in T : \E l \in a .. c - 1 : y = zs[l]
  <2> SUFFICES ASSUME NEW y \in T PROVE \E l \in a .. c - 1 : y = zs[l]
    OBVIOUS
  <2>1. CASE y = x
    BY <1>9, <2>1 DEF x
  <2>2. ASSUME NEW j \in K + 1 .. n, y = sc[j].low PROVE \E l \in a .. c - 1 : y = zs[l]
    <3>1. PICK l \in st[j] .. st[j - 1] - 1 : zs[l] = sc[j].low
      BY <1>2, <1>8
    <3>2. j \in 0 .. n /\ j - 1 \in 0 .. n /\ (K = j - 1 \/ K < j - 1) /\ K \in 0 .. n
      BY <1>1, <1>6
    <3>3. st[j] \in a + 1 .. N + 1 /\ st[j - 1] \in a + 1 .. N + 1 /\ st[j - 1] <= c
      BY <1>2, <1>9, <3>2 DEF c
    <3>4. l \in a .. c - 1
      BY <1>9, <3>3
    <3> QED BY <2>2, <3>1, <3>4
  <2> QED BY <2>1, <2>2
<1>14. T \in SUBSET Int /\ T # {}
  BY <1>5, <1>8
<1>15. PICK least \in Int : \A i \in a .. c - 1 : least <= zs[i]
  <2>1. a <= c - 1 /\ c - 1 \in Int
    BY <1>9
  <2>2. /\ Lowest(zs, a, c - 1) \in Int
        /\ \A i \in a .. c - 1 : Lowest(zs, a, c - 1) <= zs[i]
    BY <1>11, <2>1, LowestFacts
  <2> QED BY <2>2
<1>16. \A y \in T : least <= y
  BY <1>13, <1>15
<1> HIDE DEF T
<1>17. low \in T /\ \A y \in T : low <= y
  BY <1>7, <1>14, <1>16, MinOf
<1>18. ASSUME NEW t \in a .. c - 1 PROVE low <= zs[t]
  <2>1. low \in Int
    BY <1>14, <1>17
  <2>2. CASE t = a
    BY <1>17, <2>2 DEF T, x
  <2>3. CASE t # a
    <3>1. PICK j \in K + 1 .. n : sc[j].low <= zs[t]
      BY <1>12, <2>3
    <3>2. sc[j].low \in T
      BY DEF T
    <3>3. low <= sc[j].low
      BY <1>17, <3>2
    <3> QED BY <1>8, <1>11, <2>1, <3>1, <3>3
  <2> QED BY <2>2, <2>3
<1>19. c <= N => x < zs[c]
  <2>1. CASE K = 0
    <3>1. c = N + 1
      BY <1>2, <2>1 DEF c
    <3> QED BY <3>1
  <2>2. CASE K # 0
    <3>1. K \in 1 .. K /\ K \in 1 .. n
      BY <1>1, <1>6, <2>2
    <3>2. sc[K].peak = zs[c]
      BY <1>2, <3>1 DEF c
    <3> QED BY <1>6, <3>1, <3>2
  <2> QED BY <2>1, <2>2
<1>20. /\ c \in a + 1 .. N + 1
       /\ \A t \in a .. c - 1 : zs[t] <= x /\ low <= zs[t]
       /\ \E l \in a .. c - 1 : low = zs[l]
       /\ c <= N => x < zs[c]
  BY <1>9, <1>12, <1>13, <1>17, <1>18, <1>19
<1> QED BY <1>20 DEF c, K, low, x

LEMMA PartOfSeq ==
    ASSUME NEW S, NEW q \in Seq(S), NEW n \in 0 .. Len(q)
    PROVE  /\ SubSeq(q, 1, n) \in Seq(S) /\ Len(SubSeq(q, 1, n)) = n
           /\ \A i \in 1 .. n : SubSeq(q, 1, n)[i] = q[i]
<1>1. Len(q) \in Nat /\ \A i \in 1 .. Len(q) : q[i] \in S
  BY LenProperties
<1>2. n \in Int /\ 1 \in Int /\ \A i \in 1 .. n : q[i] \in S
  BY <1>1
<1>3. /\ SubSeq(q, 1, n) \in Seq(S)
      /\ Len(SubSeq(q, 1, n)) = IF 1 <= n THEN n - 1 + 1 ELSE 0
      /\ \A i \in 1 .. n - 1 + 1 : SubSeq(q, 1, n)[i] = q[1 + i - 1]
  BY <1>2, SubSeqProperties
<1>4. n - 1 + 1 = n /\ (~(1 <= n) => n = 0) /\ \A i \in 1 .. n : 1 + i - 1 = i
  BY <1>1
<1> QED BY <1>3, <1>4

\* The run a value begins, as the top of the stack.
Pushed(sc, x) ==
    Append(AboveOf(sc, x), [peak |-> x, low |-> LowOf(sc, x), worst |-> WorstOf(sc, x)])

LEMMA WorstIsDeep ==
    ASSUME NEW N \in Int, NEW a \in Int, NEW zs, \A i \in a .. N : zs[i] \in Int,
           NEW sc, NEW st, Runs(sc, st, zs, a + 1, N)
    PROVE  /\ WorstOf(sc, zs[a]) = Deep(zs, a, N)
           /\ LowOf(sc, zs[a]) \in Int /\ zs[a] \in Int /\ a <= N
<1> DEFINE n == Len(sc)
           x == zs[a]
           K == KeptOf(sc, x)
           c == st[K]
           low == LowOf(sc, x)
           above == AboveOf(sc, x)
<1>1. /\ c \in a + 1 .. N + 1
      /\ \A t \in a .. c - 1 : zs[t] <= x /\ low <= zs[t]
      /\ \E l \in a .. c - 1 : low = zs[l]
      /\ c <= N => x < zs[c]
  BY RunsBelow
<1>2. a \in a .. N /\ x \in Int
  BY <1>1
<1>3. K \in 0 .. n
  <2> HIDE DEF x
  <2>1. a + 1 \in Int
    OBVIOUS
  <2> QED BY <1>2, <2>1, KeptFacts
<1>4. above \in Seq(Run) /\ Len(above) = K /\ \A i \in 1 .. K : above[i] = sc[i]
  <2>1. sc \in Seq(Run) /\ above = SubSeq(sc, 1, K)
    BY DEF Runs, AboveOf
  <2> HIDE DEF above, K
  <2> QED BY <1>3, <2>1, PartOfSeq
<1>5. /\ n \in Nat /\ st[0] = N + 1
      /\ \A i, j \in 0 .. n : i < j => st[j] < st[i]
      /\ \A i \in 1 .. n : sc[i].worst = Deep(zs, st[i], N)
  BY RunsFacts DEF Runs
<1>6. WorstOf(sc, x) = Larger(IF above = <<>> THEN 0 ELSE Last(above).worst, Drawdown(x, low))
  BY DEF WorstOf
<1> HIDE DEF n, K, c, low, above, x
<1>7. (IF above = <<>> THEN 0 ELSE Last(above).worst) = IF N < c THEN 0 ELSE Deep(zs, c, N)
  <2>1. above = <<>> <=> K = 0
    BY <1>4, EmptySeq
  <2>2. CASE K = 0
    <3>1. N < c
      BY <1>5, <2>2 DEF c
    <3> QED BY <2>1, <2>2, <3>1
  <2>3. CASE K # 0
    <3>1. K \in 1 .. n /\ 0 \in 0 .. n /\ K \in 0 .. n /\ 0 < K /\ K \in 1 .. K
      BY <1>3, <1>5, <2>3
    <3>2. c < N + 1
      BY <1>5, <3>1 DEF c
    <3>3. Last(above) = sc[K]
      BY <1>4, <3>1 DEF Last
    <3>4. Last(above).worst = Deep(zs, c, N)
      BY <1>5, <3>1, <3>3 DEF c
    <3>5. ~(N < c)
      BY <1>1, <3>2
    <3> QED BY <2>1, <2>3, <3>4, <3>5
  <2> QED BY <2>2, <2>3
<1>8. PICK l \in a .. c - 1 : low = zs[l]
  BY <1>1
<1>9. low \in Int
  BY <1>1, <1>8
<1>10. Deep(zs, a, N) = Larger(IF N < c THEN 0 ELSE Deep(zs, c, N), Drawdown(x, low))
  <2>1. c \in Int /\ a < c /\ c <= N + 1
    BY <1>1
  <2>2. \A i \in a .. c - 1 : zs[i] <= zs[a] /\ zs[l] <= zs[i]
    BY <1>1, <1>8 DEF x
  <2>3. c <= N => zs[a] < zs[c]
    BY <1>1 DEF x
  <2>a. LowestOfRun(zs, a, c, N, l)
    BY <2>1, <2>2, <2>3 DEF LowestOfRun
  <2>4. Deep(zs, a, N) = Larger(IF N < c THEN 0 ELSE Deep(zs, c, N), Drawdown(zs[a], zs[l]))
    BY <2>1, <2>a, DeepOfRun
  <2> QED BY <1>8, <2>4 DEF x
<1> QED BY <1>2, <1>6, <1>7, <1>9, <1>10 DEF low, x

HasRuns(sc, zs, m, N) == \E st : Runs(sc, st, zs, m, N)

LEMMA RunsStep ==
    ASSUME NEW N \in Int, NEW a \in Int, NEW zs, \A i \in a .. N : zs[i] \in Int,
           NEW sc, NEW st, Runs(sc, st, zs, a + 1, N)
    PROVE  HasRuns(Pushed(sc, zs[a]), zs, a, N)
<1> DEFINE n == Len(sc)
           x == zs[a]
           K == KeptOf(sc, x)
           c == st[K]
           low == LowOf(sc, x)
           worst == WorstOf(sc, x)
           above == AboveOf(sc, x)
           e == [peak |-> x, low |-> low, worst |-> worst]
           r == Append(above, e)
           tt == [i \in 0 .. K + 1 |-> IF i = K + 1 THEN a ELSE st[i]]
<1>1. /\ c \in a + 1 .. N + 1
      /\ \A t \in a .. c - 1 : zs[t] <= x /\ low <= zs[t]
      /\ \E l \in a .. c - 1 : low = zs[l]
      /\ c <= N => x < zs[c]
  BY RunsBelow
<1>2. worst = Deep(zs, a, N) /\ low \in Int /\ x \in Int /\ a <= N
  BY WorstIsDeep
<1>3. /\ K \in 0 .. n
      /\ \A i \in 1 .. K : x < sc[i].peak
  <2> HIDE DEF x
  <2>1. a + 1 \in Int
    OBVIOUS
  <2> QED BY <1>2, <2>1, KeptFacts
<1>4. above \in Seq(Run) /\ Len(above) = K /\ \A i \in 1 .. K : above[i] = sc[i]
  <2>1. sc \in Seq(Run) /\ above = SubSeq(sc, 1, K)
    BY DEF Runs, AboveOf
  <2> HIDE DEF above, K
  <2> QED BY <1>3, <2>1, PartOfSeq
<1>5. /\ n \in Nat /\ st[0] = N + 1
      /\ \A i \in 0 .. n : st[i] \in a + 1 .. N + 1
      /\ \A i, j \in 0 .. n : i < j => st[j] < st[i]
      /\ \A i \in 1 .. n :
             /\ sc[i].peak = zs[st[i]] /\ sc[i].worst = Deep(zs, st[i], N)
             /\ \A t \in st[i] .. st[i - 1] - 1 : zs[t] <= sc[i].peak /\ sc[i].low <= zs[t]
             /\ \E t \in st[i] .. st[i - 1] - 1 : zs[t] = sc[i].low
      /\ \A i, j \in 1 .. n : i < j => sc[j].peak < sc[i].peak
  BY RunsFacts DEF Runs
<1>6. e.peak = x /\ e.low = low /\ e.worst = worst
  OBVIOUS
<1>7. worst \in Int
  BY <1>2, DeepFacts
<1>8. e \in Run
  BY <1>2, <1>7 DEF Run
<1> HIDE DEF n, K, low, worst, above, e, x
<1>9. /\ r \in Seq(Run) /\ Len(r) = K + 1 /\ r[K + 1] = e
      /\ \A i \in 1 .. K : r[i] = sc[i]
  <2>1. /\ r \in Seq(Run) /\ Len(r) = Len(above) + 1
        /\ \A i \in 1 .. Len(above) : r[i] = above[i]
        /\ r[Len(above) + 1] = e
    BY <1>4, <1>8, AppendProperties
  <2> HIDE DEF r
  <2> QED BY <1>4, <2>1
<1>10. /\ tt[K + 1] = a /\ \A i \in 0 .. K : tt[i] = st[i] /\ i # K + 1 /\ i \in 0 .. n
       /\ \A i \in 0 .. K + 1 : i = K + 1 \/ i \in 0 .. K
       /\ \A i \in 1 .. K + 1 : i = K + 1 \/ (i \in 1 .. K /\ i \in 1 .. n)
       /\ K \in Nat
  BY <1>3, <1>5
<1> HIDE DEF r, tt
<1>11. tt[0] = N + 1 /\ tt[Len(r)] = a
  <2>1. 0 \in 0 .. K
    BY <1>10
  <2> QED BY <1>5, <1>9, <1>10, <2>1
<1>12. \A i \in 0 .. Len(r) : tt[i] \in a .. N + 1
  <2> SUFFICES ASSUME NEW i \in 0 .. K + 1 PROVE tt[i] \in a .. N + 1
    BY <1>9
  <2>1. CASE i = K + 1
    BY <1>2, <1>10, <2>1
  <2>2. CASE i # K + 1
    <3>1. i \in 0 .. n /\ tt[i] = st[i]
      BY <1>10, <2>2
    <3>2. tt[i] \in a + 1 .. N + 1
      BY <1>5, <3>1
    <3> QED BY <3>2
  <2> QED BY <2>1, <2>2
<1>13. \A i, j \in 0 .. Len(r) : i < j => tt[j] < tt[i]
  <2> SUFFICES ASSUME NEW i \in 0 .. K + 1, NEW j \in 0 .. K + 1, i < j PROVE tt[j] < tt[i]
    BY <1>9
  <2>1. i \in 0 .. K /\ i \in 0 .. n /\ tt[i] = st[i]
    BY <1>10
  <2>2. CASE j = K + 1
    <3>1. st[i] \in a + 1 .. N + 1 /\ tt[j] = a
      BY <1>5, <1>10, <2>1, <2>2
    <3> QED BY <2>1, <3>1
  <2>3. CASE j # K + 1
    <3>1. j \in 0 .. n /\ tt[j] = st[j]
      BY <1>10, <2>3
    <3> QED BY <1>5, <2>1, <3>1
  <2> QED BY <2>2, <2>3
<1>14. \A i \in 1 .. Len(r) :
           /\ r[i].peak = zs[tt[i]] /\ r[i].worst = Deep(zs, tt[i], N)
           /\ \A t \in tt[i] .. tt[i - 1] - 1 : zs[t] <= r[i].peak /\ r[i].low <= zs[t]
           /\ \E t \in tt[i] .. tt[i - 1] - 1 : zs[t] = r[i].low
  <2> SUFFICES ASSUME NEW i \in 1 .. K + 1
               PROVE  /\ r[i].peak = zs[tt[i]] /\ r[i].worst = Deep(zs, tt[i], N)
                      /\ \A t \in tt[i] .. tt[i - 1] - 1 : zs[t] <= r[i].peak /\ r[i].low <= zs[t]
                      /\ \E t \in tt[i] .. tt[i - 1] - 1 : zs[t] = r[i].low
    BY <1>9
  <2>0. i - 1 \in 0 .. K /\ tt[i - 1] = st[i - 1]
    <3>1. i - 1 \in 0 .. K
      BY <1>10
    <3> QED BY <1>10, <3>1
  <2>1. CASE i = K + 1
    <3>1. i - 1 = K
      BY <1>10, <2>1
    <3>2. tt[i] = a /\ tt[i - 1] = c /\ r[i] = e
      BY <1>9, <1>10, <2>0, <2>1, <3>1
    <3> HIDE DEF c
    <3> QED BY <1>1, <1>2, <1>6, <3>2 DEF x
  <2>2. CASE i # K + 1
    <3>1. i \in 1 .. K /\ i \in 0 .. K /\ i \in 1 .. n
      BY <1>10, <2>2
    <3>2. r[i] = sc[i] /\ tt[i] = st[i]
      BY <1>9, <1>10, <3>1
    <3> QED BY <1>5, <2>0, <3>1, <3>2
  <2> QED BY <2>1, <2>2
<1>15. \A i, j \in 1 .. Len(r) : i < j => r[j].peak < r[i].peak
  <2> SUFFICES ASSUME NEW i \in 1 .. K + 1, NEW j \in 1 .. K + 1, i < j
               PROVE  r[j].peak < r[i].peak
    BY <1>9
  <2>1. i \in 1 .. K /\ i \in 1 .. n /\ r[i] = sc[i]
    <3>1. i # K + 1
      BY <1>10
    <3> QED BY <1>9, <1>10, <3>1
  <2>2. CASE j = K + 1
    BY <1>3, <1>6, <1>9, <2>1, <2>2
  <2>3. CASE j # K + 1
    <3>1. j \in 1 .. K /\ j \in 1 .. n /\ r[j] = sc[j]
      BY <1>9, <1>10, <2>3
    <3> QED BY <1>5, <2>1, <3>1
  <2> QED BY <2>2, <2>3
<1>16. Runs(r, tt, zs, a, N)
  BY <1>9, <1>11, <1>12, <1>13, <1>14, <1>15 DEF Runs
<1>17. r = Pushed(sc, zs[a])
  BY DEF r, Pushed, e, above, low, worst, x
<1>18. HasRuns(r, zs, a, N)
  BY <1>16 DEF HasRuns
<1> QED BY <1>17, <1>18

LEMMA HighestOfOne ==
    ASSUME NEW n \in Int, NEW xs, xs[n] \in Int
    PROVE  Highest(xs, n, n) = xs[n]
<1>1. n \in n .. n /\ \A i \in n .. n : xs[i] \in Int /\ xs[i] <= xs[n]
  OBVIOUS
<1> QED BY <1>1, HighestIs

LEMMA HighestWithFirst ==
    ASSUME NEW a \in Int, NEW n \in Int, a < n, NEW xs, \A i \in a .. n : xs[i] \in Int
    PROVE  Highest(xs, a, n) = Larger(Highest(xs, a + 1, n), xs[a])
<1> DEFINE h == Highest(xs, a + 1, n)
           b == a + 1
<1>1. /\ b \in Int /\ b <= n /\ \A i \in b .. n : xs[i] \in Int /\ i \in a .. n
      /\ a \in a .. n /\ \A i \in a .. n : i = a \/ i \in b .. n
  OBVIOUS
<1>0. h = Highest(xs, b, n)
  OBVIOUS
<1> HIDE DEF b, h
<1>2. /\ h \in Int /\ \E k \in b .. n : h = xs[k]
      /\ \A i \in b .. n : xs[i] <= h
  BY <1>0, <1>1, HighestFacts
<1>3. CASE h < xs[a]
  <2>1. \A i \in a .. n : xs[i] <= xs[a]
    BY <1>1, <1>2, <1>3
  <2>2. Highest(xs, a, n) = xs[a]
    BY <1>1, <2>1, HighestIs
  <2> QED BY <1>3, <2>2 DEF Larger, h
<1>4. CASE ~(h < xs[a])
  <2>1. PICK k \in b .. n : h = xs[k]
    BY <1>2
  <2>2. k \in a .. n /\ \A i \in a .. n : xs[i] <= xs[k]
    BY <1>1, <1>2, <1>4, <2>1
  <2>3. Highest(xs, a, n) = xs[k]
    BY <2>2, HighestIs
  <2> QED BY <1>4, <2>1, <2>3 DEF Larger, h
<1> QED BY <1>3, <1>4

\* The older half: entry j is of its newest j values, of which the last is value N.
Fronted == [peak : Int, worst : Int]
FrontIs(front, zs, N) ==
    /\ front \in Seq(Fronted)
    /\ \A j \in 1 .. Len(front) : /\ front[j].peak = Highest(zs, (N + 1) - j, N)
                                  /\ front[j].worst = Deep(zs, (N + 1) - j, N)

\* The walk over the newest k values.
WalkKeeps(w, zs, k, N) ==
    /\ FrontIs(w.front, zs, N) /\ Len(w.front) = k
    /\ w.peak = IF k = 0 THEN Bottom ELSE Highest(zs, (N + 1) - k, N)
    /\ HasRuns(w.scratch, zs, (N + 1) - k, N)

\* Values a maximum drawdown can be fed with.
Above(zs) == zs \in Ints /\ \A i \in 1 .. Len(zs) : Bottom < zs[i]

LEMMA WalkStep ==
    ASSUME NEW zs, Above(zs), NEW k \in 0 .. Len(zs) - 1, NEW w,
           WalkKeeps(w, zs, k, Len(zs))
    PROVE  WalkKeeps(Walk(zs[Len(zs) - k], w), zs, k + 1, Len(zs))
<1> DEFINE N == Len(zs)
           a == N - k
           x == zs[a]
           peak == Larger(w.peak, x)
           worst == WorstOf(w.scratch, x)
           e == [peak |-> peak, worst |-> worst]
           t == Walk(x, w)
<1>1. N \in Nat /\ \A i \in 1 .. N : zs[i] \in Int /\ Bottom < zs[i]
  BY IntsFacts DEF Above
<1>2. /\ k \in Nat /\ a \in Int /\ a \in 1 .. N /\ (N + 1) - k = a + 1 /\ (N + 1) - (k + 1) = a
      /\ \A i \in a .. N : zs[i] \in Int
      /\ k = 0 => a = N
      /\ k # 0 => a < N
  BY <1>1
<1>3. /\ FrontIs(w.front, zs, N) /\ Len(w.front) = k
      /\ w.peak = IF k = 0 THEN Bottom ELSE Highest(zs, (N + 1) - k, N)
  BY DEF WalkKeeps
<1>4. PICK st : Runs(w.scratch, st, zs, (N + 1) - k, N)
  BY DEF WalkKeeps, HasRuns
<1>5. t.scratch = Pushed(w.scratch, x) /\ t.peak = peak /\ t.front = Append(w.front, e)
  BY WalkIs DEF Pushed
<1> HIDE DEF t, N, a
<1>6. Runs(w.scratch, st, zs, a + 1, N)
  BY <1>2, <1>4
<1>7. worst = Deep(zs, a, N) /\ x \in Int
  BY <1>1, <1>2, <1>6, WorstIsDeep
<1>8. HasRuns(t.scratch, zs, a, N)
  <2>1. N \in Int
    BY <1>1
  <2>2. HasRuns(Pushed(w.scratch, zs[a]), zs, a, N)
    BY <1>2, <1>6, <2>1, RunsStep
  <2> QED BY <1>5, <2>2
<1>9. peak = Highest(zs, a, N) /\ peak \in Int
  <2>1. CASE k = 0
    <3>1. Highest(zs, a, N) = x
      BY <1>1, <1>2, <1>7, <2>1, HighestOfOne
    <3>2. peak = x
      BY <1>1, <1>2, <1>3, <2>1 DEF Larger
    <3> QED BY <1>7, <3>1, <3>2
  <2>2. CASE k # 0
    <3>1. w.peak = Highest(zs, a + 1, N)
      BY <1>2, <1>3, <2>2
    <3>2. Highest(zs, a, N) = Larger(Highest(zs, a + 1, N), zs[a])
      BY <1>1, <1>2, <2>2, HighestWithFirst
    <3>3. Highest(zs, a, N) \in Int
      <4>1. a <= N /\ N \in Int
        BY <1>1, <1>2
      <4> QED BY <1>2, <4>1, HighestFacts
    <3> QED BY <3>1, <3>2, <3>3
  <2> QED BY <2>1, <2>2
<1>10. worst \in Int
  <2>1. a <= N /\ N \in Int
    BY <1>1, <1>2
  <2> QED BY <1>2, <1>7, <2>1, DeepFacts
<1>11. e \in Fronted /\ e.peak = peak /\ e.worst = worst
  BY <1>9, <1>10 DEF Fronted
<1> HIDE DEF e, peak, worst, x
<1>12. FrontIs(t.front, zs, N) /\ Len(t.front) = k + 1
  <2> DEFINE f == w.front
             r == Append(f, e)
  <2>1. /\ f \in Seq(Fronted) /\ Len(f) = k
        /\ \A j \in 1 .. k : /\ f[j].peak = Highest(zs, (N + 1) - j, N)
                             /\ f[j].worst = Deep(zs, (N + 1) - j, N)
    BY <1>3 DEF FrontIs
  <2> HIDE DEF f
  <2>2. /\ r \in Seq(Fronted) /\ Len(r) = k + 1 /\ r[k + 1] = e
        /\ \A j \in 1 .. k : r[j] = f[j]
    BY <1>11, <2>1, AppendProperties
  <2> HIDE DEF r
  <2>3. \A j \in 1 .. k + 1 : /\ r[j].peak = Highest(zs, (N + 1) - j, N)
                              /\ r[j].worst = Deep(zs, (N + 1) - j, N)
    <3> SUFFICES ASSUME NEW j \in 1 .. k + 1
                 PROVE  /\ r[j].peak = Highest(zs, (N + 1) - j, N)
                        /\ r[j].worst = Deep(zs, (N + 1) - j, N)
      OBVIOUS
    <3>1. CASE j = k + 1
      <4>1. (N + 1) - j = a
        BY <1>2, <3>1
      <4> QED BY <1>7, <1>9, <1>11, <2>2, <3>1, <4>1 DEF worst
    <3>2. CASE j # k + 1
      <4>1. j \in 1 .. k
        BY <1>2, <3>2
      <4> QED BY <2>1, <2>2, <4>1
    <3> QED BY <3>1, <3>2
  <2>4. FrontIs(r, zs, N)
    BY <2>2, <2>3 DEF FrontIs
  <2> QED BY <1>5, <2>2, <2>4 DEF r, f
<1>13. t.peak = IF k + 1 = 0 THEN Bottom ELSE Highest(zs, (N + 1) - (k + 1), N)
  BY <1>2, <1>5, <1>9
<1>14. HasRuns(t.scratch, zs, (N + 1) - (k + 1), N)
  BY <1>2, <1>8
<1>15. WalkKeeps(t, zs, k + 1, N)
  BY <1>12, <1>13, <1>14 DEF WalkKeeps
<1> QED BY <1>15 DEF t, x, a, N

LEMMA WalkedKeeps ==
    ASSUME NEW zs, Above(zs)
    PROVE  FrontIs(Walked(zs).front, zs, Len(zs)) /\ Len(Walked(zs).front) = Len(zs)
<1> DEFINE N == Len(zs)
<1>1. N \in Nat /\ DOMAIN zs = 1 .. N
  BY IntsFacts DEF Above
<1>2. PICK V : AreWalked(V, zs, N)
  BY <1>1, WalkedExist
<1>3. /\ V[0] = NewWalk /\ V[N] = Walked(zs)
      /\ \A k \in 0 .. N - 1 : V[k + 1] = Walk(zs[N - k], V[k])
  BY <1>2 DEF AreWalked
<1> DEFINE S == {k \in Nat : k <= N => WalkKeeps(V[k], zs, k, N)}
<1>4. 0 \in S
  <2>1. NewWalk.front = <<>> /\ NewWalk.peak = Bottom /\ NewWalk.scratch = <<>>
    BY DEF NewWalk
  <2>2. <<>> \in Seq(Fronted) /\ <<>> \in Seq(Run) /\ Len(<<>>) = 0 /\ 1 .. 0 = {}
    OBVIOUS
  <2>3. FrontIs(<<>>, zs, N)
    BY <2>2 DEF FrontIs
  <2> DEFINE st == [i \in 0 .. 0 |-> N + 1]
  <2>4. /\ st[0] = N + 1 /\ (N + 1) - 0 = N + 1
        /\ \A i \in 0 .. 0 : st[i] \in N + 1 .. N + 1
        /\ \A i, j \in 0 .. 0 : ~(i < j)
    BY <1>1
  <2> HIDE DEF st
  <2>5. Runs(<<>>, st, zs, (N + 1) - 0, N)
    BY <2>2, <2>4 DEF Runs
  <2>5a. HasRuns(<<>>, zs, (N + 1) - 0, N)
    BY <2>5 DEF HasRuns
  <2>6. WalkKeeps(NewWalk, zs, 0, N)
    BY <2>1, <2>2, <2>3, <2>5a DEF WalkKeeps
  <2> QED BY <1>3, <2>6
<1>5. \A k \in Nat : k \in S => k + 1 \in S
  <2> SUFFICES ASSUME NEW k \in Nat, k \in S, k + 1 <= N
               PROVE  WalkKeeps(V[k + 1], zs, k + 1, N)
    OBVIOUS
  <2>1. k \in 0 .. N - 1 /\ WalkKeeps(V[k], zs, k, N)
    BY <1>1
  <2>2. WalkKeeps(Walk(zs[N - k], V[k]), zs, k + 1, N)
    BY <2>1, WalkStep
  <2> QED BY <1>3, <2>1, <2>2
<1> HIDE DEF S
<1>6. N \in S
  BY <1>1, <1>4, <1>5, SetInduction
<1>7. WalkKeeps(Walked(zs), zs, N, N)
  BY <1>1, <1>3, <1>6 DEF S
<1> QED BY <1>7 DEF WalkKeeps

\* The oldest value leaves the older half.
LEMMA FrontPops ==
    ASSUME NEW zs, NEW N, NEW front, FrontIs(front, zs, N), front # <<>>
    PROVE  FrontIs(Front(front), zs, N) /\ Len(Front(front)) = Len(front) - 1
<1> DEFINE n == Len(front) - 1
           r == Front(front)
<1>1. /\ front \in Seq(Fronted)
      /\ \A j \in 1 .. Len(front) : /\ front[j].peak = Highest(zs, (N + 1) - j, N)
                                    /\ front[j].worst = Deep(zs, (N + 1) - j, N)
  BY DEF FrontIs
<1>2. Len(front) \in Nat /\ n \in 0 .. Len(front)
  BY <1>1, LenProperties, EmptySeq
<1>3. r = SubSeq(front, 1, n)
  BY DEF Front
<1> HIDE DEF r
<1>4. r \in Seq(Fronted) /\ Len(r) = n /\ \A i \in 1 .. n : r[i] = front[i]
  <2> HIDE DEF n
  <2> QED BY <1>1, <1>2, <1>3, PartOfSeq
<1>5. \A i \in 1 .. n : i \in 1 .. Len(front)
  BY <1>2
<1> HIDE DEF n
<1>6. FrontIs(r, zs, N)
  BY <1>1, <1>4, <1>5 DEF FrontIs
<1> QED BY <1>4, <1>6 DEF r, n

\* It looks at nothing but the values it is of, wherever they are.
LEMMA FrontMoves ==
    ASSUME NEW N \in Int, NEW d \in Int, NEW zs, NEW ys, NEW front,
           FrontIs(front, zs, N + d), Len(front) <= N,
           \A i \in 1 .. N : ys[i] = zs[i + d]
    PROVE  FrontIs(front, ys, N)
<1>1. /\ front \in Seq(Fronted) /\ Len(front) \in Nat
      /\ \A j \in 1 .. Len(front) : /\ front[j].peak = Highest(zs, ((N + d) + 1) - j, N + d)
                                    /\ front[j].worst = Deep(zs, ((N + d) + 1) - j, N + d)
  BY LenProperties DEF FrontIs
<1>2. ASSUME NEW j \in 1 .. Len(front)
      PROVE  /\ front[j].peak = Highest(ys, (N + 1) - j, N)
             /\ front[j].worst = Deep(ys, (N + 1) - j, N)
  <2> DEFINE m == (N + 1) - j
  <2>1. m \in Int /\ m + d = ((N + d) + 1) - j /\ \A i \in m .. N : i \in 1 .. N
    BY <1>1
  <2> HIDE DEF m
  <2>2. Shifted(ys, m, N, zs, d)
    BY <2>1 DEF Shifted
  <2>3. /\ Highest(ys, m, N) = Highest(zs, m + d, N + d)
        /\ Deep(ys, m, N) = Deep(zs, m + d, N + d)
    BY <2>1, <2>2, DeepMoved
  <2> QED BY <1>1, <2>1, <2>3 DEF m
<1> QED BY <1>1, <1>2 DEF FrontIs

\* The newer half: seg tells in which segment a value is.
Record == [peak : Int, low : Int, lowSoFar : Int]
Segments(rs, seg, ys) ==
    /\ rs \in Seq(Record)
    /\ \A t \in 1 .. Len(ys) : /\ seg[t] \in 1 .. Len(rs)
                               /\ rs[seg[t]].peak = Peak(ys, t)
                               /\ rs[seg[t]].low <= ys[t]
    /\ \A i \in 1 .. Len(rs) : \E t \in 1 .. Len(ys) : seg[t] = i /\ ys[t] = rs[i].low
    /\ \A i \in 1 .. Len(rs) : \A t \in 1 .. Len(ys) : seg[t] <= i => rs[i].lowSoFar <= ys[t]
    /\ \A i \in 1 .. Len(rs) : \E t \in 1 .. Len(ys) : seg[t] <= i /\ ys[t] = rs[i].lowSoFar
    /\ \A i, j \in 1 .. Len(rs) : i < j => rs[i].peak < rs[j].peak
    /\ ys # <<>> => seg[Len(ys)] = Len(rs)
HasSegments(rs, ys) == \E seg : Segments(rs, seg, ys)

DeclineOf(rs, i) == Drawdown(rs[i].peak, rs[i].low)

LEMMA SegmentsFacts ==
    ASSUME NEW ys \in Ints, NEW rs, NEW seg, Segments(rs, seg, ys)
    PROVE  /\ Len(rs) \in Nat /\ (Len(rs) = 0 <=> Len(ys) = 0)
           /\ \A i \in 1 .. Len(rs) : /\ rs[i] \in Record /\ rs[i].peak \in Int
                                      /\ rs[i].low \in Int /\ rs[i].lowSoFar \in Int
                                      /\ DeclineOf(rs, i) \in Int /\ 0 <= DeclineOf(rs, i)
<1>1. rs \in Seq(Record)
  BY DEF Segments
<1>2. Len(rs) \in Nat /\ \A i \in 1 .. Len(rs) : rs[i] \in Record
  BY <1>1, LenProperties
<1>3. \A i \in 1 .. Len(rs) : rs[i].peak \in Int /\ rs[i].low \in Int /\ rs[i].lowSoFar \in Int
  BY <1>2 DEF Record
<1>4. Len(ys) \in Nat
  BY IntsFacts
<1>5. Len(ys) # 0 => Len(rs) # 0
  <2>1. Len(ys) # 0 => 1 \in 1 .. Len(ys)
    BY <1>4
  <2> QED BY <2>1 DEF Segments
<1>6. Len(rs) # 0 => Len(ys) # 0
  <2>1. Len(rs) # 0 => 1 \in 1 .. Len(rs)
    BY <1>2
  <2> QED BY <1>4, <2>1 DEF Segments
<1>7. ASSUME NEW i \in 1 .. Len(rs) PROVE DeclineOf(rs, i) \in Int /\ 0 <= DeclineOf(rs, i)
  <2>1. PICK t \in 1 .. Len(ys) : seg[t] = i /\ ys[t] = rs[i].low
    BY DEF Segments
  <2>2. rs[i].peak = Peak(ys, t)
    BY <2>1 DEF Segments
  <2>3. ys[t] <= Peak(ys, t)
    <3>1. t \in 1 .. t
      BY <1>4
    <3> QED BY <3>1, PeakFacts
  <2> QED BY <1>3, <2>1, <2>2, <2>3, DrawdownFacts DEF DeclineOf
<1> QED BY <1>2, <1>3, <1>5, <1>6, <1>7

\* A value no higher than the open segment's peak falls into that segment.
Deepened(r, x) ==
    [r EXCEPT !.low = Smaller(r.low, x), !.lowSoFar = Smaller(r.lowSoFar, x)]
OneDeeper(rr, rs, x) ==
    /\ rr \in Seq(Record) /\ Len(rr) = Len(rs)
    /\ \A i \in 1 .. Len(rs) : i # Len(rs) => rr[i] = rs[i]
    /\ rr[Len(rs)].peak = rs[Len(rs)].peak
    /\ rr[Len(rs)].low = Smaller(rs[Len(rs)].low, x)
    /\ rr[Len(rs)].lowSoFar = Smaller(rs[Len(rs)].lowSoFar, x)

LEMMA SegmentDeepens ==
    ASSUME NEW ys \in Ints, NEW x \in Int, NEW rs, HasSegments(rs, ys), Len(rs) # 0,
           x <= rs[Len(rs)].peak, NEW rr, OneDeeper(rr, rs, x)
    PROVE  HasSegments(rr, Append(ys, x))
<1> DEFINE n == Len(rs)
           b == Len(ys)
           zs == Append(ys, x)
<1>1. PICK seg : Segments(rs, seg, ys)
  BY DEF HasSegments
<1> DEFINE gs == [t \in 1 .. b + 1 |-> IF t = b + 1 THEN n ELSE seg[t]]
<1>2. /\ n \in Nat /\ n # 0 /\ b # 0
      /\ \A i \in 1 .. n : /\ rs[i].peak \in Int /\ rs[i].low \in Int
                           /\ rs[i].lowSoFar \in Int
  BY <1>1, SegmentsFacts
<1>3. /\ b \in Nat /\ zs \in Ints /\ Len(zs) = b + 1 /\ zs[b + 1] = x /\ ys # <<>>
      /\ \A t \in 1 .. b : zs[t] = ys[t] /\ ys[t] \in Int
  BY <1>2, IntsFacts, IntsGrow
<1>4. /\ \A t \in 1 .. b : /\ seg[t] \in 1 .. n /\ rs[seg[t]].peak = Peak(ys, t)
                           /\ rs[seg[t]].low <= ys[t]
      /\ \A i \in 1 .. n : \E t \in 1 .. b : seg[t] = i /\ ys[t] = rs[i].low
      /\ \A i \in 1 .. n : \A t \in 1 .. b : seg[t] <= i => rs[i].lowSoFar <= ys[t]
      /\ \A i \in 1 .. n : \E t \in 1 .. b : seg[t] <= i /\ ys[t] = rs[i].lowSoFar
      /\ \A i, j \in 1 .. n : i < j => rs[i].peak < rs[j].peak
      /\ seg[b] = n
  BY <1>1, <1>3 DEF Segments
<1>5. /\ rr \in Seq(Record) /\ Len(rr) = n
      /\ \A i \in 1 .. n : i # n => rr[i] = rs[i]
      /\ rr[n].peak = rs[n].peak
      /\ rr[n].low = Smaller(rs[n].low, x)
      /\ rr[n].lowSoFar = Smaller(rs[n].lowSoFar, x)
  BY DEF OneDeeper
<1>6. x <= rs[n].peak
  OBVIOUS
<1>7. /\ \A t \in 1 .. b : Peak(zs, t) = Peak(ys, t)
      /\ Peak(zs, b + 1) = Larger(Peak(ys, b), x)
  BY <1>3, PeakGrows
<1>8. gs[b + 1] = n /\ \A t \in 1 .. b : gs[t] = seg[t]
  BY <1>3
<1> HIDE DEF n, b, zs, gs
<1>9. /\ n \in 1 .. n /\ b \in 1 .. b /\ b + 1 \in 1 .. b + 1
      /\ \A t \in 1 .. b + 1 : t = b + 1 \/ t \in 1 .. b
      /\ \A t \in 1 .. b : t \in 1 .. b + 1
  BY <1>2, <1>3
<1>10. Peak(zs, b + 1) = rs[n].peak
  <2>1. Peak(ys, b) = rs[n].peak
    BY <1>4, <1>9
  <2> QED BY <1>2, <1>6, <1>7, <1>9, <2>1 DEF Larger
<1>11. \A i \in 1 .. n : /\ rr[i].peak = rs[i].peak
                         /\ rr[i].low <= rs[i].low
                         /\ (i = n => rr[i].low <= x /\ rr[i].lowSoFar <= x)
                         /\ rr[i].lowSoFar <= rs[i].lowSoFar
                         /\ (rr[i].low = rs[i].low \/ (i = n /\ rr[i].low = x))
                         /\ (rr[i].lowSoFar = rs[i].lowSoFar \/ (i = n /\ rr[i].lowSoFar = x))
                         /\ rr[i].low \in Int /\ rr[i].lowSoFar \in Int
  BY <1>2, <1>5 DEF Smaller
<1>12. \A t \in 1 .. b + 1 : /\ gs[t] \in 1 .. n /\ rr[gs[t]].peak = Peak(zs, t)
                             /\ rr[gs[t]].low <= zs[t]
  <2> SUFFICES ASSUME NEW t \in 1 .. b + 1
               PROVE  /\ gs[t] \in 1 .. n /\ rr[gs[t]].peak = Peak(zs, t)
                      /\ rr[gs[t]].low <= zs[t]
    OBVIOUS
  <2>1. CASE t = b + 1
    BY <1>3, <1>8, <1>9, <1>10, <1>11, <2>1
  <2>2. CASE t # b + 1
    <3>1. t \in 1 .. b /\ gs[t] = seg[t] /\ seg[t] \in 1 .. n
      BY <1>4, <1>8, <1>9, <2>2
    <3>2. rr[seg[t]].peak = Peak(zs, t)
      BY <1>4, <1>7, <1>11, <3>1
    <3>3. rr[seg[t]].low <= zs[t]
      <4>1. /\ rs[seg[t]].low <= ys[t] /\ rr[seg[t]].low <= rs[seg[t]].low
            /\ rs[seg[t]].low \in Int /\ rr[seg[t]].low \in Int /\ ys[t] \in Int
            /\ zs[t] = ys[t]
        BY <1>2, <1>3, <1>4, <1>11, <3>1
      <4> QED BY <4>1
    <3> QED BY <3>1, <3>2, <3>3
  <2> QED BY <2>1, <2>2
<1>13. \A i \in 1 .. n : \E t \in 1 .. b + 1 : gs[t] = i /\ zs[t] = rr[i].low
  <2> SUFFICES ASSUME NEW i \in 1 .. n
               PROVE  \E t \in 1 .. b + 1 : gs[t] = i /\ zs[t] = rr[i].low
    OBVIOUS
  <2>1. CASE rr[i].low = rs[i].low
    <3>1. PICK t \in 1 .. b : seg[t] = i /\ ys[t] = rs[i].low
      BY <1>4
    <3> QED BY <1>3, <1>8, <1>9, <2>1, <3>1
  <2>2. CASE i = n /\ rr[i].low = x
    BY <1>3, <1>8, <1>9, <2>2
  <2> QED BY <1>11, <2>1, <2>2
<1>14. \A i \in 1 .. n : \A t \in 1 .. b + 1 : gs[t] <= i => rr[i].lowSoFar <= zs[t]
  <2> SUFFICES ASSUME NEW i \in 1 .. n, NEW t \in 1 .. b + 1, gs[t] <= i
               PROVE  rr[i].lowSoFar <= zs[t]
    OBVIOUS
  <2>1. CASE t = b + 1
    <3>1. i = n
      BY <1>2, <1>8, <2>1
    <3> QED BY <1>3, <1>11, <2>1, <3>1
  <2>2. CASE t # b + 1
    <3>1. t \in 1 .. b /\ gs[t] = seg[t]
      BY <1>8, <1>9, <2>2
    <3>2. rs[i].lowSoFar <= ys[t]
      BY <1>4, <3>1
    <3>3. /\ rr[i].lowSoFar <= rs[i].lowSoFar /\ rr[i].lowSoFar \in Int
          /\ rs[i].lowSoFar \in Int /\ ys[t] \in Int /\ zs[t] = ys[t]
      BY <1>2, <1>3, <1>11, <3>1
    <3> QED BY <3>2, <3>3
  <2> QED BY <2>1, <2>2
<1>15. \A i \in 1 .. n : \E t \in 1 .. b + 1 : gs[t] <= i /\ zs[t] = rr[i].lowSoFar
  <2> SUFFICES ASSUME NEW i \in 1 .. n
               PROVE  \E t \in 1 .. b + 1 : gs[t] <= i /\ zs[t] = rr[i].lowSoFar
    OBVIOUS
  <2>1. CASE rr[i].lowSoFar = rs[i].lowSoFar
    <3>1. PICK t \in 1 .. b : seg[t] <= i /\ ys[t] = rs[i].lowSoFar
      BY <1>4
    <3> QED BY <1>3, <1>8, <1>9, <2>1, <3>1
  <2>2. CASE i = n /\ rr[i].lowSoFar = x
    <3>1. n <= n
      BY <1>2
    <3> QED BY <1>3, <1>8, <1>9, <2>2, <3>1
  <2> QED BY <1>11, <2>1, <2>2
<1>16. \A i, j \in 1 .. n : i < j => rr[i].peak < rr[j].peak
  BY <1>4, <1>11
<1>17. Segments(rr, gs, zs)
  BY <1>3, <1>5, <1>8, <1>12, <1>13, <1>14, <1>15, <1>16 DEF Segments
<1>18. HasSegments(rr, zs)
  BY <1>17 DEF HasSegments
<1> QED BY <1>18 DEF zs

\* A higher one opens a segment.
OneMoreRecord(rr, rs, x) ==
    /\ rr \in Seq(Record) /\ Len(rr) = Len(rs) + 1
    /\ \A i \in 1 .. Len(rs) : rr[i] = rs[i]
    /\ rr[Len(rs) + 1].peak = x
    /\ rr[Len(rs) + 1].low = x
    /\ rr[Len(rs) + 1].lowSoFar =
           IF Len(rs) = 0 THEN x ELSE Smaller(x, rs[Len(rs)].lowSoFar)

LEMMA SegmentOpens ==
    ASSUME NEW ys \in Ints, NEW x \in Int, NEW rs, HasSegments(rs, ys),
           Len(rs) # 0 => rs[Len(rs)].peak < x, NEW rr, OneMoreRecord(rr, rs, x)
    PROVE  HasSegments(rr, Append(ys, x))
<1> DEFINE n == Len(rs)
           b == Len(ys)
           zs == Append(ys, x)
<1>1. PICK seg : Segments(rs, seg, ys)
  BY DEF HasSegments
<1> DEFINE gs == [t \in 1 .. b + 1 |-> IF t = b + 1 THEN n + 1 ELSE seg[t]]
<1>2. /\ n \in Nat /\ (n = 0 <=> b = 0)
      /\ \A i \in 1 .. n : /\ rs[i].peak \in Int /\ rs[i].low \in Int
                           /\ rs[i].lowSoFar \in Int
  BY <1>1, SegmentsFacts
<1>3. /\ b \in Nat /\ zs \in Ints /\ Len(zs) = b + 1 /\ zs[b + 1] = x
      /\ (ys = <<>> <=> b = 0)
      /\ \A t \in 1 .. b : zs[t] = ys[t] /\ ys[t] \in Int
  BY <1>2, IntsFacts, IntsGrow
<1>4. /\ \A t \in 1 .. b : /\ seg[t] \in 1 .. n /\ rs[seg[t]].peak = Peak(ys, t)
                           /\ rs[seg[t]].low <= ys[t]
      /\ \A i \in 1 .. n : \E t \in 1 .. b : seg[t] = i /\ ys[t] = rs[i].low
      /\ \A i \in 1 .. n : \A t \in 1 .. b : seg[t] <= i => rs[i].lowSoFar <= ys[t]
      /\ \A i \in 1 .. n : \E t \in 1 .. b : seg[t] <= i /\ ys[t] = rs[i].lowSoFar
      /\ \A i, j \in 1 .. n : i < j => rs[i].peak < rs[j].peak
      /\ b # 0 => seg[b] = n
  BY <1>1, <1>3 DEF Segments
<1>5. /\ rr \in Seq(Record) /\ Len(rr) = n + 1
      /\ \A i \in 1 .. n : rr[i] = rs[i]
      /\ rr[n + 1].peak = x /\ rr[n + 1].low = x
      /\ rr[n + 1].lowSoFar = IF n = 0 THEN x ELSE Smaller(x, rs[n].lowSoFar)
  BY DEF OneMoreRecord
<1>6. n # 0 => rs[n].peak < x
  OBVIOUS
<1>7. /\ \A t \in 1 .. b : Peak(zs, t) = Peak(ys, t)
      /\ Peak(zs, b + 1) = IF ys = <<>> THEN x ELSE Larger(Peak(ys, b), x)
  BY PeakGrows
<1>8. gs[b + 1] = n + 1 /\ \A t \in 1 .. b : gs[t] = seg[t]
  BY <1>3
<1> HIDE DEF n, b, zs, gs
<1>9. /\ b + 1 \in 1 .. b + 1 /\ n + 1 \in 1 .. n + 1
      /\ \A t \in 1 .. b + 1 : t = b + 1 \/ t \in 1 .. b
      /\ \A t \in 1 .. b : t \in 1 .. b + 1
      /\ \A i \in 1 .. n + 1 : i = n + 1 \/ i \in 1 .. n
      /\ \A i \in 1 .. n : i \in 1 .. n + 1 /\ i < n + 1 /\ ~(n + 1 <= i)
      /\ n # 0 => n \in 1 .. n /\ b \in 1 .. b
  BY <1>2, <1>3
<1>10. Peak(zs, b + 1) = x
  <2>1. CASE n = 0
    BY <1>2, <1>3, <1>7, <2>1
  <2>2. CASE n # 0
    <3>1. Peak(ys, b) = rs[n].peak /\ ys # <<>>
      BY <1>2, <1>3, <1>4, <1>9, <2>2
    <3> QED BY <1>6, <1>7, <2>2, <3>1 DEF Larger
  <2> QED BY <2>1, <2>2
<1>11. \A t \in 1 .. b + 1 : /\ gs[t] \in 1 .. n + 1 /\ rr[gs[t]].peak = Peak(zs, t)
                             /\ rr[gs[t]].low <= zs[t]
  <2> SUFFICES ASSUME NEW t \in 1 .. b + 1
               PROVE  /\ gs[t] \in 1 .. n + 1 /\ rr[gs[t]].peak = Peak(zs, t)
                      /\ rr[gs[t]].low <= zs[t]
    OBVIOUS
  <2>1. CASE t = b + 1
    BY <1>3, <1>5, <1>8, <1>9, <1>10, <2>1
  <2>2. CASE t # b + 1
    <3>1. t \in 1 .. b /\ gs[t] = seg[t] /\ seg[t] \in 1 .. n
      BY <1>4, <1>8, <1>9, <2>2
    <3> QED BY <1>3, <1>4, <1>5, <1>7, <1>9, <3>1
  <2> QED BY <2>1, <2>2
<1>12. \A i \in 1 .. n + 1 : \E t \in 1 .. b + 1 : gs[t] = i /\ zs[t] = rr[i].low
  <2> SUFFICES ASSUME NEW i \in 1 .. n + 1
               PROVE  \E t \in 1 .. b + 1 : gs[t] = i /\ zs[t] = rr[i].low
    OBVIOUS
  <2>1. CASE i = n + 1
    BY <1>3, <1>5, <1>8, <1>9, <2>1
  <2>2. CASE i # n + 1
    <3>1. i \in 1 .. n
      BY <1>9, <2>2
    <3>2. PICK t \in 1 .. b : seg[t] = i /\ ys[t] = rs[i].low
      BY <1>4, <3>1
    <3> QED BY <1>3, <1>5, <1>8, <1>9, <3>1, <3>2
  <2> QED BY <2>1, <2>2
<1>13. \A i \in 1 .. n + 1 : \A t \in 1 .. b + 1 : gs[t] <= i => rr[i].lowSoFar <= zs[t]
  <2> SUFFICES ASSUME NEW i \in 1 .. n + 1, NEW t \in 1 .. b + 1, gs[t] <= i
               PROVE  rr[i].lowSoFar <= zs[t]
    OBVIOUS
  <2>1. CASE i = n + 1
    <3>1. n = 0 => b = 0 /\ rr[i].lowSoFar = x
      BY <1>2, <1>5, <2>1
    <3>2. n # 0 => /\ rr[i].lowSoFar = Smaller(x, rs[n].lowSoFar)
                   /\ rs[n].lowSoFar \in Int
      BY <1>2, <1>5, <1>9, <2>1
    <3>3. CASE t = b + 1
      BY <1>3, <3>1, <3>2, <3>3 DEF Smaller
    <3>4. CASE t # b + 1
      <4>1. t \in 1 .. b /\ b # 0 /\ n # 0
        BY <1>2, <1>3, <1>9, <3>4
      <4>2. rs[n].lowSoFar <= ys[t]
        <5>1. seg[t] \in 1 .. n /\ n \in 1 .. n
          BY <1>4, <1>9, <4>1
        <5>2. seg[t] <= n
          BY <5>1
        <5> QED BY <1>4, <4>1, <5>1, <5>2
      <4> QED BY <1>3, <3>2, <4>1, <4>2 DEF Smaller
    <3> QED BY <3>3, <3>4
  <2>2. CASE i # n + 1
    <3>1. i \in 1 .. n /\ rr[i] = rs[i]
      BY <1>5, <1>9, <2>2
    <3>2. t \in 1 .. b
      BY <1>8, <1>9, <3>1
    <3> QED BY <1>3, <1>4, <1>8, <3>1, <3>2
  <2> QED BY <2>1, <2>2
<1>14. \A i \in 1 .. n + 1 : \E t \in 1 .. b + 1 : gs[t] <= i /\ zs[t] = rr[i].lowSoFar
  <2> SUFFICES ASSUME NEW i \in 1 .. n + 1
               PROVE  \E t \in 1 .. b + 1 : gs[t] <= i /\ zs[t] = rr[i].lowSoFar
    OBVIOUS
  <2>1. CASE i = n + 1
    <3>1. CASE rr[i].lowSoFar = x
      <4>1. n + 1 <= n + 1
        BY <1>2
      <4> QED BY <1>3, <1>8, <1>9, <2>1, <3>1, <4>1
    <3>2. CASE rr[i].lowSoFar # x
      <4>1. n # 0 /\ rr[i].lowSoFar = rs[n].lowSoFar
        BY <1>5, <2>1, <3>2 DEF Smaller
      <4>2. PICK t \in 1 .. b : seg[t] <= n /\ ys[t] = rs[n].lowSoFar
        BY <1>4, <1>9, <4>1
      <4>3. gs[t] <= n + 1 /\ zs[t] = rr[i].lowSoFar /\ t \in 1 .. b + 1
        <5>1. seg[t] \in 1 .. n /\ gs[t] = seg[t] /\ zs[t] = ys[t]
          BY <1>3, <1>4, <1>8
        <5>2. seg[t] <= n + 1
          BY <1>2, <5>1
        <5> QED BY <1>9, <4>1, <4>2, <5>1, <5>2
      <4> QED BY <2>1, <4>3
    <3> QED BY <3>1, <3>2
  <2>2. CASE i # n + 1
    <3>1. i \in 1 .. n
      BY <1>9, <2>2
    <3>2. PICK t \in 1 .. b : seg[t] <= i /\ ys[t] = rs[i].lowSoFar
      BY <1>4, <3>1
    <3> QED BY <1>3, <1>5, <1>8, <1>9, <3>1, <3>2
  <2> QED BY <2>1, <2>2
<1>15. \A i, j \in 1 .. n + 1 : i < j => rr[i].peak < rr[j].peak
  <2> SUFFICES ASSUME NEW i \in 1 .. n + 1, NEW j \in 1 .. n + 1, i < j
               PROVE  rr[i].peak < rr[j].peak
    OBVIOUS
  <2>1. i \in 1 .. n /\ rr[i] = rs[i] /\ n # 0
    <3>1. i # n + 1 /\ (i \in 1 .. n => n # 0)
      BY <1>2
    <3> QED BY <1>5, <1>9, <3>1
  <2>2. CASE j = n + 1
    <3>1. rs[i].peak <= rs[n].peak
      <4>1. n \in 1 .. n /\ (i = n \/ i < n)
        BY <1>2, <2>1
      <4>2. rs[i].peak \in Int /\ rs[n].peak \in Int
        BY <1>2, <2>1, <4>1
      <4>3. i < n => rs[i].peak < rs[n].peak
        BY <1>4, <2>1, <4>1
      <4> QED BY <4>1, <4>2, <4>3
    <3>2. rs[i].peak \in Int /\ rs[n].peak \in Int /\ rs[n].peak < x
      BY <1>2, <1>6, <1>9, <2>1
    <3> QED BY <1>5, <2>1, <2>2, <3>1, <3>2
  <2>3. CASE j # n + 1
    <3>1. j \in 1 .. n
      BY <1>9, <2>3
    <3> QED BY <1>4, <1>5, <2>1, <3>1
  <2> QED BY <2>2, <2>3
<1>16. Segments(rr, gs, zs)
  BY <1>3, <1>5, <1>8, <1>11, <1>12, <1>13, <1>14, <1>15 DEF Segments
<1>17. HasSegments(rr, zs)
  BY <1>16 DEF HasSegments
<1> QED BY <1>17 DEF zs

\* The greatest of some numbers that have a bound, and of one more.
LEMMA LargestFacts ==
    ASSUME NEW S \in SUBSET Int, NEW d \in Int, NEW top \in Int, d <= top,
           \A y \in S : y <= top
    PROVE  /\ Largest1(S, d) \in Int /\ d <= Largest1(S, d)
           /\ \A y \in S : y <= Largest1(S, d)
           /\ Largest1(S, d) = d \/ Largest1(S, d) \in S
<1> DEFINE T == S \cup {d}
<1>1. T \in SUBSET Int /\ T # {} /\ \A y \in T : y <= top
  OBVIOUS
<1>2. d \in T /\ \A y \in S : y \in T
  OBVIOUS
<1> HIDE DEF T
<1>3. Max(T) \in T /\ \A y \in T : y <= Max(T)
  BY <1>1, MaxOf
<1>4. Largest1(S, d) = Max(T)
  BY DEF Largest1, T
<1>5. Max(T) \in Int /\ d <= Max(T) /\ \A y \in S : y <= Max(T)
  BY <1>1, <1>2, <1>3
<1>6. Max(T) = d \/ Max(T) \in S
  BY <1>3 DEF T
<1> QED BY <1>4, <1>5, <1>6

\* The deepest of the closed segments behind the cursor.
ClosedIs(v, rs, c) ==
    /\ v \in Int /\ 0 <= v
    /\ \A i \in c + 1 .. Len(rs) - 1 : DeclineOf(rs, i) <= v
    /\ v = 0 \/ \E i \in c + 1 .. Len(rs) - 1 : v = DeclineOf(rs, i)

MaxFields == {"period", "front", "back", "records", "cursor", "closedWorst", "last"}

LEMMA DeepenedRecords ==
    ASSUME NEW s, DOMAIN s = MaxFields, NEW x \in Int, s.records \in Seq(Record),
           Len(s.records) > 0, x <= s.records[Len(s.records)].peak
    PROVE  /\ OneDeeper(PushBack(s, x).records, s.records, x)
           /\ PushBack(s, x).cursor = s.cursor
           /\ PushBack(s, x).closedWorst = s.closedWorst
<1> DEFINE n == Len(s.records)
           rs == s.records
           old == rs[n]
           r == [old EXCEPT !.low = Smaller(@, x), !.lowSoFar = Smaller(@, x)]
           t == [s EXCEPT !.back = Append(@, x),
                          !.records[n].low = Smaller(@, x),
                          !.records[n].lowSoFar = Smaller(@, x)]
<1>1. PushBack(s, x) = t
  BY DEF PushBack
<1>2. n \in Nat /\ n \in 1 .. n /\ old \in Record /\ DOMAIN rs = 1 .. n
      /\ \A i \in 1 .. n : rs[i] \in Record
  BY LenProperties
<1>3. /\ DOMAIN old = {"peak", "low", "lowSoFar"} /\ old.peak \in Int /\ old.low \in Int
      /\ old.lowSoFar \in Int
  BY <1>2 DEF Record
<1>4. t.records = [rs EXCEPT ![n] = r] /\ t.cursor = s.cursor /\ t.closedWorst = s.closedWorst
  <2> HIDE DEF n
  <2> QED BY <1>2, <1>3 DEF MaxFields
<1>5. /\ r \in Record /\ r.peak = old.peak /\ r.low = Smaller(old.low, x)
      /\ r.lowSoFar = Smaller(old.lowSoFar, x)
  <2> HIDE DEF old
  <2>1. old = [peak |-> old.peak, low |-> old.low, lowSoFar |-> old.lowSoFar]
    BY <1>2 DEF Record
  <2>2. Smaller(old.low, x) \in Int /\ Smaller(old.lowSoFar, x) \in Int
    BY <1>3 DEF Smaller
  <2> QED BY <1>2, <1>3, <2>1, <2>2 DEF Record
<1> HIDE DEF t, r
<1> DEFINE rr == [rs EXCEPT ![n] = r]
<1>6. /\ rr \in Seq(Record) /\ Len(rr) = n /\ rr[n] = r
      /\ \A i \in 1 .. n : i # n => rr[i] = rs[i]
  <2>1. rr \in Seq(Record) /\ Len(rr) = n
    BY <1>2, <1>5, ExceptSeq
  <2> QED BY <1>2, <2>1
<1> HIDE DEF rr
<1>7. OneDeeper(rr, rs, x)
  BY <1>5, <1>6 DEF OneDeeper
<1> QED BY <1>1, <1>4, <1>7 DEF rr

LEMMA OpenedRecords ==
    ASSUME NEW s, DOMAIN s = MaxFields, NEW x \in Int, s.records \in Seq(Record),
           Len(s.records) > 0 => s.records[Len(s.records)].peak < x
    PROVE  /\ OneMoreRecord(PushBack(s, x).records, s.records, x)
           /\ PushBack(s, x).cursor = s.cursor
           /\ PushBack(s, x).closedWorst =
                  IF s.cursor < Len(s.records)
                  THEN Larger(s.closedWorst, DeclineOf(s.records, Len(s.records)))
                  ELSE s.closedWorst
<1> DEFINE n == Len(s.records)
           rs == s.records
           low == IF n > 0 THEN Smaller(x, rs[n].lowSoFar) ELSE x
           r == [peak |-> x, low |-> x, lowSoFar |-> low]
           w == IF s.cursor < n THEN Larger(s.closedWorst, Drawdown(rs[n].peak, rs[n].low))
                ELSE s.closedWorst
           t == [s EXCEPT !.back = Append(@, x), !.closedWorst = w,
                          !.records = Append(@, r)]
<1>1. n \in Nat /\ \A i \in 1 .. n : rs[i] \in Record /\ rs[i].peak \in Int /\ rs[i].lowSoFar \in Int
  <2>1. n \in Nat /\ \A i \in 1 .. n : rs[i] \in Record
    BY LenProperties
  <2> QED BY <2>1 DEF Record
<1>2. ~(n > 0 /\ x <= rs[n].peak)
  <2>1. n > 0 => rs[n].peak \in Int
    BY <1>1
  <2> QED BY <2>1
<1>3. PushBack(s, x) = t
  BY <1>2 DEF PushBack
<1>4. t.records = Append(rs, r) /\ t.cursor = s.cursor /\ t.closedWorst = w
  BY DEF MaxFields
<1>5. low \in Int
  <2>1. n > 0 => rs[n].lowSoFar \in Int
    BY <1>1
  <2> QED BY <2>1 DEF Smaller
<1>6. r \in Record /\ r.peak = x /\ r.low = x /\ r.lowSoFar = low
  BY <1>5 DEF Record
<1>7. low = IF n = 0 THEN x ELSE Smaller(x, rs[n].lowSoFar)
  BY <1>1
<1> HIDE DEF t, r, low
<1> DEFINE rr == Append(rs, r)
<1>8. /\ rr \in Seq(Record) /\ Len(rr) = n + 1 /\ rr[n + 1] = r
      /\ \A i \in 1 .. n : rr[i] = rs[i]
  BY <1>1, <1>6, AppendProperties
<1> HIDE DEF rr
<1>9. OneMoreRecord(rr, rs, x)
  BY <1>6, <1>7, <1>8 DEF OneMoreRecord
<1> QED BY <1>3, <1>4, <1>9 DEF rr, DeclineOf

\* The segments of the newer half after one more value.
LEMMA PushKeepsSegments ==
    ASSUME NEW s, DOMAIN s = MaxFields, s.back \in Ints, NEW x \in Int,
           HasSegments(s.records, s.back), s.cursor \in 0 .. Len(s.records),
           ClosedIs(s.closedWorst, s.records, s.cursor)
    PROVE  LET t == PushBack(s, x)
           IN  /\ HasSegments(t.records, Append(s.back, x))
               /\ t.cursor = s.cursor /\ t.cursor \in 0 .. Len(t.records)
               /\ ClosedIs(t.closedWorst, t.records, t.cursor)
               /\ \A i \in 1 .. Len(t.records) - 1 : /\ i \in 1 .. Len(s.records)
                                                     /\ t.records[i].peak = s.records[i].peak
<1> DEFINE t == PushBack(s, x)
           rs == s.records
           n == Len(rs)
           c == s.cursor
           rr == t.records
<1>1. PICK seg : Segments(rs, seg, s.back)
  BY DEF HasSegments
<1>2. /\ n \in Nat /\ rs \in Seq(Record)
      /\ \A i \in 1 .. n : rs[i].peak \in Int /\ DeclineOf(rs, i) \in Int /\ 0 <= DeclineOf(rs, i)
  <2>1. rs \in Seq(Record)
    BY <1>1 DEF Segments
  <2>2. /\ Len(rs) \in Nat
        /\ \A i \in 1 .. Len(rs) : /\ rs[i].peak \in Int
                                   /\ DeclineOf(rs, i) \in Int /\ 0 <= DeclineOf(rs, i)
    BY <1>1, SegmentsFacts
  <2> QED BY <2>1, <2>2
<1>3. c \in 0 .. n /\ ClosedIs(s.closedWorst, rs, c)
  OBVIOUS
<1>4. CASE n > 0 /\ x <= rs[n].peak
  <2>1. OneDeeper(rr, rs, x) /\ t.cursor = c /\ t.closedWorst = s.closedWorst
    BY <1>2, <1>4, DeepenedRecords
  <2>2. HasSegments(rr, Append(s.back, x))
    BY <1>2, <1>4, <2>1, SegmentDeepens
  <2>3. Len(rr) = n /\ rr[n].peak = rs[n].peak /\ \A i \in 1 .. n : i # n => rr[i] = rs[i]
    BY <2>1 DEF OneDeeper
  <2> HIDE DEF t, rs, n, c
  <2>4. \A i \in c + 1 .. n - 1 : i \in 1 .. n /\ i # n
    BY <1>2, <1>3
  <2>5. \A i \in c + 1 .. n - 1 : DeclineOf(rr, i) = DeclineOf(rs, i)
    BY <2>3, <2>4 DEF DeclineOf
  <2>6. ClosedIs(s.closedWorst, rr, c)
    BY <1>3, <2>3, <2>5 DEF ClosedIs, n
  <2>7. \A i \in 1 .. n - 1 : i \in 1 .. n /\ i # n
    BY <1>2
  <2>8. \A i \in 1 .. n - 1 : i \in 1 .. n /\ rr[i].peak = rs[i].peak
    BY <2>3, <2>7
  <2> QED BY <1>3, <2>1, <2>2, <2>3, <2>6, <2>8 DEF t, rs, n, c
<1>5. CASE ~(n > 0 /\ x <= rs[n].peak)
  <2>0. n > 0 => rs[n].peak < x
    <3>1. n > 0 => rs[n].peak \in Int
      BY <1>2
    <3> QED BY <1>5, <3>1
  <2>1. /\ OneMoreRecord(rr, rs, x) /\ t.cursor = c
        /\ t.closedWorst = IF c < n THEN Larger(s.closedWorst, DeclineOf(rs, n))
                           ELSE s.closedWorst
    BY <1>2, <2>0, OpenedRecords
  <2>2. HasSegments(rr, Append(s.back, x))
    <3>1. Len(rs) # 0 => rs[Len(rs)].peak < x
      BY <1>2, <2>0
    <3> QED BY <2>1, <3>1, SegmentOpens
  <2>3. Len(rr) = n + 1 /\ \A i \in 1 .. n : rr[i] = rs[i]
    BY <2>1 DEF OneMoreRecord
  <2> HIDE DEF t, rs, n, c
  <2>4. \A i \in c + 1 .. n : i \in 1 .. n
    BY <1>2, <1>3
  <2>5. \A i \in c + 1 .. n : DeclineOf(rr, i) = DeclineOf(rs, i)
    BY <2>3, <2>4 DEF DeclineOf
  <2>6. ClosedIs(t.closedWorst, rr, c)
    <3> DEFINE v == s.closedWorst
               u == t.closedWorst
    <3>0. /\ v \in Int /\ 0 <= v
          /\ \A i \in c + 1 .. n - 1 : DeclineOf(rs, i) <= v
          /\ v = 0 \/ \E i \in c + 1 .. n - 1 : v = DeclineOf(rs, i)
      BY <1>3 DEF ClosedIs, n
    <3>1. Len(rr) - 1 = n
      BY <1>2, <2>3
    <3> HIDE DEF v, u
    <3>2. CASE c < n
      <4>1. u = Larger(v, DeclineOf(rs, n)) /\ DeclineOf(rs, n) \in Int /\ n \in c + 1 .. n
        BY <1>2, <1>3, <2>1, <3>2 DEF u, v
      <4>2. /\ u \in Int /\ v <= u /\ DeclineOf(rs, n) <= u
            /\ u = v \/ u = DeclineOf(rs, n)
        BY <3>0, <4>1 DEF Larger
      <4>3. \A i \in c + 1 .. n : i = n \/ i \in c + 1 .. n - 1
        BY <1>2, <1>3
      <4>4. \A i \in c + 1 .. n : DeclineOf(rs, i) <= u
        <5> SUFFICES ASSUME NEW i \in c + 1 .. n PROVE DeclineOf(rs, i) <= u
          OBVIOUS
        <5>1. DeclineOf(rs, i) \in Int
          BY <1>2, <2>4
        <5>2. i = n \/ DeclineOf(rs, i) <= v
          BY <3>0, <4>3
        <5> QED BY <3>0, <4>2, <5>1, <5>2
      <4>5. u = 0 \/ \E i \in c + 1 .. n : u = DeclineOf(rs, i)
        <5>1. CASE u = v
          <6>1. \A i \in c + 1 .. n - 1 : i \in c + 1 .. n
            BY <1>2, <1>3
          <6> QED BY <3>0, <5>1, <6>1
        <5>2. CASE u = DeclineOf(rs, n)
          BY <4>1, <5>2
        <5> QED BY <4>2, <5>1, <5>2
      <4>6. 0 <= u
        BY <3>0, <4>2
      <4>7. /\ \A i \in c + 1 .. n : DeclineOf(rr, i) <= u
            /\ u = 0 \/ \E i \in c + 1 .. n : u = DeclineOf(rr, i)
        BY <2>5, <4>4, <4>5
      <4> QED BY <3>1, <4>2, <4>6, <4>7 DEF ClosedIs, u
    <3>3. CASE ~(c < n)
      <4>1. c = n /\ u = v
        BY <1>2, <1>3, <2>1, <3>3 DEF u, v
      <4>2. c + 1 .. n = {} /\ c + 1 .. n - 1 = {}
        BY <1>2, <4>1
      <4> QED BY <3>0, <3>1, <4>1, <4>2 DEF ClosedIs, u
    <3> QED BY <3>2, <3>3
  <2>7. Len(rr) - 1 = n /\ c \in 0 .. Len(rr)
    BY <1>2, <1>3, <2>3
  <2>8. \A i \in 1 .. n : i \in 1 .. n /\ rr[i].peak = rs[i].peak
    BY <2>3
  <2> QED BY <2>1, <2>2, <2>6, <2>7, <2>8 DEF t, rs, n, c
<1> QED BY <1>4, <1>5

\* What is known of the segments for moving the cursor, and from where it is moved.
Ordered(rs) ==
    /\ Len(rs) \in Nat
    /\ \A i \in 1 .. Len(rs) : /\ rs[i].peak \in Int
                               /\ DeclineOf(rs, i) \in Int /\ 0 <= DeclineOf(rs, i)
    /\ \A i, j \in 1 .. Len(rs) : i < j => rs[i].peak < rs[j].peak

LEMMA SegmentsOrdered ==
    ASSUME NEW ys \in Ints, NEW rs, HasSegments(rs, ys)
    PROVE  Ordered(rs)
<1>1. PICK seg : Segments(rs, seg, ys)
  BY DEF HasSegments
<1>2. /\ Len(rs) \in Nat
      /\ \A i \in 1 .. Len(rs) : /\ rs[i].peak \in Int
                                 /\ DeclineOf(rs, i) \in Int /\ 0 <= DeclineOf(rs, i)
  BY <1>1, SegmentsFacts
<1>3. \A i, j \in 1 .. Len(rs) : i < j => rs[i].peak < rs[j].peak
  BY <1>1 DEF Segments
<1> QED BY <1>2, <1>3 DEF Ordered

\* The two places the loops of worst end at.
RightOf(rs, c, P) == Min({d \in c .. Len(rs) : d = Len(rs) \/ rs[d + 1].peak > P})
LeftOf(rs, right, P) == Min({d \in 0 .. right : \A i \in d + 1 .. right : rs[i].peak > P})
PassedBy(rs, left, right, w) ==
    Largest1({DeclineOf(rs, i) : i \in {j \in left + 1 .. right : j < Len(rs)}}, w)

LEMMA MoveCursorIs ==
    ASSUME NEW s, DOMAIN s = MaxFields, NEW P
    PROVE  LET right == RightOf(s.records, s.cursor, P)
               left == LeftOf(s.records, right, P)
           IN  MoveCursor(s, P) = [s EXCEPT !.cursor = left,
                   !.closedWorst = PassedBy(s.records, left, right, s.closedWorst)]
  BY DEF MoveCursor, RightOf, LeftOf, PassedBy, DeclineOf, MaxFields

Behind(rs, c, P) == \A i \in c + 1 .. Len(rs) - 1 : P < rs[i].peak

LEMMA RightFacts ==
    ASSUME NEW rs, Ordered(rs), NEW P \in Int, NEW c \in 0 .. Len(rs), Behind(rs, c, P)
    PROVE  LET right == RightOf(rs, c, P)
           IN  /\ right \in c .. Len(rs)
               /\ right = c \/ (right = Len(rs) /\ c = Len(rs) - 1)
               /\ \A i \in right + 1 .. Len(rs) : P < rs[i].peak
<1> DEFINE n == Len(rs)
           S == {d \in c .. n : d = n \/ rs[d + 1].peak > P}
           right == RightOf(rs, c, P)
<1>1. /\ n \in Nat /\ \A i \in 1 .. n : rs[i].peak \in Int
      /\ \A i, j \in 1 .. n : i < j => rs[i].peak < rs[j].peak
  BY DEF Ordered
<1>2. c \in 0 .. n /\ \A i \in c + 1 .. n - 1 : P < rs[i].peak
  BY DEF Behind
<1>3. right = Min(S)
  BY DEF RightOf
<1> HIDE DEF n, right
<1>4. S \in SUBSET Int /\ n \in S /\ \A d \in S : c <= d
  BY <1>1, <1>2
<1>5. right \in S /\ \A d \in S : right <= d
  <2> HIDE DEF S
  <2>1. S # {} /\ c \in Int
    BY <1>1, <1>2, <1>4
  <2> QED BY <1>3, <1>4, <2>1, MinOf
<1>6. right \in c .. n /\ (right = n \/ P < rs[right + 1].peak)
  <2>1. right = n \/ right + 1 \in 1 .. n
    BY <1>1, <1>2, <1>5
  <2> QED BY <1>1, <1>5, <2>1
<1>7. right = c \/ (right = n /\ c = n - 1)
  <2> SUFFICES ASSUME right # c PROVE right = n /\ c = n - 1
    OBVIOUS
  <2>1. c \notin S /\ c \in c .. n
    BY <1>1, <1>2, <1>5, <1>6
  <2>2. c # n /\ ~(rs[c + 1].peak > P)
    BY <2>1
  <2>3. c + 1 \notin c + 1 .. n - 1
    <3>1. c + 1 \in 1 .. n
      BY <1>1, <1>2, <2>2
    <3> QED BY <1>1, <1>2, <2>2, <3>1
  <2> QED BY <1>1, <1>2, <1>6, <2>2, <2>3
<1>8. ASSUME NEW i \in right + 1 .. n PROVE P < rs[i].peak
  <2>1. right # n /\ i \in 1 .. n /\ right + 1 \in 1 .. n /\ (i = right + 1 \/ right + 1 < i)
    BY <1>1, <1>2, <1>6
  <2>2. rs[i].peak \in Int /\ rs[right + 1].peak \in Int /\ P < rs[right + 1].peak
    BY <1>1, <1>6, <2>1
  <2>3. i = right + 1 \/ rs[right + 1].peak < rs[i].peak
    BY <1>1, <2>1
  <2> QED BY <2>2, <2>3
<1> QED BY <1>6, <1>7, <1>8 DEF n, right

LEMMA LeftFacts ==
    ASSUME NEW rs, Ordered(rs), NEW P \in Int, NEW right \in 0 .. Len(rs)
    PROVE  LET left == LeftOf(rs, right, P)
           IN  /\ left \in 0 .. right
               /\ left > 0 => rs[left].peak <= P
               /\ \A i \in left + 1 .. right : P < rs[i].peak
<1> DEFINE n == Len(rs)
           S == {d \in 0 .. right : \A i \in d + 1 .. right : rs[i].peak > P}
           left == LeftOf(rs, right, P)
<1>1. n \in Nat /\ \A i \in 1 .. n : rs[i].peak \in Int
  BY DEF Ordered
<1>2. right \in 0 .. n
  OBVIOUS
<1>3. left = Min(S)
  BY DEF LeftOf
<1> HIDE DEF n, left
<1>4. S \in SUBSET Int /\ right \in S /\ \A d \in S : 0 <= d
  BY <1>1, <1>2
<1>5. left \in S /\ \A d \in S : left <= d
  <2> HIDE DEF S
  <2>1. S # {}
    BY <1>4
  <2> QED BY <1>3, <1>4, <2>1, MinOf
<1>6. left \in 0 .. right /\ \A i \in left + 1 .. right : P < rs[i].peak
  <2>1. \A i \in left + 1 .. right : i \in 1 .. n
    BY <1>1, <1>2, <1>5
  <2> QED BY <1>1, <1>5, <2>1
<1>7. left > 0 => rs[left].peak <= P
  <2> SUFFICES ASSUME left > 0, ~(rs[left].peak <= P) PROVE FALSE
    OBVIOUS
  <2>1. left \in 1 .. n /\ left - 1 \in 0 .. right
    BY <1>1, <1>2, <1>6
  <2>2. rs[left].peak > P
    BY <1>1, <2>1
  <2>3. \A i \in (left - 1) + 1 .. right : i = left \/ i \in left + 1 .. right
    BY <1>2, <1>6
  <2>4. \A i \in (left - 1) + 1 .. right : rs[i].peak > P
    BY <1>5, <2>2, <2>3
  <2>5. left - 1 \in S
    BY <2>1, <2>4
  <2>6. left <= left - 1
    BY <1>5, <2>5
  <2> QED BY <1>2, <1>6, <2>6
<1> QED BY <1>6, <1>7 DEF left

LEMMA PassedKeeps ==
    ASSUME NEW rs, Ordered(rs), NEW c \in 0 .. Len(rs), NEW w, ClosedIs(w, rs, c),
           NEW right \in c .. Len(rs), right = c \/ (right = Len(rs) /\ c = Len(rs) - 1),
           NEW left \in 0 .. right
    PROVE  ClosedIs(PassedBy(rs, left, right, w), rs, left)
<1> DEFINE n == Len(rs)
           J == {j \in left + 1 .. right : j < n}
           S == {DeclineOf(rs, i) : i \in J}
           v == PassedBy(rs, left, right, w)
<1>1. n \in Nat /\ \A i \in 1 .. n : DeclineOf(rs, i) \in Int
  BY DEF Ordered
<1>2. /\ c \in 0 .. n /\ right \in c .. n /\ left \in 0 .. right
      /\ right = c \/ (right = n /\ c = n - 1)
  OBVIOUS
<1>3. /\ w \in Int /\ 0 <= w
      /\ \A i \in c + 1 .. n - 1 : DeclineOf(rs, i) <= w
      /\ w = 0 \/ \E i \in c + 1 .. n - 1 : w = DeclineOf(rs, i)
  BY DEF ClosedIs
<1>4. v = Largest1(S, w)
  BY DEF PassedBy
<1> DEFINE f == [i \in 1 .. n |-> DeclineOf(rs, i)]
<1>5. PICK hi \in Int : \A i \in 1 .. n : DeclineOf(rs, i) <= hi
  <2>1. \A i \in 1 .. n : f[i] = DeclineOf(rs, i) /\ f[i] \in Int
    BY <1>1
  <2> HIDE DEF f
  <2>2. PICK lo \in Int, h \in Int : \A i \in 1 .. n : lo <= f[i] /\ f[i] <= h
    BY <1>1, <2>1, Bounded
  <2> QED BY <2>1, <2>2
<1> DEFINE top == Larger(hi, w)
<1>6. top \in Int /\ hi <= top /\ w <= top
  BY <1>3 DEF Larger
<1> HIDE DEF n, v, top, f
<1>7. \A i \in J : i \in 1 .. n /\ i \in left + 1 .. n - 1
  BY <1>1, <1>2
<1>8. S \in SUBSET Int /\ \A y \in S : y <= top
  <2>1. \A i \in J : /\ DeclineOf(rs, i) \in Int /\ DeclineOf(rs, i) <= hi
    BY <1>1, <1>5, <1>7
  <2>2. \A i \in J : DeclineOf(rs, i) <= top
    BY <1>6, <2>1
  <2> HIDE DEF J
  <2> QED BY <2>1, <2>2
<1>9. /\ v \in Int /\ w <= v
      /\ \A y \in S : y <= v
      /\ v = w \/ v \in S
  <2> HIDE DEF S
  <2> QED BY <1>3, <1>4, <1>6, <1>8, LargestFacts
<1>10. 0 <= v
  BY <1>3, <1>9
<1>11. ASSUME NEW i \in left + 1 .. n - 1 PROVE DeclineOf(rs, i) <= v
  <2>1. CASE i \in J
    BY <1>9, <2>1
  <2>2. CASE i \notin J
    <3>1. i \in c + 1 .. n - 1 /\ i \in 1 .. n
      BY <1>1, <1>2, <2>2
    <3>2. DeclineOf(rs, i) \in Int /\ DeclineOf(rs, i) <= w
      BY <1>1, <1>3, <3>1
    <3> QED BY <1>3, <1>9, <3>2
  <2> QED BY <2>1, <2>2
<1>12. v = 0 \/ \E i \in left + 1 .. n - 1 : v = DeclineOf(rs, i)
  <2>1. CASE v = w
    <3>1. \A i \in c + 1 .. n - 1 : i \in left + 1 .. n - 1
      BY <1>1, <1>2
    <3> QED BY <1>3, <2>1, <3>1
  <2>2. CASE v \in S
    BY <1>7, <2>2
  <2> QED BY <1>9, <2>1, <2>2
<1> QED BY <1>9, <1>10, <1>11, <1>12 DEF ClosedIs, n, v

\* Where the front's peak stops covering the segments.
SplitAt(rs, c, P) ==
    /\ c \in 0 .. Len(rs)
    /\ c > 0 => rs[c].peak <= P
    /\ \A i \in c + 1 .. Len(rs) : P < rs[i].peak

LEMMA CursorMoves ==
    ASSUME NEW s, DOMAIN s = MaxFields, NEW P \in Int, Ordered(s.records),
           s.cursor \in 0 .. Len(s.records), Behind(s.records, s.cursor, P),
           ClosedIs(s.closedWorst, s.records, s.cursor)
    PROVE  LET m == MoveCursor(s, P)
           IN  /\ DOMAIN m = MaxFields
               /\ m.period = s.period /\ m.front = s.front /\ m.back = s.back
               /\ m.records = s.records /\ m.last = s.last
               /\ SplitAt(s.records, m.cursor, P)
               /\ ClosedIs(m.closedWorst, s.records, m.cursor)
<1> DEFINE rs == s.records
           right == RightOf(rs, s.cursor, P)
           left == LeftOf(rs, right, P)
           v == PassedBy(rs, left, right, s.closedWorst)
           m == MoveCursor(s, P)
<1>1. m = [s EXCEPT !.cursor = left, !.closedWorst = v]
  BY MoveCursorIs
<1>2. /\ right \in s.cursor .. Len(rs)
      /\ right = s.cursor \/ (right = Len(rs) /\ s.cursor = Len(rs) - 1)
      /\ \A i \in right + 1 .. Len(rs) : P < rs[i].peak
  BY RightFacts
<1> HIDE DEF right, m
<1>3. right \in 0 .. Len(rs) /\ Len(rs) \in Nat
  BY <1>2 DEF Ordered
<1>4. /\ left \in 0 .. right
      /\ left > 0 => rs[left].peak <= P
      /\ \A i \in left + 1 .. right : P < rs[i].peak
  BY <1>3, LeftFacts
<1> HIDE DEF left
<1>5. ClosedIs(v, rs, left)
  BY <1>2, <1>4, PassedKeeps
<1>6. SplitAt(rs, left, P)
  <2>1. left \in 0 .. Len(rs)
    BY <1>3, <1>4
  <2>2. \A i \in left + 1 .. Len(rs) : i \in left + 1 .. right \/ i \in right + 1 .. Len(rs)
    BY <1>3, <1>4
  <2>3. \A i \in left + 1 .. Len(rs) : P < rs[i].peak
    BY <1>2, <1>4, <2>2
  <2> QED BY <1>4, <2>1, <2>3 DEF SplitAt
<1> HIDE DEF v
<1>7. /\ DOMAIN m = MaxFields
      /\ m.period = s.period /\ m.front = s.front /\ m.back = s.back
      /\ m.records = s.records /\ m.last = s.last
      /\ m.cursor = left /\ m.closedWorst = v
  BY <1>1 DEF MaxFields
<1> QED BY <1>5, <1>6, <1>7 DEF m

\* The two halves: f values, then ys.
IsRest(ys, xs, f) ==
    /\ ys \in Ints /\ f \in Nat /\ Len(xs) = f + Len(ys)
    /\ \A i \in 1 .. Len(ys) : ys[i] = xs[f + i]
PeakOfOld(xs, f) == IF f = 0 THEN Bottom ELSE Highest(xs, 1, f)
WorstOfOld(xs, f) == IF f = 0 THEN 0 ELSE Deep(xs, 1, f)

LEMMA PeakAcross ==
    ASSUME NEW xs, Above(xs), NEW ys, NEW f, IsRest(ys, xs, f), NEW u \in 1 .. Len(ys)
    PROVE  Peak(xs, f + u) = Larger(PeakOfOld(xs, f), Peak(ys, u))
<1>1. /\ ys \in Ints /\ f \in Nat /\ Len(xs) = f + Len(ys)
      /\ \A i \in 1 .. Len(ys) : ys[i] = xs[f + i]
      /\ xs \in Ints /\ \A i \in 1 .. Len(xs) : Bottom < xs[i]
  BY DEF IsRest, Above
<1>2. /\ Len(ys) \in Nat /\ Len(xs) \in Nat
      /\ \A i \in 1 .. Len(xs) : xs[i] \in Int
      /\ \A i \in 1 .. Len(ys) : ys[i] \in Int
  BY <1>1, IntsFacts
<1>3. /\ Peak(ys, u) \in Int
      /\ \E k \in 1 .. u : Peak(ys, u) = ys[k]
      /\ \A i \in 1 .. u : ys[i] <= Peak(ys, u)
  BY <1>1, PeakFacts
<1>4. PICK k \in 1 .. u : Peak(ys, u) = ys[k]
  BY <1>3
<1>5. /\ k \in 1 .. Len(ys) /\ f + k \in 1 .. f + u /\ f + u \in 1 .. Len(xs)
      /\ f + k \in 1 .. Len(xs)
  BY <1>1, <1>2
<1>6. xs[f + k] = Peak(ys, u) /\ Bottom < xs[f + k]
  BY <1>1, <1>4, <1>5
<1>7. \A i \in f + 1 .. f + u : xs[i] <= xs[f + k]
  <2> SUFFICES ASSUME NEW i \in f + 1 .. f + u PROVE xs[i] <= xs[f + k]
    OBVIOUS
  <2>1. i - f \in 1 .. u /\ i - f \in 1 .. Len(ys) /\ f + (i - f) = i
    BY <1>1, <1>2
  <2>2. ys[i - f] = xs[i]
    BY <1>1, <2>1
  <2> QED BY <1>3, <1>6, <2>1, <2>2
<1>8. CASE f = 0
  <2>1. \A i \in 1 .. f + u : i \in f + 1 .. f + u
    BY <1>8
  <2>2. \A i \in 1 .. f + u : xs[i] <= xs[f + k]
    BY <1>7, <2>1
  <2>3. Peak(xs, f + u) = xs[f + k]
    BY <1>1, <1>5, <2>2, PeakIs
  <2>4. PeakOfOld(xs, f) = Bottom
    BY <1>8 DEF PeakOfOld
  <2> QED BY <1>6, <2>3, <2>4 DEF Larger
<1>9. CASE f # 0
  <2> DEFINE a == Highest(xs, 1, f)
  <2>1. \A i \in 1 .. f : xs[i] \in Int
    BY <1>1, <1>2
  <2>2. 1 <= f
    BY <1>1, <1>9
  <2>3. /\ a \in Int /\ \E l \in 1 .. f : a = xs[l]
        /\ \A i \in 1 .. f : xs[i] <= a
    BY <1>1, <2>1, <2>2, HighestFacts
  <2>4. PICK l \in 1 .. f : a = xs[l]
    BY <2>3
  <2>5. PeakOfOld(xs, f) = a
    BY <1>9 DEF PeakOfOld
  <2> HIDE DEF a
  <2>6. \A i \in 1 .. f + u : i \in 1 .. f \/ i \in f + 1 .. f + u
    BY <1>1
  <2>7. \A i \in 1 .. f + u : xs[i] \in Int /\ (xs[i] <= xs[l] \/ xs[i] <= xs[f + k])
    BY <1>1, <1>2, <1>5, <1>7, <2>3, <2>4, <2>6
  <2>8. l \in 1 .. f + u /\ xs[l] \in Int /\ xs[f + k] \in Int
    BY <1>1, <1>2, <1>5, <2>1
  <2>9. CASE a < Peak(ys, u)
    <3>1. \A i \in 1 .. f + u : xs[i] <= xs[f + k]
      BY <1>6, <2>4, <2>7, <2>8, <2>9
    <3>2. Peak(xs, f + u) = xs[f + k]
      BY <1>1, <1>5, <3>1, PeakIs
    <3> QED BY <1>6, <2>5, <2>9, <3>2 DEF Larger
  <2>10. CASE ~(a < Peak(ys, u))
    <3>1. \A i \in 1 .. f + u : xs[i] <= xs[l]
      BY <1>6, <2>4, <2>7, <2>8, <2>10
    <3>2. Peak(xs, f + u) = xs[l]
      BY <1>1, <1>5, <2>8, <3>1, PeakIs
    <3> QED BY <2>4, <2>5, <2>10, <3>2 DEF Larger
  <2> QED BY <2>9, <2>10
<1> QED BY <1>8, <1>9

\* A drawdown of the whole window.
FallOf(xs, t) == Drawdown(Peak(xs, t), xs[t])
Reached(v, xs) == v \in Int /\ \E k \in 1 .. Len(xs) : v = FallOf(xs, k)

LEMMA DeepestIsReached ==
    ASSUME NEW xs \in Ints, NEW v, Reached(v, xs), \A t \in 1 .. Len(xs) : FallOf(xs, t) <= v
    PROVE  DeepestDecline(xs) = v
<1>1. PICK k \in 1 .. Len(xs) : v = FallOf(xs, k)
  BY DEF Reached
<1>2. \A t \in 1 .. Len(xs) : Drawdown(Peak(xs, t), xs[t]) <= v
  BY DEF FallOf
<1>3. v = Drawdown(Peak(xs, k), xs[k])
  BY <1>1 DEF FallOf
<1> QED BY <1>2, <1>3, DeepestIs

\* The older values.
LEMMA FallsOfOld ==
    ASSUME NEW xs \in Ints, xs # <<>>, NEW f \in 0 .. Len(xs)
    PROVE  /\ Reached(WorstOfOld(xs, f), xs) /\ Reached(0, xs)
           /\ \A t \in 1 .. f : FallOf(xs, t) <= WorstOfOld(xs, f)
           /\ \A t \in 1 .. Len(xs) : FallOf(xs, t) \in Int
<1>1. /\ Len(xs) \in Nat /\ Len(xs) # 0
      /\ \A i \in 1 .. Len(xs) : xs[i] \in Int
  BY IntsFacts
<1>2. \A t \in 1 .. Len(xs) : FallOf(xs, t) \in Int
  <2> SUFFICES ASSUME NEW t \in 1 .. Len(xs) PROVE FallOf(xs, t) \in Int
    OBVIOUS
  <2>1. Peak(xs, t) \in Int /\ xs[t] \in Int
    BY <1>1, PeakFacts
  <2> QED BY <2>1, DrawdownFacts DEF FallOf
<1>3. Reached(0, xs)
  <2>1. 1 \in 1 .. Len(xs)
    BY <1>1
  <2>2. Peak(xs, 1) = xs[1]
    <3>1. \A i \in 1 .. 1 : i = 1
      OBVIOUS
    <3>2. /\ Peak(xs, 1) \in Int /\ \E k \in 1 .. 1 : Peak(xs, 1) = xs[k]
      BY <2>1, PeakFacts
    <3> QED BY <3>1, <3>2
  <2>3. FallOf(xs, 1) = 0
    BY <1>1, <2>1, <2>2, DrawdownFacts DEF FallOf
  <2> QED BY <2>1, <2>3 DEF Reached
<1>4. CASE f = 0
  <2>1. WorstOfOld(xs, f) = 0 /\ 1 .. f = {}
    BY <1>4 DEF WorstOfOld
  <2> QED BY <1>2, <1>3, <2>1
<1>5. CASE f # 0
  <2> DEFINE W == Deep(xs, 1, f)
  <2>1. 1 <= f /\ f \in Int /\ \A i \in 1 .. f : i \in 1 .. Len(xs) /\ xs[i] \in Int
    BY <1>1, <1>5
  <2>2. /\ W \in Int /\ \E k \in 1 .. f : W = FallAt(xs, 1, k)
        /\ \A t \in 1 .. f : FallAt(xs, 1, t) <= W
    BY <2>1, DeepFacts
  <2>3. WorstOfOld(xs, f) = W
    BY <1>5 DEF WorstOfOld
  <2> HIDE DEF W
  <2>4. \A t \in 1 .. f : FallAt(xs, 1, t) = FallOf(xs, t)
    BY DeepOfAll DEF FallAt, FallOf
  <2>5. Reached(W, xs)
    BY <2>1, <2>2, <2>4 DEF Reached
  <2> QED BY <1>2, <1>3, <2>2, <2>3, <2>4, <2>5
<1> QED BY <1>4, <1>5

\* The newer ones, by their segment.
LEMMA FallsOfNew ==
    ASSUME NEW xs, Above(xs), NEW ys, NEW f, IsRest(ys, xs, f),
           NEW rs, NEW seg, Segments(rs, seg, ys),
           NEW P \in Int, P = PeakOfOld(xs, f), NEW c, SplitAt(rs, c, P)
    PROVE  /\ \A i \in c + 1 .. Len(rs) : Reached(DeclineOf(rs, i), xs)
           /\ c > 0 => Reached(Drawdown(P, rs[c].lowSoFar), xs)
           /\ \A u \in 1 .. Len(ys) :
                  \/ /\ seg[u] \in c + 1 .. Len(rs)
                     /\ FallOf(xs, f + u) <= DeclineOf(rs, seg[u])
                  \/ c > 0 /\ FallOf(xs, f + u) <= Drawdown(P, rs[c].lowSoFar)
<1> DEFINE n == Len(rs)
           b == Len(ys)
<1>1. /\ ys \in Ints /\ f \in Nat /\ Len(xs) = f + b
      /\ \A i \in 1 .. b : ys[i] = xs[f + i]
  BY DEF IsRest
<1>2. b \in Nat /\ \A i \in 1 .. b : ys[i] \in Int /\ f + i \in 1 .. Len(xs)
  <2>1. b \in Nat /\ \A i \in 1 .. b : ys[i] \in Int
    BY <1>1, IntsFacts
  <2> QED BY <1>1, <2>1
<1>3. /\ n \in Nat
      /\ \A i \in 1 .. n : /\ rs[i].peak \in Int /\ rs[i].low \in Int
                           /\ rs[i].lowSoFar \in Int /\ DeclineOf(rs, i) \in Int
  BY <1>1, SegmentsFacts
<1>4. /\ \A u \in 1 .. b : /\ seg[u] \in 1 .. n /\ rs[seg[u]].peak = Peak(ys, u)
                           /\ rs[seg[u]].low <= ys[u]
      /\ \A i \in 1 .. n : \E u \in 1 .. b : seg[u] = i /\ ys[u] = rs[i].low
      /\ \A i \in 1 .. n : \A u \in 1 .. b : seg[u] <= i => rs[i].lowSoFar <= ys[u]
      /\ \A i \in 1 .. n : \E u \in 1 .. b : seg[u] <= i /\ ys[u] = rs[i].lowSoFar
      /\ \A i, j \in 1 .. n : i < j => rs[i].peak < rs[j].peak
  BY DEF Segments
<1>5. c \in 0 .. n /\ (c > 0 => rs[c].peak <= P) /\ \A i \in c + 1 .. n : P < rs[i].peak
  BY DEF SplitAt
<1> HIDE DEF n, b
\* A value is below its segment's peak, or below the front's.
<1>6. ASSUME NEW u \in 1 .. b
      PROVE  /\ seg[u] \in c + 1 .. n => FallOf(xs, f + u) = Drawdown(rs[seg[u]].peak, ys[u])
             /\ seg[u] <= c => FallOf(xs, f + u) = Drawdown(P, ys[u])
             /\ seg[u] \in c + 1 .. n \/ (seg[u] <= c /\ c \in 1 .. n)
  <2>1. /\ Peak(xs, f + u) = Larger(P, rs[seg[u]].peak) /\ xs[f + u] = ys[u]
        /\ seg[u] \in 1 .. n /\ rs[seg[u]].peak \in Int
    <3>1. u \in 1 .. Len(ys)
      BY DEF b
    <3>2. Peak(xs, f + u) = Larger(PeakOfOld(xs, f), Peak(ys, u))
      BY <3>1, PeakAcross
    <3> QED BY <1>1, <1>3, <1>4, <3>2
  <2>2. ASSUME seg[u] \in c + 1 .. n PROVE Peak(xs, f + u) = rs[seg[u]].peak
    <3>1. P < rs[seg[u]].peak
      BY <1>5, <2>2
    <3> QED BY <2>1, <3>1 DEF Larger
  <2>3. ASSUME seg[u] <= c PROVE Peak(xs, f + u) = P
    <3>1. c \in 1 .. n /\ c > 0 /\ (seg[u] = c \/ seg[u] < c)
      BY <1>3, <1>5, <2>1, <2>3
    <3>2. rs[seg[u]].peak = rs[c].peak \/ rs[seg[u]].peak < rs[c].peak
      BY <1>4, <2>1, <3>1
    <3>3. rs[seg[u]].peak <= P
      BY <1>3, <1>5, <2>1, <3>1, <3>2
    <3> QED BY <2>1, <3>3 DEF Larger
  <2>4. seg[u] \in c + 1 .. n \/ (seg[u] <= c /\ c \in 1 .. n)
    BY <1>3, <1>5, <2>1
  <2> QED BY <2>1, <2>2, <2>3, <2>4 DEF FallOf
<1>7. ASSUME NEW i \in c + 1 .. n PROVE Reached(DeclineOf(rs, i), xs)
  <2>1. i \in 1 .. n
    BY <1>3, <1>5
  <2>2. PICK u \in 1 .. b : seg[u] = i /\ ys[u] = rs[i].low
    BY <1>4, <2>1
  <2>3. FallOf(xs, f + u) = DeclineOf(rs, i)
    BY <1>6, <2>2 DEF DeclineOf
  <2> QED BY <1>2, <1>3, <2>1, <2>3 DEF Reached
<1>8. ASSUME c > 0 PROVE Reached(Drawdown(P, rs[c].lowSoFar), xs)
  <2>1. c \in 1 .. n
    BY <1>3, <1>5, <1>8
  <2>2. PICK u \in 1 .. b : seg[u] <= c /\ ys[u] = rs[c].lowSoFar
    BY <1>4, <2>1
  <2>3. FallOf(xs, f + u) = Drawdown(P, rs[c].lowSoFar)
    BY <1>6, <2>2
  <2>4. Drawdown(P, rs[c].lowSoFar) \in Int
    BY <1>3, <2>1, DrawdownFacts
  <2> QED BY <1>2, <2>3, <2>4 DEF Reached
<1>9. ASSUME NEW u \in 1 .. b
      PROVE  \/ /\ seg[u] \in c + 1 .. n
                /\ FallOf(xs, f + u) <= DeclineOf(rs, seg[u])
             \/ c > 0 /\ FallOf(xs, f + u) <= Drawdown(P, rs[c].lowSoFar)
  <2>1. CASE seg[u] \in c + 1 .. n
    <3>1. /\ rs[seg[u]].peak \in Int /\ rs[seg[u]].low \in Int /\ ys[u] \in Int
          /\ rs[seg[u]].low <= ys[u]
      BY <1>2, <1>3, <1>4
    <3>2. Drawdown(rs[seg[u]].peak, ys[u]) <= Drawdown(rs[seg[u]].peak, rs[seg[u]].low)
      BY <3>1, DrawdownFacts
    <3> QED BY <1>6, <2>1, <3>2 DEF DeclineOf
  <2>2. CASE seg[u] <= c /\ c \in 1 .. n
    <3>1. rs[c].lowSoFar <= ys[u] /\ rs[c].lowSoFar \in Int /\ ys[u] \in Int /\ c > 0
      BY <1>2, <1>3, <1>4, <2>2
    <3>2. Drawdown(P, ys[u]) <= Drawdown(P, rs[c].lowSoFar)
      BY <3>1, DrawdownFacts
    <3> QED BY <1>6, <2>2, <3>1, <3>2
  <2> QED BY <1>6, <2>1, <2>2
<1> QED BY <1>7, <1>8, <1>9 DEF n, b

\* What worst answers, from the older values' worst drawdown and the segments.
AnswerFrom(old, w, rs, c, P) ==
    Largest1((IF c < Len(rs) THEN {DeclineOf(rs, Len(rs))} ELSE {})
             \cup (IF c > 0 THEN {Drawdown(P, rs[c].lowSoFar)} ELSE {}),
             Larger(old, w))

LEMMA AnswerIsDeepest ==
    ASSUME NEW xs, Above(xs), xs # <<>>, NEW ys, NEW f, IsRest(ys, xs, f),
           NEW rs, HasSegments(rs, ys),
           NEW P \in Int, P = PeakOfOld(xs, f), NEW c, SplitAt(rs, c, P),
           NEW w, ClosedIs(w, rs, c), NEW old, old = WorstOfOld(xs, f)
    PROVE  AnswerFrom(old, w, rs, c, P) = DeepestDecline(xs)
<1> DEFINE n == Len(rs)
           O == IF c < n THEN {DeclineOf(rs, n)} ELSE {}
           C == IF c > 0 THEN {Drawdown(P, rs[c].lowSoFar)} ELSE {}
           S == O \cup C
           d == Larger(old, w)
           v == AnswerFrom(old, w, rs, c, P)
<1>1. PICK seg : Segments(rs, seg, ys)
  BY DEF HasSegments
<1>2. /\ xs \in Ints /\ Len(xs) \in Nat /\ f \in 0 .. Len(xs)
      /\ ys \in Ints /\ Len(ys) \in Nat /\ f \in Nat /\ Len(xs) = f + Len(ys)
  <2>1. xs \in Ints /\ ys \in Ints /\ f \in Nat /\ Len(xs) = f + Len(ys)
    BY DEF Above, IsRest
  <2> QED BY <2>1, IntsFacts
<1>3. /\ Reached(old, xs) /\ Reached(0, xs)
      /\ \A t \in 1 .. f : FallOf(xs, t) <= old
      /\ \A t \in 1 .. Len(xs) : FallOf(xs, t) \in Int
  BY <1>2, FallsOfOld
<1>4. /\ \A i \in c + 1 .. n : Reached(DeclineOf(rs, i), xs)
      /\ c > 0 => Reached(Drawdown(P, rs[c].lowSoFar), xs)
      /\ \A u \in 1 .. Len(ys) :
             \/ /\ seg[u] \in c + 1 .. n
                /\ FallOf(xs, f + u) <= DeclineOf(rs, seg[u])
             \/ c > 0 /\ FallOf(xs, f + u) <= Drawdown(P, rs[c].lowSoFar)
  BY <1>1, FallsOfNew
<1>5. /\ n \in Nat /\ c \in 0 .. n
      /\ \A i \in c + 1 .. n : DeclineOf(rs, i) \in Int
  <2>1. n \in Nat
    BY <1>1, <1>2, SegmentsFacts
  <2>2. c \in 0 .. n
    BY DEF SplitAt
  <2> QED BY <1>4, <2>1, <2>2 DEF Reached
<1>6. /\ w \in Int /\ 0 <= w
      /\ \A i \in c + 1 .. n - 1 : DeclineOf(rs, i) <= w
      /\ w = 0 \/ \E i \in c + 1 .. n - 1 : w = DeclineOf(rs, i)
  BY DEF ClosedIs
<1>7. v = Largest1(S, d)
  BY DEF AnswerFrom
<1> HIDE DEF n, v
<1>8. Reached(w, xs)
  <2>1. \A i \in c + 1 .. n - 1 : i \in c + 1 .. n
    BY <1>5
  <2> QED BY <1>3, <1>4, <1>6, <2>1
<1>9. old \in Int /\ Reached(d, xs) /\ d \in Int /\ old <= d /\ w <= d
  <2>1. old \in Int
    BY <1>3 DEF Reached
  <2>2. d = old \/ d = w
    BY DEF Larger
  <2>3. old <= d /\ w <= d
    BY <1>6, <2>1 DEF Larger
  <2> QED BY <1>3, <1>6, <1>8, <2>1, <2>2, <2>3
<1>10. /\ c < n => DeclineOf(rs, n) \in S /\ n \in c + 1 .. n
       /\ c > 0 => Drawdown(P, rs[c].lowSoFar) \in S
       /\ \A y \in S : Reached(y, xs)
  <2>1. c < n => n \in c + 1 .. n
    BY <1>5
  <2>2. \A y \in S : Reached(y, xs)
    BY <1>4, <2>1
  <2> QED BY <2>1, <2>2
<1>11. \A y \in S : y \in Int
  BY <1>10 DEF Reached
<1>12. PICK top \in Int : d <= top /\ \A y \in S : y <= top
  <2> DEFINE a == IF c < n THEN DeclineOf(rs, n) ELSE d
             e == IF c > 0 THEN Drawdown(P, rs[c].lowSoFar) ELSE d
             top == Larger(Larger(a, e), d)
  <2>1. a \in Int /\ e \in Int
    BY <1>9, <1>10, <1>11
  <2>2. \A y \in S : y = a \/ y = e
    OBVIOUS
  <2> HIDE DEF a, e, S, d
  <2>3. top \in Int /\ a <= top /\ e <= top /\ d <= top
    BY <1>9, <2>1 DEF Larger
  <2> QED BY <2>2, <2>3
<1>13. /\ v \in Int /\ d <= v /\ \A y \in S : y <= v
       /\ v = d \/ v \in S
  <2>1. S \in SUBSET Int
    BY <1>11
  <2> HIDE DEF S, d
  <2> QED BY <1>7, <1>9, <1>12, <2>1, LargestFacts
<1>14. Reached(v, xs)
  BY <1>9, <1>10, <1>13
<1> HIDE DEF S, d
<1>15. \A t \in 1 .. Len(xs) : FallOf(xs, t) <= v
  <2> SUFFICES ASSUME NEW t \in 1 .. Len(xs) PROVE FallOf(xs, t) <= v
    OBVIOUS
  <2>0. FallOf(xs, t) \in Int
    BY <1>3
  <2>1. CASE t <= f
    <3>1. FallOf(xs, t) <= old
      BY <1>2, <1>3, <2>1
    <3> QED BY <1>9, <1>13, <2>0, <3>1
  <2>2. CASE ~(t <= f)
    <3> DEFINE u == t - f
    <3>1. u \in 1 .. Len(ys) /\ f + u = t
      BY <1>2, <2>2
    <3> HIDE DEF u
    <3>2. CASE /\ seg[u] \in c + 1 .. n
               /\ FallOf(xs, f + u) <= DeclineOf(rs, seg[u])
      <4>1. DeclineOf(rs, seg[u]) \in Int
        BY <1>5, <3>2
      <4>2. CASE seg[u] = n
        <5>1. c < n
          BY <1>5, <3>2, <4>2
        <5>2. DeclineOf(rs, n) <= v
          BY <1>10, <1>13, <5>1
        <5> QED BY <1>13, <2>0, <3>1, <3>2, <4>1, <4>2, <5>2
      <4>3. CASE seg[u] # n
        <5>1. seg[u] \in c + 1 .. n - 1
          BY <1>5, <3>2, <4>3
        <5>2. DeclineOf(rs, seg[u]) <= w
          BY <1>6, <5>1
        <5> QED BY <1>6, <1>9, <1>13, <2>0, <3>1, <3>2, <4>1, <5>2
      <4> QED BY <4>2, <4>3
    <3>3. CASE c > 0 /\ FallOf(xs, f + u) <= Drawdown(P, rs[c].lowSoFar)
      <4>1. Drawdown(P, rs[c].lowSoFar) <= v /\ Drawdown(P, rs[c].lowSoFar) \in Int
        BY <1>10, <1>11, <1>13, <3>3
      <4> QED BY <1>13, <2>0, <3>1, <3>3, <4>1
    <3> QED BY <1>4, <3>1, <3>2, <3>3
  <2> QED BY <2>1, <2>2
<1>16. DeepestDecline(xs) = v
  BY <1>2, <1>14, <1>15, DeepestIsReached
<1> QED BY <1>16 DEF v

\* The two halves of a window xs of p values, wherever the cursor is on its way.
HalvesKeep(s, p, xs) ==
    /\ DOMAIN s = MaxFields /\ s.period = p /\ Above(xs)
    /\ IsRest(s.back, xs, Len(s.front)) /\ FrontIs(s.front, xs, Len(s.front))
    /\ HasSegments(s.records, s.back) /\ s.cursor \in 0 .. Len(s.records)
    /\ Behind(s.records, s.cursor, PeakOfOld(xs, Len(s.front)))
    /\ ClosedIs(s.closedWorst, s.records, s.cursor)
Split(s, xs) == SplitAt(s.records, s.cursor, PeakOfOld(xs, Len(s.front)))

EntryOf(front) == IF front = <<>> THEN [peak |-> Bottom, worst |-> 0] ELSE Last(front)

LEMMA EntryFacts ==
    ASSUME NEW xs, NEW front, FrontIs(front, xs, Len(front)), Len(front) \in Nat
    PROVE  /\ EntryOf(front).peak = PeakOfOld(xs, Len(front))
           /\ EntryOf(front).worst = WorstOfOld(xs, Len(front))
           /\ PeakOfOld(xs, Len(front)) \in Int
<1> DEFINE f == Len(front)
<1>1. /\ front \in Seq(Fronted)
      /\ \A j \in 1 .. f : /\ front[j].peak = Highest(xs, (f + 1) - j, f)
                           /\ front[j].worst = Deep(xs, (f + 1) - j, f)
  BY DEF FrontIs
<1>2. front = <<>> <=> f = 0
  BY <1>1, EmptySeq
<1>3. \A j \in 1 .. f : front[j] \in Fronted
  BY <1>1, ElementOfSeq
<1>4. CASE f = 0
  <2>1. front = <<>>
    BY <1>2, <1>4
  <2> QED BY <1>4, <2>1, BottomAssumption DEF EntryOf, PeakOfOld, WorstOfOld
<1>5. CASE f # 0
  <2>1. EntryOf(front) = front[f]
    BY <1>2, <1>5 DEF EntryOf, Last
  <2>2. f \in 1 .. f /\ (f + 1) - f = 1
    BY <1>5
  <2> HIDE DEF f
  <2>3. /\ front[f].peak = Highest(xs, 1, f) /\ front[f].worst = Deep(xs, 1, f)
        /\ front[f] \in Fronted
    BY <1>1, <1>3, <2>2
  <2>4. front[f].peak \in Int
    BY <2>3 DEF Fronted
  <2> QED BY <1>5, <2>1, <2>3, <2>4 DEF PeakOfOld, WorstOfOld, f
<1> QED BY <1>4, <1>5

LEMMA WorstIs ==
    ASSUME NEW s
    PROVE  LET entry == EntryOf(s.front)
               m == MoveCursor(s, entry.peak)
           IN  Worst(s) = [m EXCEPT !.last = <<AnswerFrom(entry.worst, m.closedWorst,
                                                  m.records, m.cursor, entry.peak)>>]
  BY DEF Worst, EntryOf, AnswerFrom, DeclineOf

LEMMA SplitIsBehind ==
    ASSUME NEW rs, Len(rs) \in Nat, NEW c, NEW P, SplitAt(rs, c, P)
    PROVE  c \in 0 .. Len(rs) /\ Behind(rs, c, P)
<1>1. c \in 0 .. Len(rs) /\ \A i \in c + 1 .. Len(rs) : P < rs[i].peak
  BY DEF SplitAt
<1>2. \A i \in c + 1 .. Len(rs) - 1 : i \in c + 1 .. Len(rs)
  BY <1>1
<1> QED BY <1>1, <1>2 DEF Behind

LEMMA WorstKeeps ==
    ASSUME NEW s, NEW p, NEW xs, HalvesKeep(s, p, xs), xs # <<>>
    PROVE  LET t == Worst(s)
           IN  /\ HalvesKeep(t, p, xs) /\ Split(t, xs)
               /\ t.last = Some(DeepestDecline(xs))
<1> DEFINE rs == s.records
           f == Len(s.front)
           P == PeakOfOld(xs, f)
           old == WorstOfOld(xs, f)
           m == MoveCursor(s, P)
           v == AnswerFrom(old, m.closedWorst, rs, m.cursor, P)
           t == Worst(s)
<1>1. /\ DOMAIN s = MaxFields /\ s.period = p /\ Above(xs)
      /\ IsRest(s.back, xs, f) /\ FrontIs(s.front, xs, f)
      /\ HasSegments(rs, s.back) /\ s.cursor \in 0 .. Len(rs)
      /\ Behind(rs, s.cursor, P) /\ ClosedIs(s.closedWorst, rs, s.cursor)
  BY DEF HalvesKeep
<1>2. f \in Nat /\ s.back \in Ints
  BY <1>1 DEF IsRest
<1>3. EntryOf(s.front).peak = P /\ EntryOf(s.front).worst = old /\ P \in Int
  BY <1>1, <1>2, EntryFacts
<1>4. Ordered(rs) /\ Len(rs) \in Nat
  <2>1. Ordered(rs)
    BY <1>1, <1>2, SegmentsOrdered
  <2> QED BY <2>1 DEF Ordered
<1>5. /\ DOMAIN m = MaxFields
      /\ m.period = s.period /\ m.front = s.front /\ m.back = s.back
      /\ m.records = rs /\ m.last = s.last
      /\ SplitAt(rs, m.cursor, P)
      /\ ClosedIs(m.closedWorst, rs, m.cursor)
  <2> HIDE DEF P
  <2> QED BY <1>1, <1>3, <1>4, CursorMoves
<1>6. t = [m EXCEPT !.last = <<v>>]
  <2>1. t = [MoveCursor(s, EntryOf(s.front).peak) EXCEPT !.last =
                <<AnswerFrom(EntryOf(s.front).worst,
                             MoveCursor(s, EntryOf(s.front).peak).closedWorst,
                             MoveCursor(s, EntryOf(s.front).peak).records,
                             MoveCursor(s, EntryOf(s.front).peak).cursor,
                             EntryOf(s.front).peak)>>]
    BY WorstIs
  <2> HIDE DEF P, old, rs
  <2> QED BY <1>3, <1>5, <2>1
<1> HIDE DEF m
<1> DEFINE c == m.cursor
           w == m.closedWorst
<1>7. v = DeepestDecline(xs)
  <2>1. AnswerFrom(old, w, rs, c, P) = DeepestDecline(xs)
    <3>1. SplitAt(rs, c, P) /\ ClosedIs(w, rs, c)
      BY <1>5
    <3> HIDE DEF c, w
    <3> QED BY <1>1, <1>3, <3>1, AnswerIsDeepest
  <2> QED BY <2>1
<1>8. c \in 0 .. Len(rs) /\ Behind(rs, c, P)
  <2> HIDE DEF P
  <2> QED BY <1>4, <1>5, SplitIsBehind
<1> HIDE DEF v, t
<1>9. /\ DOMAIN t = MaxFields /\ t.period = p /\ t.front = s.front /\ t.back = s.back
      /\ t.records = rs /\ t.cursor = c /\ t.closedWorst = w /\ t.last = <<v>>
  BY <1>1, <1>5, <1>6 DEF MaxFields
<1>10. HalvesKeep(t, p, xs)
  BY <1>1, <1>5, <1>8, <1>9 DEF HalvesKeep
<1>11. Split(t, xs)
  BY <1>5, <1>9 DEF Split
<1> QED BY <1>7, <1>9, <1>10, <1>11 DEF t, Some

LEMMA NoSegments ==
    ASSUME NEW P
    PROVE  /\ HasSegments(<<>>, <<>>) /\ Len(<<>>) = 0 /\ ClosedIs(0, <<>>, 0)
           /\ SplitAt(<<>>, 0, P) /\ Behind(<<>>, 0, P)
<1>1. <<>> \in Seq(Record) /\ Len(<<>>) = 0 /\ 1 .. 0 = {}
  BY EmptySeq
<1>2. Segments(<<>>, <<>>, <<>>)
  BY <1>1 DEF Segments
<1>3. HasSegments(<<>>, <<>>)
  BY <1>2 DEF HasSegments
<1>4. 0 + 1 .. 0 - 1 = {} /\ 0 + 1 .. 0 = {}
  OBVIOUS
<1> QED BY <1>1, <1>3, <1>4 DEF ClosedIs, SplitAt, Behind

LEMMA SegmentsAbove ==
    ASSUME NEW ys, Above(ys), NEW rs, HasSegments(rs, ys)
    PROVE  \A i \in 1 .. Len(rs) : Bottom < rs[i].peak
<1>1. PICK seg : Segments(rs, seg, ys)
  BY DEF HasSegments
<1>2. ys \in Ints /\ Len(ys) \in Nat /\ \A i \in 1 .. Len(ys) : Bottom < ys[i]
  BY IntsFacts DEF Above
<1> SUFFICES ASSUME NEW i \in 1 .. Len(rs) PROVE Bottom < rs[i].peak
  OBVIOUS
<1>3. PICK t \in 1 .. Len(ys) : seg[t] = i
  BY <1>1 DEF Segments
<1>4. rs[i].peak = Peak(ys, t)
  BY <1>1, <1>3 DEF Segments
<1>5. \E k \in 1 .. t : Peak(ys, t) = ys[k]
  BY <1>2, PeakFacts
<1>6. PICK k \in 1 .. t : Peak(ys, t) = ys[k]
  BY <1>5
<1>7. k \in 1 .. Len(ys)
  BY <1>2
<1> QED BY <1>2, <1>4, <1>6, <1>7

\* A value enters the newer half.
LEMMA AboveGrows ==
    ASSUME NEW xs, Above(xs), NEW x \in Int, Bottom < x
    PROVE  Above(Append(xs, x))
<1>1. xs \in Ints /\ \A i \in 1 .. Len(xs) : Bottom < xs[i]
  BY DEF Above
<1> DEFINE zs == Append(xs, x)
<1>2. /\ zs \in Ints /\ Len(zs) = Len(xs) + 1 /\ zs[Len(xs) + 1] = x /\ Len(xs) \in Nat
      /\ \A i \in 1 .. Len(xs) : zs[i] = xs[i]
  BY <1>1, IntsGrow, IntsFacts
<1> HIDE DEF zs
<1>3. \A i \in 1 .. Len(zs) : i = Len(xs) + 1 \/ i \in 1 .. Len(xs)
  BY <1>2
<1>4. Above(zs)
  BY <1>1, <1>2, <1>3 DEF Above
<1> QED BY <1>4 DEF zs

LEMMA PushKeepsHalves ==
    ASSUME NEW s, NEW p, NEW xs, HalvesKeep(s, p, xs), Split(s, xs),
           NEW x \in Int, Bottom < x
    PROVE  LET t == PushBack(s, x)
           IN  /\ HalvesKeep(t, p, Append(xs, x)) /\ t.front = s.front /\ t.last = s.last
               /\ t.cursor = s.cursor /\ t.back = Append(s.back, x)
<1> DEFINE rs == s.records
           f == Len(s.front)
           P == PeakOfOld(xs, f)
           zs == Append(xs, x)
           t == PushBack(s, x)
<1>1. /\ DOMAIN s = MaxFields /\ s.period = p /\ Above(xs)
      /\ IsRest(s.back, xs, f) /\ FrontIs(s.front, xs, f)
      /\ HasSegments(rs, s.back) /\ s.cursor \in 0 .. Len(rs)
      /\ ClosedIs(s.closedWorst, rs, s.cursor)
  BY DEF HalvesKeep
<1>2. SplitAt(rs, s.cursor, P)
  BY DEF Split
<1>3. /\ f \in Nat /\ s.back \in Ints /\ Len(xs) = f + Len(s.back) /\ xs \in Ints
      /\ \A i \in 1 .. Len(s.back) : s.back[i] = xs[f + i]
  BY <1>1 DEF IsRest, Above
<1>4. /\ DOMAIN t = MaxFields /\ t.period = s.period /\ t.front = s.front
      /\ t.last = s.last /\ t.back = Append(s.back, x)
  BY <1>1, PushBackFields DEF MaxFields
<1>5. /\ HasSegments(t.records, Append(s.back, x))
      /\ t.cursor = s.cursor /\ t.cursor \in 0 .. Len(t.records)
      /\ ClosedIs(t.closedWorst, t.records, t.cursor)
      /\ \A i \in 1 .. Len(t.records) - 1 : /\ i \in 1 .. Len(rs)
                                            /\ t.records[i].peak = rs[i].peak
  BY <1>1, <1>3, PushKeepsSegments
<1>6. Above(zs)
  BY <1>1, AboveGrows
<1>7. /\ Len(xs) \in Nat /\ Len(s.back) \in Nat
      /\ zs \in Ints /\ Len(zs) = Len(xs) + 1 /\ zs[Len(xs) + 1] = x
      /\ \A i \in 1 .. Len(xs) : zs[i] = xs[i]
  BY <1>3, IntsFacts, IntsGrow
<1> HIDE DEF t, zs
<1>8. IsRest(t.back, zs, f)
  <2> DEFINE ys == Append(s.back, x)
             b == Len(s.back)
  <2>1. /\ ys \in Ints /\ Len(ys) = b + 1 /\ ys[b + 1] = x
        /\ \A i \in 1 .. b : ys[i] = s.back[i]
    BY <1>3, IntsGrow
  <2> HIDE DEF ys, b, f
  <2>2. /\ f \in Nat /\ b \in Nat /\ Len(xs) = f + b /\ Len(zs) = (f + b) + 1
        /\ \A i \in 1 .. b : s.back[i] = xs[f + i] /\ f + i \in 1 .. Len(xs)
    <3>1. f \in Nat /\ b \in Nat /\ Len(xs) = f + b
      BY <1>3, <1>7 DEF b
    <3> QED BY <1>3, <1>7, <3>1 DEF b
  <2>3. Len(zs) = f + Len(ys)
    BY <2>1, <2>2
  <2>4. \A i \in 1 .. Len(ys) : ys[i] = zs[f + i]
    <3> SUFFICES ASSUME NEW i \in 1 .. Len(ys) PROVE ys[i] = zs[f + i]
      OBVIOUS
    <3>1. CASE i = b + 1
      <4>1. f + i = Len(xs) + 1
        BY <2>2, <3>1
      <4> QED BY <1>7, <2>1, <3>1, <4>1
    <3>2. CASE i # b + 1
      <4>1. i \in 1 .. b
        BY <2>1, <2>2, <3>2
      <4> QED BY <1>7, <2>1, <2>2, <4>1
    <3> QED BY <3>1, <3>2
  <2> QED BY <1>4, <2>1, <2>2, <2>3, <2>4 DEF IsRest, ys
<1>9. \A i \in 1 .. f : i \in 1 .. Len(xs) /\ zs[i] = xs[i]
  <2>1. f \in Nat /\ Len(s.back) \in Nat /\ Len(xs) = f + Len(s.back)
    BY <1>3, <1>7
  <2> HIDE DEF f
  <2>2. \A i \in 1 .. f : i \in 1 .. Len(xs)
    BY <2>1
  <2> QED BY <1>7, <2>2
<1>10. FrontIs(s.front, zs, f)
  <2>1. f + 0 = f /\ f \in Int /\ 0 \in Int /\ Len(s.front) <= f
    BY <1>3
  <2>2. FrontIs(s.front, xs, f + 0)
    BY <1>1, <2>1
  <2>3. \A i \in 1 .. f : zs[i] = xs[i + 0]
    BY <1>9
  <2> HIDE DEF f
  <2> QED BY <2>1, <2>2, <2>3, FrontMoves
<1>11. PeakOfOld(zs, f) = P
  <2>1. Highest(zs, 1, f) = Highest(xs, 1, f)
    BY <1>9, HighestSame
  <2> QED BY <2>1 DEF PeakOfOld
<1>12. Behind(t.records, t.cursor, P)
  <2>1. Len(rs) \in Nat /\ s.cursor \in 0 .. Len(rs) /\ \A i \in s.cursor + 1 .. Len(rs) : P < rs[i].peak
    <3>1. Ordered(rs)
      BY <1>1, <1>3, SegmentsOrdered
    <3> QED BY <1>2, <3>1 DEF SplitAt, Ordered
  <2>2. ASSUME NEW i \in s.cursor + 1 .. Len(t.records) - 1 PROVE P < t.records[i].peak
    <3>1. i \in 1 .. Len(t.records) - 1
      BY <2>1
    <3>2. i \in 1 .. Len(rs) /\ t.records[i].peak = rs[i].peak
      BY <1>5, <3>1
    <3>3. i \in s.cursor + 1 .. Len(rs)
      BY <2>1, <3>2
    <3> QED BY <2>1, <3>2, <3>3
  <2> QED BY <1>5, <2>2 DEF Behind
<1>13. HalvesKeep(t, p, zs)
  BY <1>1, <1>4, <1>5, <1>6, <1>8, <1>10, <1>11, <1>12 DEF HalvesKeep
<1> QED BY <1>4, <1>5, <1>13 DEF t, zs

\* The oldest value leaves.
OneLess(ys, zs) ==
    /\ ys \in Ints /\ Len(zs) = Len(ys) + 1
    /\ \A i \in 1 .. Len(ys) : ys[i] = zs[i + 1]

LEMMA PopKeepsHalves ==
    ASSUME NEW s, NEW p, NEW zs, HalvesKeep(s, p, zs), s.front # <<>>,
           NEW ys, OneLess(ys, zs)
    PROVE  HalvesKeep([s EXCEPT !.front = Front(@)], p, ys)
<1> DEFINE rs == s.records
           f == Len(s.front)
           g == Front(s.front)
           q == [s EXCEPT !.front = g]
           P == PeakOfOld(zs, f)
           Q == PeakOfOld(ys, f - 1)
<1>1. /\ DOMAIN s = MaxFields /\ s.period = p /\ Above(zs)
      /\ IsRest(s.back, zs, f) /\ FrontIs(s.front, zs, f)
      /\ HasSegments(rs, s.back) /\ s.cursor \in 0 .. Len(rs)
      /\ Behind(rs, s.cursor, P) /\ ClosedIs(s.closedWorst, rs, s.cursor)
  BY DEF HalvesKeep
<1>2. /\ s.back \in Ints /\ f \in Nat /\ Len(zs) = f + Len(s.back)
      /\ \A i \in 1 .. Len(s.back) : s.back[i] = zs[f + i]
      /\ zs \in Ints /\ \A i \in 1 .. Len(zs) : Bottom < zs[i]
  BY <1>1 DEF IsRest, Above
<1>3. /\ ys \in Ints /\ Len(zs) = Len(ys) + 1
      /\ \A i \in 1 .. Len(ys) : ys[i] = zs[i + 1]
  BY DEF OneLess
<1>4. f # 0 /\ Len(s.back) \in Nat /\ Len(ys) \in Nat /\ Len(zs) \in Nat
  <2>1. s.front \in Seq(Fronted)
    BY <1>1 DEF FrontIs
  <2> QED BY <1>2, <1>3, <2>1, EmptySeq, IntsFacts
<1>5. FrontIs(g, zs, f) /\ Len(g) = f - 1
  BY <1>1, FrontPops
<1>6. /\ DOMAIN q = MaxFields /\ q.period = p /\ q.front = g /\ q.back = s.back
      /\ q.records = rs /\ q.cursor = s.cursor /\ q.closedWorst = s.closedWorst
  BY <1>1 DEF MaxFields
<1> HIDE DEF q, g
<1>7. \A i \in 1 .. Len(ys) : i + 1 \in 1 .. Len(zs) /\ ys[i] = zs[i + 1]
  BY <1>3, <1>4
<1>8. Above(ys)
  BY <1>2, <1>3, <1>7 DEF Above
<1>9. IsRest(s.back, ys, f - 1)
  <2> DEFINE b == Len(s.back)
  <2>1. /\ f \in Nat /\ f # 0 /\ b \in Nat /\ Len(zs) = f + b /\ Len(zs) = Len(ys) + 1
        /\ Len(ys) \in Nat
    BY <1>2, <1>3, <1>4
  <2> HIDE DEF f, b
  <2>2. f - 1 \in Nat /\ Len(ys) = (f - 1) + b
    BY <2>1
  <2>3. \A i \in 1 .. b : (f - 1) + i \in 1 .. Len(ys) /\ ((f - 1) + i) + 1 = f + i
    BY <2>1
  <2>4. \A i \in 1 .. b : s.back[i] = ys[(f - 1) + i]
    BY <1>2, <1>3, <2>3 DEF f, b
  <2> QED BY <1>2, <2>2, <2>4 DEF IsRest, b
<1>10. FrontIs(g, ys, f - 1)
  <2>1. (f - 1) + 1 = f /\ f - 1 \in Int /\ 1 \in Int /\ Len(g) <= f - 1
    BY <1>2, <1>5
  <2>2. FrontIs(g, zs, (f - 1) + 1)
    BY <1>5, <2>1
  <2>3. \A i \in 1 .. f - 1 : ys[i] = zs[i + 1]
    <3>1. \A i \in 1 .. f - 1 : i \in 1 .. Len(ys)
      <4>1. f \in Nat /\ Len(s.back) \in Nat /\ Len(ys) \in Nat /\ Len(ys) + 1 = f + Len(s.back)
        BY <1>2, <1>3, <1>4
      <4> HIDE DEF f
      <4> QED BY <4>1
    <3> QED BY <1>3, <3>1
  <2> HIDE DEF f
  <2> QED BY <2>1, <2>2, <2>3, FrontMoves
<1>11. P \in Int /\ Q \in Int /\ Q <= P
  <2>1. P = Highest(zs, 1, f)
    BY <1>4 DEF PeakOfOld
  <2>2. \A i \in 1 .. f : i \in 1 .. Len(zs) /\ zs[i] \in Int /\ Bottom < zs[i]
    <3>1. f \in Nat /\ Len(s.back) \in Nat /\ Len(zs) = f + Len(s.back)
      BY <1>2, <1>4
    <3> HIDE DEF f
    <3>2. \A i \in 1 .. f : i \in 1 .. Len(zs)
      BY <3>1
    <3> QED BY <1>2, <3>2, IntsFacts
  <2>0. 1 <= f /\ f \in Int /\ f - 1 \in Int /\ 1 \in 1 .. f
    BY <1>2, <1>4
  <2> HIDE DEF f
  <2>3. P \in Int /\ \A i \in 1 .. f : zs[i] <= P
    BY <2>0, <2>1, <2>2, HighestFacts
  <2>4. CASE f - 1 = 0
    <3>1. Q = Bottom
      BY <2>4 DEF PeakOfOld
    <3>2. zs[1] \in Int /\ Bottom < zs[1] /\ zs[1] <= P
      BY <2>0, <2>2, <2>3
    <3>3. Bottom \in Int
      BY BottomAssumption
    <3> HIDE DEF P, Q
    <3> QED BY <2>3, <3>1, <3>2, <3>3
  <2>5. CASE f - 1 # 0
    <3>1. Q = Highest(ys, 1, f - 1) /\ 1 <= f - 1
      BY <2>0, <2>5 DEF PeakOfOld
    <3>2. \A i \in 1 .. f - 1 : i + 1 \in 1 .. f /\ i \in 1 .. Len(ys)
      <4>1. Len(ys) \in Nat /\ Len(s.back) \in Nat /\ Len(ys) + 1 = f + Len(s.back)
        BY <1>2, <1>3, <1>4 DEF f
      <4> QED BY <2>0, <4>1
    <3>3. \A i \in 1 .. f - 1 : ys[i] = zs[i + 1] /\ ys[i] \in Int /\ ys[i] <= P
      BY <1>3, <2>2, <2>3, <3>2
    <3>4. Q \in Int /\ \E k \in 1 .. f - 1 : Q = ys[k]
      BY <2>0, <3>1, <3>3, HighestFacts
    <3> QED BY <2>3, <3>3, <3>4
  <2> QED BY <2>4, <2>5
<1>12. Behind(rs, s.cursor, Q)
  <2>1. Ordered(rs)
    BY <1>1, <1>2, SegmentsOrdered
  <2>2. \A i \in s.cursor + 1 .. Len(rs) - 1 : i \in 1 .. Len(rs) /\ rs[i].peak \in Int
    <3>1. Len(rs) \in Nat /\ \A i \in 1 .. Len(rs) : rs[i].peak \in Int
      BY <2>1 DEF Ordered
    <3>2. \A i \in s.cursor + 1 .. Len(rs) - 1 : i \in 1 .. Len(rs)
      BY <1>1, <3>1
    <3> QED BY <3>1, <3>2
  <2>3. \A i \in s.cursor + 1 .. Len(rs) - 1 : P < rs[i].peak
    BY <1>1 DEF Behind
  <2> HIDE DEF P, Q
  <2>4. \A i \in s.cursor + 1 .. Len(rs) - 1 : Q < rs[i].peak
    BY <1>11, <2>2, <2>3
  <2> QED BY <2>4 DEF Behind
<1>13. HalvesKeep(q, p, ys)
  BY <1>1, <1>5, <1>6, <1>8, <1>9, <1>10, <1>12 DEF HalvesKeep
<1> QED BY <1>13 DEF q, g

LEMMA RefillKeepsHalves ==
    ASSUME NEW s, NEW p, NEW zs, HalvesKeep(s, p, zs), s.front = <<>>, zs # <<>>
    PROVE  /\ HalvesKeep(RefillFront(s), p, zs)
           /\ RefillFront(s).front # <<>> /\ Len(RefillFront(s).front) = Len(zs)
           /\ RefillFront(s).back = <<>> /\ RefillFront(s).last = s.last
<1> DEFINE g == Walked(s.back).front
           q == RefillFront(s)
           f == Len(zs)
<1>1. /\ DOMAIN s = MaxFields /\ s.period = p /\ Above(zs)
      /\ IsRest(s.back, zs, Len(s.front))
  BY DEF HalvesKeep
<1>2. Len(s.front) = 0
  BY EmptySeq
<1>3. zs \in Ints /\ s.back \in Ints /\ Len(zs) = Len(s.back)
      /\ \A i \in 1 .. Len(s.back) : s.back[i] = zs[i]
  <2>1. /\ s.back \in Ints /\ Len(zs) = 0 + Len(s.back)
        /\ \A i \in 1 .. Len(s.back) : s.back[i] = zs[0 + i]
    BY <1>1, <1>2 DEF IsRest
  <2>2. Len(s.back) \in Nat
    BY <2>1, IntsFacts
  <2> QED BY <1>1, <2>1, <2>2 DEF Above
<1>4. s.back = zs
  BY <1>3, SeqEqual DEF Ints
<1>5. q = [s EXCEPT !.front = g, !.back = <<>>, !.records = <<>>, !.cursor = 0,
                    !.closedWorst = 0]
  BY DEF RefillFront, Walked, NewWalk
<1>6. FrontIs(g, zs, f) /\ Len(g) = f
  BY <1>1, <1>4, WalkedKeeps
<1> HIDE DEF g, q
<1>7. /\ DOMAIN q = MaxFields /\ q.period = p /\ q.front = g /\ q.back = <<>>
      /\ q.records = <<>> /\ q.cursor = 0 /\ q.closedWorst = 0 /\ q.last = s.last
  BY <1>1, <1>5 DEF MaxFields
<1>8. f \in Nat /\ f # 0
  BY <1>3, IntsFacts
<1>9. g # <<>>
  BY <1>6, <1>8, EmptySeq
<1>10. IsRest(<<>>, zs, f)
  <2>1. <<>> \in Ints /\ Len(<<>>) = 0
    BY NoneIsInts
  <2>2. Len(zs) = f + Len(<<>>) /\ \A i \in 1 .. Len(<<>>) : <<>>[i] = zs[f + i]
    BY <1>8, <2>1
  <2> QED BY <1>8, <2>1, <2>2 DEF IsRest
<1>11. /\ HasSegments(<<>>, <<>>) /\ 0 \in 0 .. Len(<<>>) /\ ClosedIs(0, <<>>, 0)
       /\ Behind(<<>>, 0, PeakOfOld(zs, f))
  <2>1. Len(<<>>) = 0
    BY EmptySeq
  <2> QED BY <2>1, NoSegments
<1>12. HalvesKeep(q, p, zs)
  BY <1>1, <1>6, <1>7, <1>10, <1>11 DEF HalvesKeep
<1> QED BY <1>6, <1>7, <1>9, <1>12 DEF q

MaxKeeps(s, p, xs) ==
    /\ HalvesKeep(s, p, xs) /\ Split(s, xs) /\ Len(xs) <= p
    /\ Len(xs) < p => s.front = <<>>
    /\ s.last = IF Len(xs) < p THEN None ELSE Some(DeepestDecline(xs))

LEMMA MaxStarts ==
    ASSUME NEW p \in Nat \ {0}
    PROVE  MaxKeeps(NewMaxDrawdown(p), p, <<>>)
<1> DEFINE s == NewMaxDrawdown(p)
<1>1. /\ DOMAIN s = MaxFields /\ s.period = p /\ s.front = <<>> /\ s.back = <<>>
      /\ s.records = <<>> /\ s.cursor = 0 /\ s.closedWorst = 0 /\ s.last = None
  BY DEF NewMaxDrawdown, MaxFields, None
<1> HIDE DEF s
<1>2. <<>> \in Ints /\ Len(<<>>) = 0 /\ 1 .. 0 = {}
  BY NoneIsInts
<1>3. Above(<<>>)
  BY <1>2 DEF Above
<1>4. IsRest(<<>>, <<>>, 0)
  BY <1>2 DEF IsRest
<1>5. FrontIs(<<>>, <<>>, 0)
  <2>1. <<>> \in Seq(Fronted)
    BY EmptySeq
  <2> QED BY <1>2, <2>1 DEF FrontIs
<1> DEFINE P == PeakOfOld(<<>>, 0)
<1>6. /\ HasSegments(<<>>, <<>>) /\ ClosedIs(0, <<>>, 0)
      /\ SplitAt(<<>>, 0, P) /\ Behind(<<>>, 0, P)
  BY NoSegments
<1>7. HalvesKeep(s, p, <<>>) /\ Split(s, <<>>)
  BY <1>1, <1>2, <1>3, <1>4, <1>5, <1>6 DEF HalvesKeep, Split
<1>8. Len(<<>>) <= p /\ Len(<<>>) < p
  BY <1>2
<1> QED BY <1>1, <1>7, <1>8 DEF MaxKeeps, s

\* Until the window is full there is no front, and its peak covers nothing.
LEMMA NoFrontSplits ==
    ASSUME NEW s, NEW p, NEW xs, HalvesKeep(s, p, xs), s.front = <<>>, s.cursor = 0
    PROVE  Split(s, xs)
<1>1. /\ Above(xs) /\ IsRest(s.back, xs, Len(s.front)) /\ HasSegments(s.records, s.back)
      /\ s.cursor \in 0 .. Len(s.records)
  BY DEF HalvesKeep
<1>2. Len(s.front) = 0
  BY EmptySeq
<1>3. Above(s.back)
  <2>1. /\ s.back \in Ints /\ Len(xs) = 0 + Len(s.back)
        /\ \A i \in 1 .. Len(s.back) : s.back[i] = xs[0 + i]
        /\ \A i \in 1 .. Len(xs) : Bottom < xs[i]
    BY <1>1, <1>2 DEF IsRest, Above
  <2>2. Len(s.back) \in Nat
    BY <2>1, IntsFacts
  <2> QED BY <2>1, <2>2 DEF Above
<1>4. \A i \in 1 .. Len(s.records) : Bottom < s.records[i].peak
  BY <1>1, <1>3, SegmentsAbove
<1>5. PeakOfOld(xs, Len(s.front)) = Bottom
  BY <1>2 DEF PeakOfOld
<1>6. SplitAt(s.records, 0, Bottom)
  BY <1>1, <1>4 DEF SplitAt
<1> QED BY <1>5, <1>6 DEF Split

\* And conversely.
LEMMA NoFrontStarts ==
    ASSUME NEW s, NEW p, NEW xs, HalvesKeep(s, p, xs), s.front = <<>>, Split(s, xs)
    PROVE  s.cursor = 0
<1>1. /\ Above(xs) /\ IsRest(s.back, xs, Len(s.front)) /\ HasSegments(s.records, s.back)
      /\ s.cursor \in 0 .. Len(s.records)
  BY DEF HalvesKeep
<1>2. Len(s.front) = 0
  BY EmptySeq
<1>3. Above(s.back) /\ s.back \in Ints
  <2>1. /\ s.back \in Ints /\ Len(xs) = 0 + Len(s.back)
        /\ \A i \in 1 .. Len(s.back) : s.back[i] = xs[0 + i]
        /\ \A i \in 1 .. Len(xs) : Bottom < xs[i]
    BY <1>1, <1>2 DEF IsRest, Above
  <2>2. Len(s.back) \in Nat
    BY <2>1, IntsFacts
  <2> QED BY <2>1, <2>2 DEF Above
<1>4. \A i \in 1 .. Len(s.records) : Bottom < s.records[i].peak
  BY <1>1, <1>3, SegmentsAbove
<1>5. PeakOfOld(xs, Len(s.front)) = Bottom
  BY <1>2 DEF PeakOfOld
<1>6. s.cursor > 0 => s.records[s.cursor].peak <= Bottom
  BY <1>5 DEF Split, SplitAt
<1>7. Ordered(s.records)
  BY <1>1, <1>3, SegmentsOrdered
<1>8. Len(s.records) \in Nat /\ \A i \in 1 .. Len(s.records) : s.records[i].peak \in Int
  BY <1>7 DEF Ordered
<1> SUFFICES ASSUME s.cursor # 0 PROVE FALSE
  OBVIOUS
<1>9. s.cursor > 0 /\ s.cursor \in 1 .. Len(s.records)
  BY <1>1, <1>8
<1>10. /\ s.records[s.cursor].peak \in Int /\ Bottom \in Int
       /\ Bottom < s.records[s.cursor].peak /\ s.records[s.cursor].peak <= Bottom
  BY <1>4, <1>6, <1>8, <1>9, BottomAssumption
<1> QED BY <1>10

LEMMA MaxSlides ==
    ASSUME NEW p \in Nat \ {0}, NEW xs, NEW x \in Int, Bottom < x, NEW s, MaxKeeps(s, p, xs)
    PROVE  MaxKeeps(MaxDrawdownUpdated(s, x), p, Slid(xs, p, x))
<1> DEFINE zs == Append(xs, x)
           ys == Slid(xs, p, x)
           pushed == PushBack(s, x)
           full == Len(pushed.front) + Len(pushed.back) > s.period
           refilled == IF full /\ pushed.front = <<>> THEN RefillFront(pushed) ELSE pushed
           slid == IF full THEN [refilled EXCEPT !.front = Front(@)] ELSE refilled
           t == MaxDrawdownUpdated(s, x)
<1>1. t = IF Len(slid.front) + Len(slid.back) < s.period THEN slid ELSE Worst(slid)
  BY DEF MaxDrawdownUpdated
<1>2. /\ HalvesKeep(s, p, xs) /\ Split(s, xs) /\ Len(xs) <= p
      /\ Len(xs) < p => s.front = <<>>
      /\ s.last = IF Len(xs) < p THEN None ELSE Some(DeepestDecline(xs))
  BY DEF MaxKeeps
<1>3. xs \in Ints /\ Len(xs) \in Nat /\ s.period = p
  <2>1. Above(xs) /\ s.period = p
    BY <1>2 DEF HalvesKeep
  <2> QED BY <2>1, IntsFacts DEF Above
<1>4. /\ HalvesKeep(pushed, p, zs) /\ pushed.front = s.front /\ pushed.last = s.last
      /\ pushed.cursor = s.cursor
  BY <1>2, PushKeepsHalves
<1> HIDE DEF pushed, t
<1>5. /\ zs \in Ints /\ Len(zs) = Len(xs) + 1 /\ zs # <<>> /\ zs[Len(xs) + 1] = x
      /\ \A i \in 1 .. Len(xs) : zs[i] = xs[i]
  BY <1>3, IntsGrow
<1>6. /\ ys \in Ints /\ ys # <<>> /\ Len(ys) <= p
      /\ Len(ys) = IF Len(xs) = p THEN p ELSE Len(xs) + 1
  BY <1>2, <1>3, SlidFacts
<1>7. Len(pushed.front) + Len(pushed.back) = Len(xs) + 1
  <2>1. IsRest(pushed.back, zs, Len(pushed.front))
    BY <1>4 DEF HalvesKeep
  <2> QED BY <1>5, <2>1 DEF IsRest
<1>8. full <=> Len(xs) = p
  <2>2. full <=> Len(xs) + 1 > p
    BY <1>3, <1>7
  <2>3. Len(xs) + 1 > p <=> Len(xs) = p
    BY <1>2, <1>3
  <2> QED BY <2>2, <2>3
<1> HIDE DEF full
<1>9. HalvesKeep(slid, p, ys) /\ slid.last = s.last
  <2>1. CASE ~full
    <3>1. slid = pushed
      BY <2>1
    <3>2. ys = zs
      BY <1>8, <2>1 DEF Slid
    <3> QED BY <1>4, <3>1, <3>2
  <2>2. CASE full
    <3>1. Len(xs) = p /\ slid = [refilled EXCEPT !.front = Front(@)]
      BY <1>8, <2>2
    <3>2. /\ HalvesKeep(refilled, p, zs) /\ refilled.front # <<>>
          /\ refilled.last = s.last
      <4>1. CASE pushed.front = <<>>
        <5>1. refilled = RefillFront(pushed)
          BY <2>2, <4>1
        <5> HIDE DEF refilled, zs
        <5> QED BY <1>4, <1>5, <4>1, <5>1, RefillKeepsHalves
      <4>2. CASE pushed.front # <<>>
        <5>1. refilled = pushed
          BY <4>2
        <5> QED BY <1>4, <4>2, <5>1
      <4> QED BY <4>1, <4>2
    <3>3. OneLess(ys, zs)
      <4>1. Len(zs) = Len(ys) + 1 /\ Len(ys) = p
        BY <1>5, <1>6, <3>1
      <4>2. /\ \A i \in 1 .. p - 1 : ys[i] = xs[i + 1]
            /\ ys[p] = x
        BY <1>2, <1>3, <3>1, SlidAt
      <4> HIDE DEF ys, zs
      <4>3. ASSUME NEW i \in 1 .. p PROVE ys[i] = zs[i + 1]
        <5>1. CASE i = p
          BY <1>5, <3>1, <4>2, <5>1
        <5>2. CASE i # p
          <6>1. i \in 1 .. p - 1 /\ i + 1 \in 1 .. p
            BY <5>2
          <6> QED BY <1>5, <3>1, <4>2, <6>1
        <5> QED BY <5>1, <5>2
      <4> QED BY <1>6, <4>1, <4>3 DEF OneLess
    <3> HIDE DEF ys, zs, slid, refilled
    <3>4. HalvesKeep(slid, p, ys)
      BY <3>1, <3>2, <3>3, PopKeepsHalves
    <3>5. slid.last = s.last
      <4>1. DOMAIN refilled = MaxFields
        BY <3>2 DEF HalvesKeep
      <4> QED BY <3>1, <3>2, <4>1 DEF MaxFields
    <3> QED BY <3>4, <3>5
  <2> QED BY <2>1, <2>2
<1>10. Len(xs) < p => slid = pushed
  BY <1>2, <1>3, <1>8
<1> HIDE DEF slid, ys
<1>11. Len(slid.front) + Len(slid.back) = Len(ys)
  <2>1. IsRest(slid.back, ys, Len(slid.front))
    BY <1>9 DEF HalvesKeep
  <2> QED BY <2>1 DEF IsRest
<1>12. CASE Len(ys) < p
  <2>1. Len(xs) < p
    BY <1>2, <1>3, <1>6, <1>12
  <2>2. t = slid /\ slid = pushed
    BY <1>1, <1>3, <1>10, <1>11, <1>12, <2>1
  <2>3. slid.front = <<>> /\ slid.cursor = 0 /\ s.last = None
    BY <1>2, <1>4, <2>1, <2>2, NoFrontStarts
  <2>4. Split(slid, ys)
    BY <1>9, <2>3, NoFrontSplits
  <2> QED BY <1>6, <1>9, <1>12, <2>2, <2>3, <2>4 DEF MaxKeeps, t, ys
<1>13. CASE ~(Len(ys) < p)
  <2>1. t = Worst(slid)
    BY <1>1, <1>3, <1>11, <1>13
  <2>2. /\ HalvesKeep(t, p, ys) /\ Split(t, ys)
        /\ t.last = Some(DeepestDecline(ys))
    BY <1>6, <1>9, <2>1, WorstKeeps
  <2> QED BY <1>6, <1>13, <2>2 DEF MaxKeeps, t, ys
<1> QED BY <1>12, <1>13

\* What it answers.
LEMMA MaxGives ==
    ASSUME NEW p \in Nat \ {0}, NEW xs, NEW s, MaxKeeps(s, p, xs), ~(Len(xs) < p)
    PROVE  s.last = Some(DeepestDecline(xs)) /\ DeepestDecline(xs) \in Int
<1>1. xs \in Ints /\ Len(xs) # 0
  <2>1. xs \in Ints
    BY DEF MaxKeeps, HalvesKeep, Above
  <2> QED BY <2>1, IntsFacts
<1>2. DeepestDecline(xs) \in Int
  BY <1>1, DeepestFacts, IntsFacts
<1> QED BY <1>2 DEF MaxKeeps

\* A set with one member more has twice the subsets: that is what is known of 2^n.
LEMMA PowerDoubles ==
    ASSUME NEW n \in Nat
    PROVE  2^n \in Nat /\ 2^(n + 1) = 2 * 2^n
<1> DEFINE A == 1 .. n
           B == 1 .. n + 1
           P == SUBSET A
           Q == {x \in SUBSET B : n + 1 \in x}
           f == [x \in P |-> x \cup {n + 1}]
<1>1. IsFiniteSet(A) /\ Cardinality(A) = n
  BY FS_Interval
<1>2. IsFiniteSet(B) /\ Cardinality(B) = n + 1
  BY FS_Interval
<1>3. IsFiniteSet(P) /\ Cardinality(P) = 2^n
  BY <1>1, FS_SUBSET
<1>4. Cardinality(SUBSET B) = 2^(n + 1)
  BY <1>2, FS_SUBSET
<1>5. f \in Bijection(P, Q)
  <2>1. f \in [P -> Q]
    OBVIOUS
  <2>2. ASSUME NEW x \in P, NEW y \in P, f[x] = f[y] PROVE x = y
    <3>1. n + 1 \notin x /\ n + 1 \notin y
      OBVIOUS
    <3> QED BY <2>2, <3>1
  <2>3. ASSUME NEW q \in Q PROVE \E x \in P : f[x] = q
    <3>1. q \ {n + 1} \in P /\ f[q \ {n + 1}] = q
      OBVIOUS
    <3> QED BY <3>1
  <2> QED BY <2>1, <2>2, <2>3 DEF Bijection, Injection, IsInjective, Surjection
<1>6. IsFiniteSet(Q) /\ Cardinality(Q) = Cardinality(P)
  BY <1>3, <1>5, FS_Bijection DEF ExistsBijection
<1>7. SUBSET B = P \cup Q /\ P \cap Q = {}
  OBVIOUS
<1> HIDE DEF A, B, P, Q, f
<1>8. Cardinality({}) = 0
  BY FS_EmptySet
<1>9. Cardinality(P \cup Q) = Cardinality(P) + Cardinality(Q) - 0
  BY <1>3, <1>6, <1>7, <1>8, FS_Union
<1>10. Cardinality(P) \in Nat
  BY <1>3, FS_CardinalityType
<1>11. Cardinality(SUBSET B) = 2 * Cardinality(P)
  <2>1. Cardinality(SUBSET B) = Cardinality(P \cup Q)
    BY <1>7
  <2> DEFINE c == Cardinality(P)
             d == Cardinality(Q)
             e == Cardinality(P \cup Q)
  <2>2. c \in Nat /\ d = c /\ e = c + d - 0
    BY <1>6, <1>9, <1>10
  <2> HIDE DEF c, d, e
  <2>3. e = 2 * c
    BY <2>2
  <2> QED BY <2>1, <2>3 DEF c, e
<1> QED BY <1>3, <1>4, <1>10, <1>11, Zenon

LEMMA PowersGrow ==
    ASSUME NEW n \in Nat
    PROVE  2^n \in Nat /\ n < 2^n /\ \A m \in 0 .. n : 2^m <= 2^n
<1> DEFINE S == {k \in Nat : 2^k \in Nat /\ k < 2^k /\ \A m \in 0 .. k : 2^m <= 2^k}
<1>1. 2^0 = 1
  OBVIOUS
<1>2. 0 \in S
  <2>1. ASSUME NEW m \in 0 .. 0 PROVE 2^m <= 2^0
    <3>1. m = 0
      OBVIOUS
    <3> QED BY <1>1, <3>1
  <2>2. 0 \in Nat /\ 2^0 \in Nat /\ 0 < 2^0 /\ \A m \in 0 .. 0 : 2^m <= 2^0
    BY <1>1, <2>1
  <2> QED BY <2>2
<1>3. \A k \in Nat : k \in S => k + 1 \in S
  <2> SUFFICES ASSUME NEW k \in Nat, k \in S PROVE k + 1 \in S
    OBVIOUS
  <2>1. 2^k \in Nat /\ 2^(k + 1) = 2 * 2^k
    BY PowerDoubles
  <2>2. ASSUME NEW m \in 0 .. k + 1 PROVE 2^m <= 2^(k + 1)
    <3>1. CASE m = k + 1
      BY <2>1, <3>1
    <3>2. CASE m # k + 1
      <4>1. m \in 0 .. k
        BY <3>2
      <4>2. m \in Nat
        OBVIOUS
      <4>3. 2^m \in Nat /\ 2^m <= 2^k
        BY <4>1, <4>2, PowerDoubles
      <4> QED BY <2>1, <4>3
    <3> QED BY <3>1, <3>2
  <2> QED BY <2>1, <2>2
<1> HIDE DEF S
<1>4. n \in S
  BY <1>2, <1>3, SetInduction
<1> QED BY <1>4 DEF S

\* The binade of a natural number.
IsScale(k, a) == /\ a <= Exact * 2^k
                 /\ k = 0 \/ a > Exact * 2^(k - 1)

LEMMA UlpIsAPower ==
    ASSUME NEW a \in Nat
    PROVE  \E k \in Nat : Ulp(a) = 2^k /\ IsScale(k, a)
<1> DEFINE S == {k \in Nat : a <= Exact * 2^k}
<1>1. a \in S
  <2>1. 2^a \in Nat /\ a < 2^a
    BY PowersGrow
  <2>2. Exact \in Nat /\ Exact >= 1
    BY FloatAssumption
  <2> DEFINE p == 2^a
  <2>3. p \in Nat /\ a < p
    BY <2>1
  <2> HIDE DEF p
  <2>4. (Exact - 1) * p >= 0 /\ Exact * p = (Exact - 1) * p + p
    BY <2>2, <2>3
  <2>5. a <= Exact * p
    BY <2>2, <2>3, <2>4
  <2> QED BY <2>5 DEF p
<1>2. PICK k \in S : \A y \in S : ~(y < k)
  BY <1>1, SmallestOf
<1>3. k \in 0 .. a
  BY <1>1, <1>2
<1>4. k = 0 \/ a > Exact * 2^(k - 1)
  <2> SUFFICES ASSUME k # 0 PROVE a > Exact * 2^(k - 1)
    OBVIOUS
  <2>1. k - 1 \in Nat /\ k - 1 < k
    BY <1>3
  <2>2. ~(a <= Exact * 2^(k - 1))
    BY <1>2, <2>1
  <2>3. 2^(k - 1) \in Nat /\ Exact \in Nat
    BY <2>1, PowersGrow, FloatAssumption
  <2> DEFINE p == 2^(k - 1)
  <2>4. p \in Nat /\ ~(a <= Exact * p)
    BY <2>2, <2>3
  <2> HIDE DEF p
  <2>5. a > Exact * p
    BY <2>3, <2>4
  <2> QED BY <2>5 DEF p
<1>5. IsScale(k, a)
  BY <1>2, <1>4 DEF IsScale
<1>6. \E j \in 0 .. a : IsScale(j, a)
  BY <1>3, <1>5
<1> DEFINE c == CHOOSE j \in 0 .. a : IsScale(j, a)
<1>7. c \in 0 .. a /\ IsScale(c, a)
  BY <1>6
<1>8. Ulp(a) = 2^c
  BY DEF Ulp, IsScale
<1> HIDE DEF c
<1>9. c \in Nat
  BY <1>7
<1> QED BY <1>7, <1>8, <1>9

LEMMA NearestIsNat ==
    ASSUME NEW a \in Nat
    PROVE  Nearest(a) \in Nat
<1> DEFINE u == Ulp(a)
           q == a \div u
           up == 2 * (a % u) > u \/ (2 * (a % u) = u /\ q % 2 = 1)
<1>1. u \in Nat /\ u > 0
  <2>1. PICK k \in Nat : Ulp(a) = 2^k /\ IsScale(k, a)
    BY UlpIsAPower
  <2>2. 2^k \in Nat /\ k < 2^k
    BY PowersGrow
  <2> QED BY <2>1, <2>2
<1>2. Nearest(a) = IF up THEN (q + 1) * u ELSE q * u
  BY DEF Nearest
<1> HIDE DEF u
<1>3. q \in Nat
  BY <1>1
<1> HIDE DEF q, up
<1>4. (q + 1) * u \in Nat /\ q * u \in Nat
  BY <1>1, <1>3
<1> QED BY <1>2, <1>4

\* The results of the arithmetic are integers, the infinities and NaN among them.
LEMMA AddIsInt ==
    ASSUME NEW x \in Int, NEW y \in Int
    PROVE  Add(x, y) \in Int /\ Sub(x, y) \in Int
<1>1. Largest \in Nat
  BY FloatAssumption
<1>2. PosInf \in Int /\ NegInf \in Int /\ NaN \in Int
  BY <1>1 DEF PosInf, NegInf, NaN
<1>3. ASSUME NEW z \in Int PROVE Round(z) \in Int
  <2>1. Abs(z) \in Nat
    BY DEF Abs
  <2>2. Nearest(Abs(z)) \in Nat
    BY <2>1, NearestIsNat
  <2> QED BY <1>2, <2>2 DEF Round
<1>4. \A a, b \in Int : Add(a, b) \in Int
  <2> SUFFICES ASSUME NEW a \in Int, NEW b \in Int PROVE Add(a, b) \in Int
    OBVIOUS
  <2>1. Round(a + b) \in Int
    BY <1>3
  <2> QED BY <1>2, <2>1 DEF Add
<1>5. -y \in Int
  OBVIOUS
<1> QED BY <1>2, <1>4, <1>5 DEF Sub

LEMMA DivIsInt ==
    ASSUME NEW x \in Int, NEW n \in Nat \ {0}
    PROVE  Div(x, n) \in Int
<1> DEFINE a == (2 * Abs(x) + n) \div (2 * n)
<1>1. Abs(x) \in Nat
  BY DEF Abs
<1>2. a \in Nat
  <2>1. 2 * n \in Nat /\ 2 * n > 0 /\ 2 * Abs(x) + n \in Nat
    BY <1>1
  <2> DEFINE e == 2 * Abs(x) + n
             d == 2 * n
  <2>2. e \in Nat /\ d \in Nat /\ d > 0
    BY <2>1
  <2> HIDE DEF e, d
  <2>3. e \div d \in Nat
    BY <2>2
  <2> QED BY <2>3 DEF e, d
<1>3. Nearest(a) \in Nat
  BY <1>2, NearestIsNat
<1> QED BY <1>3 DEF Div

\* What the floating-point sum is after each member.
AreTotals(V, q, N) ==
    /\ V[0] = 0 /\ V[N] = Total(q)
    /\ \A k \in 1 .. N : V[k] = Add(V[k - 1], q[k])

LEMMA TotalsExist ==
    ASSUME NEW N \in Nat, NEW q, DOMAIN q = 1 .. N
    PROVE  \E V : AreTotals(V, q, N)
<1> DEFINE Next1(g, s) == IF s = {} THEN 0 ELSE Add(g[s \ {Max(s)}], q[Max(s)])
           Upto(g, k) == g = [s \in SUBSET (1 .. k) |-> Next1(g, s)]
           S == {k \in Nat : \E g : Upto(g, k)}
<1>1. 0 \in S
  <2> DEFINE g == [s \in SUBSET (1 .. 0) |-> 0]
  <2>1. g = [s \in SUBSET (1 .. 0) |-> g[s]]
    OBVIOUS
  <2>2. \A s \in SUBSET (1 .. 0) : s = {} /\ g[s] = 0
    OBVIOUS
  <2> HIDE DEF g
  <2>3. Upto(g, 0)
    BY <2>1, <2>2, Zenon
  <2> HIDE DEF Upto
  <2> QED BY <2>3
<1>2. \A k \in Nat : k \in S => k + 1 \in S
  <2> SUFFICES ASSUME NEW k \in Nat, k \in S PROVE k + 1 \in S
    OBVIOUS
  <2>1. PICK g : Upto(g, k)
    OBVIOUS
  <2> DEFINE h == [s \in SUBSET (1 .. k + 1) |->
                      IF k + 1 \in s THEN Add(g[s \ {k + 1}], q[k + 1]) ELSE g[s]]
  <2>2. h = [s \in SUBSET (1 .. k + 1) |-> h[s]]
    OBVIOUS
  <2>3. \A s \in SUBSET (1 .. k) : s \in SUBSET (1 .. k + 1) /\ ~(k + 1 \in s)
    OBVIOUS
  <2>4. \A s \in SUBSET (1 .. k) : h[s] = g[s]
    BY <2>3
  <2>5. \A s \in SUBSET (1 .. k + 1) : k + 1 \in s => h[s] = Add(g[s \ {k + 1}], q[k + 1])
    OBVIOUS
  <2> HIDE DEF h
  <2>6. ASSUME NEW s \in SUBSET (1 .. k + 1) PROVE h[s] = Next1(h, s)
    <3>1. CASE k + 1 \in s
      <4>1. Max(s) \in s /\ \A y \in s : Max(s) >= y
        <5>1. k + 1 \in Nat /\ s # {}
          BY <3>1
        <5> QED BY <5>1, LargestOf
      <4>2. Max(s) = k + 1
        <5>1. Max(s) \in 1 .. k + 1 /\ Max(s) >= k + 1
          BY <3>1, <4>1
        <5> QED BY <5>1
      <4>3. s \ {k + 1} \in SUBSET (1 .. k)
        OBVIOUS
      <4>4. h[s] = Add(h[s \ {k + 1}], q[k + 1])
        BY <2>4, <2>5, <3>1, <4>3
      <4>5. s # {}
        BY <3>1
      <4> QED BY <4>2, <4>4, <4>5
    <3>2. CASE ~(k + 1 \in s)
      <4>1. s \in SUBSET (1 .. k)
        BY <3>2
      <4>2. h[s] = g[s] /\ g[s] = Next1(g, s)
        BY <2>1, <2>4, <4>1
      <4>3. CASE s = {}
        BY <4>2, <4>3
      <4>4. CASE s # {}
        <5>1. s \ {Max(s)} \in SUBSET (1 .. k)
          BY <4>1
        <5>2. h[s \ {Max(s)}] = g[s \ {Max(s)}]
          BY <2>4, <5>1
        <5> QED BY <4>2, <4>4, <5>2
      <4> QED BY <4>3, <4>4
    <3> QED BY <3>1, <3>2
  <2>7. Upto(h, k + 1)
    <3> HIDE DEF Next1
    <3> QED BY <2>2, <2>6, Zenon
  <2>8. k + 1 \in Nat
    OBVIOUS
  <2> HIDE DEF Upto
  <2> QED BY <2>7, <2>8
<1> HIDE DEF S
<1>3. N \in S
  BY <1>1, <1>2, SetInduction
<1> DEFINE Is(g) == g = [s \in SUBSET DOMAIN q |-> Next1(g, s)]
           iter == CHOOSE g : Is(g)
<1>4. \E g : Is(g)
  <2>1. PICK g : Upto(g, N)
    <3> HIDE DEF Upto
    <3> QED BY <1>3 DEF S
  <2>2. Is(g)
    <3> HIDE DEF Next1
    <3>1. g = [s \in SUBSET (1 .. N) |-> Next1(g, s)]
      BY <2>1
    <3> QED BY <3>1
  <2> HIDE DEF Is
  <2> QED BY <2>2
<1>5. Is(iter)
  <2> HIDE DEF Is
  <2> QED BY <1>4
<1>6. Total(q) = iter[1 .. N]
  <2>1. Total(q) = (CHOOSE g : g = [s \in SUBSET DOMAIN q |->
                      IF s = {} THEN 0 ELSE Add(g[s \ {Max(s)}], q[Max(s)])])[DOMAIN q]
    BY DEF Total, FoldLeft, MapThenFoldSet
  <2> QED BY <2>1
<1> HIDE DEF iter
<1>7. \A s \in SUBSET (1 .. N) : iter[s] = Next1(iter, s)
  <2> HIDE DEF Next1
  <2> QED BY <1>5
<1> DEFINE V == [k \in 0 .. N |-> iter[1 .. k]]
<1>8. V[0] = 0 /\ V[N] = Total(q)
  <2>1. 1 .. 0 = {} /\ {} \in SUBSET (1 .. N) /\ 0 \in 0 .. N /\ N \in 0 .. N
    OBVIOUS
  <2>2. iter[{}] = 0
    BY <1>7, <2>1
  <2> QED BY <1>6, <2>1, <2>2
<1>9. \A k \in 1 .. N : V[k] = Add(V[k - 1], q[k])
  <2> SUFFICES ASSUME NEW k \in 1 .. N PROVE V[k] = Add(V[k - 1], q[k])
    OBVIOUS
  <2>1. /\ 1 .. k \in SUBSET (1 .. N) /\ 1 .. k # {} /\ k \in 1 .. k
        /\ (1 .. k) \ {k} = 1 .. k - 1 /\ k \in 0 .. N /\ k - 1 \in 0 .. N
    OBVIOUS
  <2>2. Max(1 .. k) \in 1 .. k /\ \A y \in 1 .. k : Max(1 .. k) >= y
    <3>1. k \in Nat
      OBVIOUS
    <3> QED BY <2>1, <3>1, LargestOf
  <2>3. Max(1 .. k) = k
    BY <2>1, <2>2
  <2>4. iter[1 .. k] = Add(iter[1 .. k - 1], q[k])
    BY <1>7, <2>1, <2>3
  <2> QED BY <2>1, <2>4
<1> HIDE DEF V
<1>10. AreTotals(V, q, N)
  BY <1>8, <1>9 DEF AreTotals
<1> QED BY <1>10

LEMMA TotalIsInt ==
    ASSUME NEW N \in Nat, NEW q, DOMAIN q = 1 .. N, \A i \in 1 .. N : q[i] \in Int
    PROVE  Total(q) \in Int
<1>1. PICK V : AreTotals(V, q, N)
  BY TotalsExist
<1> DEFINE S == {k \in Nat : k <= N => V[k] \in Int}
<1>2. 0 \in S
  BY <1>1 DEF AreTotals
<1>3. \A k \in Nat : k \in S => k + 1 \in S
  <2> SUFFICES ASSUME NEW k \in Nat, k <= N => V[k] \in Int, k + 1 <= N
               PROVE  V[k + 1] \in Int
    OBVIOUS
  <2>1. k + 1 \in 1 .. N /\ (k + 1) - 1 = k /\ k <= N
    OBVIOUS
  <2>2. V[k + 1] = Add(V[k], q[k + 1])
    BY <1>1, <2>1 DEF AreTotals
  <2>3. V[k] \in Int /\ q[k + 1] \in Int
    BY <2>1
  <2> QED BY <2>2, <2>3, AddIsInt
<1> HIDE DEF S
<1>4. N \in S
  BY <1>2, <1>3, SetInduction
<1>5. V[N] \in Int
  BY <1>4 DEF S
<1> QED BY <1>1, <1>5 DEF AreTotals

-----------------------------------------------------------------------------
(* Sma: it holds integers. *)

SmaHolds(s, p) ==
    /\ DOMAIN s = SmaFields /\ s.period = p
    /\ s.buf \in [0 .. p - 1 -> Int] /\ s.head \in 0 .. p - 1 /\ s.sum \in Int

LEMMA SmaStarts ==
    ASSUME NEW p \in Nat \ {0}
    PROVE  SmaHolds(NewSma(p), p)
<1> DEFINE b == [i \in 0 .. p - 1 |-> 0]
<1>1. b \in [0 .. p - 1 -> Int] /\ 0 \in 0 .. p - 1
  OBVIOUS
<1> QED BY <1>1 DEF NewSma, SmaHolds, SmaFields

LEMMA SmaRestarts ==
    ASSUME NEW p \in Nat \ {0}, NEW s, SmaHolds(s, p)
    PROVE  SmaHolds(Clear(s), p)
<1>1. 0 \in 0 .. p - 1
  OBVIOUS
<1> QED BY <1>1 DEF Clear, SmaHolds, SmaFields

LEMMA SmaGoesOn ==
    ASSUME NEW p \in Nat \ {0}, NEW s, SmaHolds(s, p), NEW x \in Int
    PROVE  SmaHolds(Updated(s, x), p)
<1>1. /\ DOMAIN s = SmaFields /\ s.period = p
      /\ s.buf \in [0 .. p - 1 -> Int] /\ s.head \in 0 .. p - 1 /\ s.sum \in Int
  BY DEF SmaHolds
<1> DEFINE kept == IF Full(s) THEN Sub(s.sum, s.buf[s.head]) ELSE s.sum
           e == Enter(s, x)
           t == Reseed(e, e.head)
<1>2. kept \in Int
  <2>1. s.buf[s.head] \in Int
    BY <1>1
  <2> QED BY <1>1, <2>1, AddIsInt
<1>3. /\ DOMAIN e = SmaFields /\ e.period = p
      /\ e.buf = [s.buf EXCEPT ![s.head] = x]
      /\ e.head = Wrap(s, s.head + 1)
      /\ e.sum = Add(kept, x)
  BY <1>1 DEF Enter, SmaFields
<1>4. e.sum \in Int
  BY <1>2, <1>3, AddIsInt
<1>5. e.buf \in [0 .. p - 1 -> Int]
  BY <1>1, <1>3
<1>6. e.head \in 0 .. p - 1
  BY <1>1, <1>3 DEF Wrap
<1> HIDE DEF e, kept
<1>7. SmaHolds(t, p)
  <2>1. CASE e.since < RecomputeEvery * e.period
    <3>1. t = e
      BY <2>1 DEF Reseed
    <3> QED BY <1>3, <1>4, <1>5, <1>6, <3>1 DEF SmaHolds
  <2>2. CASE ~(e.since < RecomputeEvery * e.period)
    <3> DEFINE r == Ring(e, e.head)
    <3>1. t = [e EXCEPT !.sum = Total(r), !.since = 0]
      BY <2>2 DEF Reseed
    <3>2. DOMAIN r = 1 .. p
      BY <1>3 DEF Ring
    <3>3. \A i \in 1 .. p : r[i] \in Int
      <4> SUFFICES ASSUME NEW i \in 1 .. p PROVE r[i] \in Int
        OBVIOUS
      <4> DEFINE k == IF e.head + i - 1 < p THEN e.head + i - 1 ELSE e.head + i - 1 - p
      <4>1. r[i] = e.buf[k]
        BY <1>3 DEF Ring
      <4>2. k \in 0 .. p - 1
        BY <1>6
      <4> HIDE DEF k
      <4> QED BY <1>5, <4>1, <4>2
    <3>4. Total(r) \in Int
      <4> HIDE DEF r
      <4> QED BY <3>2, <3>3, TotalIsInt
    <3> HIDE DEF r, t
    <3>5. /\ DOMAIN t = SmaFields /\ t.period = p /\ t.buf = e.buf /\ t.head = e.head
          /\ t.sum = Total(r)
      BY <1>3, <3>1 DEF SmaFields
    <3> QED BY <1>5, <1>6, <3>4, <3>5 DEF SmaHolds
  <2> QED BY <2>1, <2>2
<1>8. Updated(s, x) = IF IsFinite(x) THEN t ELSE s
  BY DEF Updated, e
<1> QED BY <1>7, <1>8

LEMMA SmaGives ==
    ASSUME NEW p \in Nat \ {0}, NEW s, SmaHolds(s, p)
    PROVE  Value(s) = None \/ \E v \in Int : Value(s) = Some(v)
<1>1. s.sum \in Int /\ s.period = p
  BY DEF SmaHolds
<1>2. Div(s.sum, p) \in Int
  BY <1>1, DivIsInt
<1> QED BY <1>1, <1>2 DEF Value

-----------------------------------------------------------------------------
(* A stage of any kind: what its state holds of the inputs it is to        *)
(* remember, and so what it answers.                                       *)

\* A stage that has the inputs xs behind it.
StageKeeps(stage, s, xs) ==
    /\ Above(xs)
    /\ stage.kind \in Windowed => Len(xs) <= stage.period
    /\ stage.kind = "sma" => SmaHolds(s, stage.period)
    /\ stage.kind = "wma" => WmaKeeps(s, stage.period, xs)
    /\ stage.kind \in {"median", "mad"} => SortedKeeps(s, stage.period, xs)
    /\ stage.kind = "stddev" => StdDevKeeps(s, stage.period, xs)
    /\ stage.kind = "max_drawdown" => MaxKeeps(s, stage.period, xs)
    /\ stage.kind = "ulcer" => UlcerKeeps(s, stage.period, xs)
    /\ stage.kind = "running_drawdown" => RunningKeeps(s, xs)
    /\ stage.kind = "drawdown_duration" => DurationKeeps(s, xs)

\* An answer a stage may give: none, or an integer.
IsAnswer(a) == a = None \/ \E v \in Int : a = Some(v)

LEMMA AboveNone == Above(<<>>) /\ Len(<<>>) = 0
<1>1. <<>> \in Ints /\ Len(<<>>) = 0
  BY NoneIsInts
<1> QED BY <1>1 DEF Above

LEMMA AboveSlides ==
    ASSUME NEW p \in Nat \ {0}, NEW xs, Above(xs), Len(xs) <= p, NEW x \in Int, Bottom < x
    PROVE  Above(Slid(xs, p, x)) /\ Len(Slid(xs, p, x)) <= p
<1> DEFINE ys == Slid(xs, p, x)
           n == Len(xs)
           m == Len(ys)
<1>1. xs \in Ints /\ \A i \in 1 .. n : Bottom < xs[i]
  BY DEF Above
<1>2. n \in Nat
  BY <1>1, IntsFacts
<1>3. /\ ys \in Ints
      /\ m = IF n = p THEN p ELSE n + 1
      /\ m <= p
  BY <1>1, SlidFacts
<1>4. /\ n = p => (\A i \in 1 .. p - 1 : ys[i] = xs[i + 1]) /\ ys[p] = x
      /\ n < p => (\A i \in 1 .. n : ys[i] = xs[i]) /\ ys[n + 1] = x
  BY <1>1, SlidAt
<1> HIDE DEF ys, n, m
<1>5. \A i \in 1 .. m : Bottom < ys[i]
  <2>1. CASE n = p
    <3>1. m = p
      BY <1>3, <2>1
    <3>2. \A i \in 1 .. p - 1 : i + 1 \in 1 .. n
      BY <2>1
    <3> SUFFICES ASSUME NEW i \in 1 .. p PROVE Bottom < ys[i]
      BY <3>1
    <3>3. i = p \/ i \in 1 .. p - 1
      OBVIOUS
    <3> QED BY <1>1, <1>4, <2>1, <3>2, <3>3
  <2>2. CASE n < p
    <3>1. m = n + 1
      BY <1>2, <1>3, <2>2
    <3> SUFFICES ASSUME NEW i \in 1 .. n + 1 PROVE Bottom < ys[i]
      BY <3>1
    <3>2. i = n + 1 \/ i \in 1 .. n
      BY <1>2
    <3> QED BY <1>1, <1>4, <2>2, <3>2
  <2> QED BY <1>2, <2>1, <2>2 DEF n
<1> QED BY <1>3, <1>5 DEF Above, ys, m

LEMMA StageStarts ==
    ASSUME NEW stage \in Stage
    PROVE  StageKeeps(stage, New(stage), <<>>)
<1> DEFINE p == stage.period
<1>0. p \in Nat \ {0} /\ Above(<<>>) /\ Len(<<>>) <= p
  BY KindCases, AboveNone
<1> HIDE DEF p
<1>1. CASE stage.kind = "sma"
  BY <1>0, <1>1, SmaStarts DEF StageKeeps, New, p
<1>2. CASE stage.kind = "wma"
  BY <1>0, <1>2, WmaStarts DEF StageKeeps, New, p
<1>3. CASE stage.kind \in {"median", "mad"}
  BY <1>0, <1>3, SortedStarts DEF StageKeeps, New, p
<1>4. CASE stage.kind = "stddev"
  BY <1>0, <1>4, StdDevStarts DEF StageKeeps, New, p
<1>5. CASE stage.kind = "max_drawdown"
  BY <1>0, <1>5, MaxStarts DEF StageKeeps, New, p
<1>6. CASE stage.kind = "ulcer"
  BY <1>0, <1>6, UlcerStarts DEF StageKeeps, New, p
<1>7. CASE stage.kind = "running_drawdown"
  BY <1>0, <1>7 DEF StageKeeps, New, RunningKeeps, p
<1>8. CASE stage.kind = "drawdown_duration"
  BY <1>0, <1>8 DEF StageKeeps, New, DurationKeeps, p
<1> QED BY <1>1, <1>2, <1>3, <1>4, <1>5, <1>6, <1>7, <1>8, KindCases

\* A reset keeps the contents of a ring and nothing that could be told from a new stage.
LEMMA StageRestarts ==
    ASSUME NEW stage \in Stage, NEW s, NEW xs, StageKeeps(stage, s, xs)
    PROVE  StageKeeps(stage, Cleared(stage, s), <<>>)
<1> DEFINE p == stage.period
<1>0. p \in Nat \ {0} /\ Above(<<>>) /\ Len(<<>>) <= p
  BY KindCases, AboveNone
<1> HIDE DEF p
<1>1. CASE stage.kind = "sma"
  <2>1. SmaHolds(s, p)
    BY <1>1 DEF StageKeeps, p
  <2>2. SmaHolds(Clear(s), p)
    BY <1>0, <2>1, SmaRestarts
  <2> QED BY <1>0, <1>1, <2>2 DEF StageKeeps, Cleared, p
<1>2. CASE stage.kind = "wma"
  <2>1. WmaShape(s, p)
    BY <1>2 DEF StageKeeps, WmaKeeps, p
  <2>2. WmaKeeps(WmaCleared(s), p, <<>>)
    BY <1>0, <2>1, WmaRestarts
  <2> QED BY <1>0, <1>2, <2>2 DEF StageKeeps, Cleared, p
<1>3. CASE stage.kind # "sma" /\ stage.kind # "wma"
  <2>1. Cleared(stage, s) = New(stage)
    BY <1>3 DEF Cleared
  <2> QED BY <2>1, StageStarts
<1> QED BY <1>1, <1>2, <1>3

\* One more input, whatever it evicts.
LEMMA StageGoesOn ==
    ASSUME NEW stage \in Stage, NEW s, NEW xs, StageKeeps(stage, s, xs),
           NEW x \in Int, Bottom < x
    PROVE  StageKeeps(stage, Fed(stage, s, x), Remembered(stage, Append(xs, x)))
<1> DEFINE p == stage.period
           ys == Remembered(stage, Append(xs, x))
<1>0. p \in Nat \ {0} /\ Above(xs) /\ xs \in Ints
  BY KindCases DEF StageKeeps, Above
<1>a. CASE stage.kind \in Windowed
  <2>1. Len(xs) <= p
    BY <1>a DEF StageKeeps
  <2>2. ys = Slid(xs, p, x)
    BY <1>0, <1>a, <2>1, RememberedIsSlid
  <2>3. Above(ys) /\ Len(ys) <= p
    BY <1>0, <2>1, <2>2, AboveSlides
  <2> HIDE DEF p, ys
  <2>4. CASE stage.kind = "sma"
    <3>1. SmaHolds(s, p)
      BY <2>4 DEF StageKeeps, p
    <3>2. SmaHolds(Updated(s, x), p)
      BY <1>0, <3>1, SmaGoesOn
    <3> QED BY <2>3, <2>4, <3>2 DEF StageKeeps, Fed, p, ys
  <2>5. CASE stage.kind = "wma"
    <3>1. WmaKeeps(s, p, xs)
      BY <2>5 DEF StageKeeps, p
    <3>2. WmaKeeps(WmaUpdated(s, x), p, Slid(xs, p, x))
      BY <1>0, <3>1, WmaSlides
    <3> QED BY <2>2, <2>3, <2>5, <3>2 DEF StageKeeps, Fed, p, ys
  <2>6. CASE stage.kind \in {"median", "mad"}
    <3>1. SortedKeeps(s, p, xs)
      BY <2>6 DEF StageKeeps, p
    <3>2. SortedKeeps(SortedWindowUpdated(s, x), p, Slid(xs, p, x))
      BY <1>0, <3>1, SortedSlides
    <3> QED BY <2>2, <2>3, <2>6, <3>2 DEF StageKeeps, Fed, p, ys
  <2>7. CASE stage.kind = "stddev"
    <3>1. StdDevKeeps(s, p, xs)
      BY <2>7 DEF StageKeeps, p
    <3>2. StdDevKeeps(StdDevUpdated(s, x), p, Slid(xs, p, x))
      BY <1>0, <3>1, StdDevSlides
    <3> QED BY <2>2, <2>3, <2>7, <3>2 DEF StageKeeps, Fed, p, ys
  <2>8. CASE stage.kind = "max_drawdown"
    <3>1. MaxKeeps(s, p, xs)
      BY <2>8 DEF StageKeeps, p
    <3>2. MaxKeeps(MaxDrawdownUpdated(s, x), p, Slid(xs, p, x))
      BY <1>0, <3>1, MaxSlides
    <3> QED BY <2>2, <2>3, <2>8, <3>2 DEF StageKeeps, Fed, p, ys
  <2> QED BY <1>a, <2>4, <2>5, <2>6, <2>7, <2>8 DEF Windowed
<1>b. CASE stage.kind \notin Windowed
  <2>1. ys = Append(xs, x)
    BY <1>b DEF Remembered
  <2>2. Above(ys)
    BY <1>0, <2>1, AboveGrows
  <2> HIDE DEF p, ys
  <2>3. CASE stage.kind = "ulcer"
    <3>1. UlcerKeeps(s, p, xs)
      BY <2>3 DEF StageKeeps, p
    <3>2. UlcerKeeps(UlcerUpdated(s, x), p, Append(xs, x))
      BY <1>0, <3>1, UlcerGrows
    <3> QED BY <1>b, <2>1, <2>2, <2>3, <3>2 DEF StageKeeps, Fed, p, ys
  <2>4. CASE stage.kind = "running_drawdown"
    <3>1. RunningKeeps(s, xs)
      BY <2>4 DEF StageKeeps
    <3>2. RunningKeeps(RunningDrawdownUpdated(s, x), Append(xs, x))
      BY <1>0, <3>1, RunningFed
    <3> QED BY <1>b, <2>1, <2>2, <2>4, <3>2 DEF StageKeeps, Fed, ys
  <2>5. CASE stage.kind = "drawdown_duration"
    <3>1. DurationKeeps(s, xs)
      BY <2>5 DEF StageKeeps
    <3>2. DurationKeeps(DrawdownDurationUpdated(s, x), Append(xs, x))
      BY <1>0, <3>1, DurationFed
    <3> QED BY <1>b, <2>1, <2>2, <2>5, <3>2 DEF StageKeeps, Fed, ys
  <2> QED BY <1>b, <2>3, <2>4, <2>5, KindCases DEF Windowed
<1> QED BY <1>a, <1>b

LEMMA UnderWaterIsInt ==
    ASSUME NEW xs \in Ints, xs # <<>>
    PROVE  BarsUnderWater(xs) \in Int
<1> DEFINE n == Len(xs)
<1>1. n \in Nat /\ DOMAIN xs = 1 .. n /\ n # 0
  BY IntsFacts
<1>2. AtPeak(xs) \in SUBSET (1 .. n)
  BY <1>1 DEF AtPeak
<1>3. 1 \in AtPeak(xs)
  <2>1. 1 \in 1 .. n
    BY <1>1
  <2>2. Peak(xs, 1) \in Int /\ \E i \in 1 .. 1 : Peak(xs, 1) = xs[i]
    BY <2>1, PeakFacts
  <2> QED BY <1>1, <2>1, <2>2 DEF AtPeak
<1> HIDE DEF n
<1>4. \A s \in SUBSET (1 .. n) : s # {} => Max(s) \in s
  BY <1>1, LargestOf
<1>5. PICK m : m = Max(AtPeak(xs))
  OBVIOUS
<1>6. m \in 1 .. n
  BY <1>2, <1>3, <1>4, <1>5
<1>7. BarsUnderWater(xs) = n - m
  BY <1>5, Zenon DEF BarsUnderWater, AtPeak, n
<1> QED BY <1>1, <1>6, <1>7

\* What a stage answers: its definition of the inputs it remembers, once there are
\* enough of them, and always an integer.
LEMMA StageGives ==
    ASSUME NEW stage \in Stage, NEW s, NEW xs, StageKeeps(stage, s, xs)
    PROVE  /\ stage.kind # "sma" =>
                  ValueOf(stage, s) = IF Len(xs) < WarmupOfStage(stage) THEN None
                                      ELSE Some(Definition(stage, xs))
           /\ IsAnswer(ValueOf(stage, s))
<1> DEFINE p == stage.period
           n == Len(xs)
           w == WarmupOfStage(stage)
           a == ValueOf(stage, s)
           d == Definition(stage, xs)
<1>0. /\ p \in Nat \ {0} /\ xs \in Ints /\ n \in Nat
      /\ (xs = <<>> <=> n = 0)
      /\ \A z : Some(z) # None
  BY KindCases, IntsFacts DEF StageKeeps, Above, Some, None
<1> DEFINE Tells == /\ n < w => a = None
                    /\ ~(n < w) => a = Some(d) /\ d \in Int
<1>a. Tells => a = (IF n < w THEN None ELSE Some(d)) /\ IsAnswer(a)
  BY DEF IsAnswer
<1> HIDE DEF Tells
<1>b. CASE stage.kind = "sma"
  <2>1. SmaHolds(s, p)
    BY <1>b DEF StageKeeps
  <2>2. Value(s) = None \/ \E v \in Int : Value(s) = Some(v)
    BY <1>0, <2>1, SmaGives
  <2>3. a = None \/ a = Value(s)
    BY <1>b DEF ValueOf
  <2> HIDE DEF a
  <2>4. IsAnswer(a)
    BY <2>2, <2>3 DEF IsAnswer
  <2> QED BY <1>b, <2>4 DEF a
<1>c. CASE stage.kind = "wma"
  <2>1. WmaKeeps(s, p, xs) /\ n <= p
    BY <1>c DEF StageKeeps, Windowed
  <2>2. /\ s.count = n /\ s.period = p
        /\ n = p => s.weightSum = Weighted(xs)
    BY <2>1 DEF WmaKeeps, WmaShape
  <2>3. Weighted(xs) \in Int
    BY <1>0, WeightsFacts
  <2>4. w = p /\ d = Weighted(xs)
    BY <1>c DEF WarmupOfStage, Definition, Windowed
  <2>5. a = IF s.count = s.period THEN Some(s.weightSum) ELSE None
    BY <1>c DEF ValueOf, IsReadyStage
  <2> HIDE DEF a, d, w, n, p
  <2>6. Tells
    BY <1>0, <2>1, <2>2, <2>3, <2>4, <2>5 DEF Tells
  <2> QED BY <1>a, <2>6 DEF a, d, w, n
<1>d. CASE stage.kind \in {"median", "mad"}
  <2>1. SortedKeeps(s, p, xs) /\ n <= p
    BY <1>d DEF StageKeeps, Windowed
  <2>2. s.window = xs /\ s.period = p
    BY <2>1 DEF SortedKeeps
  <2>3. xs # <<>> => /\ MedianOf(s) = Median2(Sorted(xs)) /\ MedianOf(s) \in Int
                     /\ DeviationOf(s) = MedianDeviation(xs) /\ DeviationOf(s) \in Int
    BY <1>0, <2>1, SortedGives
  <2>4. w = p /\ d = IF stage.kind = "median" THEN Median2(Sorted(xs)) ELSE MedianDeviation(xs)
    BY <1>d DEF WarmupOfStage, Definition, Windowed
  <2>5. a = IF n = p THEN Some(IF stage.kind = "median" THEN MedianOf(s) ELSE DeviationOf(s))
            ELSE None
    BY <1>d, <2>2 DEF ValueOf, IsReadyStage
  <2> HIDE DEF a, d, w, n, p
  <2>6. Tells
    BY <1>0, <2>1, <2>3, <2>4, <2>5 DEF Tells
  <2> QED BY <1>a, <2>6 DEF a, d, w, n
<1>e. CASE stage.kind = "stddev"
  <2>1. StdDevKeeps(s, p, xs) /\ n <= p
    BY <1>e DEF StageKeeps, Windowed
  <2>2. s.last = IF n < p THEN None ELSE Some(VarianceOf(xs))
    BY <2>1 DEF StdDevKeeps
  <2>3. VarianceOf(xs) \in Int
    BY <1>0, VarianceIs
  <2>4. w = p /\ d = VarianceOf(xs)
    BY <1>e DEF WarmupOfStage, Definition, Windowed
  <2>5. a = s.last
    BY <1>e DEF ValueOf, IsReadyStage
  <2> HIDE DEF a, d, w, n, p
  <2>6. Tells
    BY <1>0, <2>1, <2>2, <2>3, <2>4, <2>5 DEF Tells
  <2> QED BY <1>a, <2>6 DEF a, d, w, n
<1>f. CASE stage.kind = "max_drawdown"
  <2>1. MaxKeeps(s, p, xs)
    BY <1>f DEF StageKeeps
  <2>2. n < p => s.last = None
    BY <2>1 DEF MaxKeeps
  <2>3. ~(n < p) => s.last = Some(DeepestDecline(xs)) /\ DeepestDecline(xs) \in Int
    BY <1>0, <2>1, MaxGives
  <2>4. w = p /\ d = DeepestDecline(xs)
    BY <1>f DEF WarmupOfStage, Definition, Windowed
  <2>5. a = s.last
    BY <1>f DEF ValueOf, IsReadyStage
  <2> HIDE DEF a, d, w, n, p
  <2>6. Tells
    BY <1>0, <2>2, <2>3, <2>4, <2>5 DEF Tells
  <2> QED BY <1>a, <2>6 DEF a, d, w, n
<1>g. CASE stage.kind = "ulcer"
  <2>1. UlcerKeeps(s, p, xs)
    BY <1>g DEF StageKeeps
  <2>2. n < 2 * p - 1 => s.last = None
    BY <2>1 DEF UlcerKeeps
  <2>3. ~(n < 2 * p - 1) => s.last = Some(SumOfSquares(xs, p)) /\ SumOfSquares(xs, p) \in Int
    BY <1>0, <2>1, UlcerGives
  <2>4. w = 2 * p - 1 /\ d = SumOfSquares(xs, p)
    <3>1. w = 2 * p - 1
      BY <1>g DEF WarmupOfStage, Windowed
    <3>2. d = SumOfSquares(xs, p)
      BY <1>g DEF Definition
    <3> QED BY <3>1, <3>2
  <2>5. a = s.last
    BY <1>g DEF ValueOf, IsReadyStage
  <2> HIDE DEF a, d, w, n, p
  <2>6. Tells
    BY <2>2, <2>3, <2>4, <2>5 DEF Tells
  <2> QED BY <1>a, <2>6 DEF a, d, w, n
<1>h. CASE stage.kind = "running_drawdown"
  <2>1. RunningKeeps(s, xs)
    BY <1>h DEF StageKeeps
  <2>2. n = 0 => s.seen = FALSE
    BY <1>0, <2>1 DEF RunningKeeps, NewRunningDrawdown
  <2>3. n # 0 => s.seen = TRUE /\ s.max = DeepestDecline(xs) /\ DeepestDecline(xs) \in Int
    BY <1>0, <2>1, DeepestFacts DEF RunningKeeps
  <2>4. w = 1 /\ d = DeepestDecline(xs)
    BY <1>h DEF WarmupOfStage, Definition, Windowed
  <2>5. a = IF s.seen THEN Some(s.max) ELSE None
    BY <1>h DEF ValueOf, IsReadyStage
  <2> HIDE DEF a, d, w, n, p
  <2>6. Tells
    BY <1>0, <2>2, <2>3, <2>4, <2>5 DEF Tells
  <2> QED BY <1>a, <2>6 DEF a, d, w, n
<1>i. CASE stage.kind = "drawdown_duration"
  <2>1. DurationKeeps(s, xs)
    BY <1>i DEF StageKeeps
  <2>2. n = 0 => s.seen = FALSE
    BY <1>0, <2>1 DEF DurationKeeps, NewDrawdownDuration
  <2>3. n # 0 => s.seen = TRUE /\ s.underWater = BarsUnderWater(xs) /\ BarsUnderWater(xs) \in Int
    BY <1>0, <2>1, UnderWaterIsInt DEF DurationKeeps
  <2>4. w = 1 /\ d = BarsUnderWater(xs)
    BY <1>i DEF WarmupOfStage, Definition, Windowed
  <2>5. a = IF s.seen THEN Some(s.underWater) ELSE None
    BY <1>i DEF ValueOf, IsReadyStage
  <2> HIDE DEF a, d, w, n, p
  <2>6. Tells
    BY <1>0, <2>2, <2>3, <2>4, <2>5 DEF Tells
  <2> QED BY <1>a, <2>6 DEF a, d, w, n
<1> QED BY <1>b, <1>c, <1>d, <1>e, <1>f, <1>g, <1>h, <1>i, KindCases

-----------------------------------------------------------------------------
(* The chain: every stage has the inputs behind it that it is to remember. *)

Histories ==
    /\ lineup \in Lineups
    /\ \A n \in Stages : StageKeeps(lineup[n], stages[n], fed[n])

LEMMA HistoriesInit ==
    ASSUME Init
    PROVE  Histories
<1>1. /\ lineup \in Lineups
      /\ stages = [n \in Stages |-> New(lineup[n])]
      /\ fed = [n \in Stages |-> <<>>]
  BY DEF Init
<1>2. \A n \in Stages : lineup[n] \in Stage
  BY <1>1, LineupFacts
<1>3. ASSUME NEW n \in Stages PROVE StageKeeps(lineup[n], stages[n], fed[n])
  <2>1. stages[n] = New(lineup[n]) /\ fed[n] = <<>>
    BY <1>1
  <2> QED BY <1>2, <2>1, StageStarts
<1> QED BY <1>1, <1>3 DEF Histories

LEMMA HistoriesReset ==
    ASSUME Histories, Reset
    PROVE  Histories'
<1>1. /\ lineup' = lineup /\ Stages' = Stages
      /\ stages' = [n \in Stages |-> Cleared(lineup[n], stages[n])]
      /\ fed' = [n \in Stages |-> <<>>]
  BY DEF Reset, Stages
<1>2. lineup \in Lineups /\ \A n \in Stages : lineup[n] \in Stage
  BY LineupFacts DEF Histories
<1>3. ASSUME NEW n \in Stages PROVE StageKeeps(lineup[n], stages'[n], fed'[n])
  <2>1. stages'[n] = Cleared(lineup[n], stages[n]) /\ fed'[n] = <<>>
    BY <1>1
  <2>2. StageKeeps(lineup[n], stages[n], fed[n])
    BY DEF Histories
  <2> QED BY <1>2, <2>1, <2>2, StageRestarts
<1> QED BY <1>1, <1>2, <1>3 DEF Histories

\* A stage takes what it is handed, if that is an answer and finite.
LEMMA StageSteps ==
    ASSUME NEW stage \in Stage, NEW s, NEW xs, StageKeeps(stage, s, xs),
           NEW a, IsAnswer(a), NEW r, r = Step(stage, s, a)
    PROVE  /\ IsAnswer(r.answer)
           /\ StageKeeps(stage, r.s,
                         IF a # None /\ IsFinite(a[1])
                         THEN Remembered(stage, Append(xs, a[1])) ELSE xs)
<1>1. CASE a # None /\ IsFinite(a[1])
  <2>1. PICK v \in Int : a = Some(v)
    BY <1>1 DEF IsAnswer
  <2>2. a[1] = v
    BY <2>1 DEF Some
  <2>3. Bottom < v
    <3>1. IsFinite(v)
      BY <1>1, <2>2
    <3>2. -Largest <= v /\ Largest \in Int
      BY <3>1, FloatAssumption DEF IsFinite, Abs
    <3> QED BY <3>2, BottomIsBelow, BottomAssumption
  <2>4. StageKeeps(stage, Fed(stage, s, v), Remembered(stage, Append(xs, v)))
    BY <2>3, StageGoesOn
  <2>5. IsAnswer(ValueOf(stage, Fed(stage, s, v)))
    BY <2>4, StageGives
  <2>6. ~(a = None \/ ~IsFinite(a[1]))
    BY <1>1
  <2>7. r = [s |-> Fed(stage, s, a[1]), answer |-> ValueOf(stage, Fed(stage, s, a[1]))]
    BY <2>6 DEF Step
  <2> QED BY <1>1, <2>2, <2>4, <2>5, <2>7
<1>2. CASE ~(a # None /\ IsFinite(a[1]))
  <2>1. a = None \/ ~IsFinite(a[1])
    BY <1>2
  <2>2. r = [s |-> s, answer |-> None]
    BY <2>1 DEF Step
  <2> QED BY <1>2, <2>2 DEF IsAnswer
<1> QED BY <1>1, <1>2

LEMMA HistoriesUpdate ==
    ASSUME Histories, NEW x \in Int, Update(x)
    PROVE  Histories'
<1> DEFINE N == Len(lineup)
           step == Steps(x)
           takes(n) == step[n - 1].answer # None /\ IsFinite(step[n - 1].answer[1])
<1>1. /\ lineup \in Lineups /\ N \in Nat \ {0} /\ Stages = 1 .. N
      /\ \A n \in Stages : lineup[n] \in Stage /\ StageKeeps(lineup[n], stages[n], fed[n])
  BY LineupFacts DEF Histories
<1>2. /\ step[0].answer = Some(x)
      /\ \A n \in Stages : step[n] = Step(lineup[n], stages[n], step[n - 1].answer)
  BY <1>1, StepsFacts
<1>3. /\ stages' = [n \in Stages |-> step[n].s]
      /\ fed' = [n \in Stages |->
                    IF takes(n)
                    THEN Remembered(lineup[n], Append(fed[n], step[n - 1].answer[1]))
                    ELSE fed[n]]
      /\ lineup' = lineup /\ Stages' = Stages
  BY DEF Update, Stages
<1> HIDE DEF step
<1>4. ASSUME NEW n \in Stages, IsAnswer(step[n - 1].answer)
      PROVE  /\ IsAnswer(step[n].answer)
             /\ StageKeeps(lineup[n], step[n].s,
                           IF takes(n)
                           THEN Remembered(lineup[n], Append(fed[n], step[n - 1].answer[1]))
                           ELSE fed[n])
  <2>1. PICK a : a = step[n - 1].answer
    OBVIOUS
  <2>2. PICK r : r = step[n]
    OBVIOUS
  <2>3. r = Step(lineup[n], stages[n], a) /\ IsAnswer(a)
    BY <1>2, <1>4, <2>1, <2>2
  <2>4. /\ IsAnswer(r.answer)
        /\ StageKeeps(lineup[n], r.s,
                      IF a # None /\ IsFinite(a[1])
                      THEN Remembered(lineup[n], Append(fed[n], a[1])) ELSE fed[n])
    BY <1>1, <2>3, StageSteps
  <2> QED BY <2>1, <2>2, <2>4
<1> DEFINE S == {k \in Nat : k <= N => IsAnswer(step[k].answer)}
<1>5. 0 \in S
  <2>1. IsAnswer(step[0].answer)
    BY <1>2 DEF IsAnswer
  <2> QED BY <2>1
<1>6. \A k \in Nat : k \in S => k + 1 \in S
  <2> SUFFICES ASSUME NEW k \in Nat, k \in S, k + 1 <= N PROVE IsAnswer(step[k + 1].answer)
    OBVIOUS
  <2>1. k + 1 \in Stages /\ (k + 1) - 1 = k /\ k <= N
    BY <1>1
  <2>2. IsAnswer(step[(k + 1) - 1].answer)
    BY <2>1
  <2> HIDE DEF S, takes
  <2> QED BY <1>4, <2>1, <2>2
<1>7. \A k \in Nat : k \in S
  <2> HIDE DEF S
  <2> QED BY <1>5, <1>6, SetInduction
<1>8. ASSUME NEW n \in Stages PROVE StageKeeps(lineup[n], stages'[n], fed'[n])
  <2>1. n - 1 \in Nat /\ n - 1 <= N
    BY <1>1
  <2>2. IsAnswer(step[n - 1].answer)
    BY <1>7, <2>1
  <2>3. /\ stages'[n] = step[n].s
        /\ fed'[n] = IF takes(n)
                     THEN Remembered(lineup[n], Append(fed[n], step[n - 1].answer[1]))
                     ELSE fed[n]
    BY <1>3
  <2> QED BY <1>4, <2>2, <2>3
<1> QED BY <1>1, <1>3, <1>8 DEF Histories

\* However long the stream, whatever was evicted, reseeded, rejected or reset: each stage
\* of every chain answers the function of the inputs it remembers that defines its kind, and
\* nothing before there are enough of them.
THEOREM ChainValueIsDefinition == Spec => []ValueIsDefinition
<1>1. Histories /\ [Next]_chainVars => Histories'
  <2> SUFFICES ASSUME Histories, [Next]_chainVars PROVE Histories'
    OBVIOUS
  <2>1. CASE \E x \in Inputs(lineup) \cup {PosInf, NaN} : Update(x)
    <3>1. PICK x \in Inputs(lineup) \cup {PosInf, NaN} : Update(x)
      BY <2>1
    <3>2. lineup \in Lineups
      BY DEF Histories
    <3>3. Inputs(lineup) \subseteq Int /\ PosInf \in Int /\ NaN \in Int
      BY <3>2, ChainAssumption, FloatAssumption DEF PosInf, NaN
    <3> QED BY <3>1, <3>3, HistoriesUpdate
  <2>2. CASE Reset
    BY <2>2, HistoriesReset
  <2>3. CASE UNCHANGED chainVars
    BY <2>3 DEF chainVars, Histories, Stages
  <2> QED BY <2>1, <2>2, <2>3 DEF Next
<1>2. Histories => ValueIsDefinition
  <2> SUFFICES ASSUME Histories, NEW n \in Stages, lineup[n].kind # "sma"
               PROVE  ValueOf(lineup[n], stages[n]) =
                          IF Len(fed[n]) < WarmupOfStage(lineup[n]) THEN None
                          ELSE Some(Definition(lineup[n], fed[n]))
    BY DEF ValueIsDefinition
  <2>1. lineup[n] \in Stage /\ StageKeeps(lineup[n], stages[n], fed[n])
    BY LineupFacts DEF Histories
  <2> QED BY <2>1, StageGives
<1>3. Init => Histories
  BY HistoriesInit
<1> QED BY <1>1, <1>2, <1>3, PTL DEF Spec

=============================================================================
