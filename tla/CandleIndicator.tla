--------------------------- MODULE CandleIndicator --------------------------
(***************************************************************************)
(* An Indicator of crates/wickra-core/src/traits.rs whose input is a       *)
(* candle: update, which always takes its candle, and reset.  The          *)
(* indicator is one of those of Sessions, Swings, TrailingStops and        *)
(* Demark, or Stochastic.  Its answers are compared with what the candles  *)
(* since the last reset say, read without any state.                       *)
(***************************************************************************)
EXTENDS Sessions, Swings, TrailingStops, Demark, MonotonicDeques

CONSTANTS
    Watchers,   \* the indicators: [kind, size, span, offset], offset a clock's or a goal
    Shown(_),   \* the candles an indicator is shown, each stamped or not
    MostShown(_) \* bound: candles between two resets

Daily == {"session_high_low", "session_range", "overnight", "daily_range", "session_vwap",
          "turn_of_month"}
Opening == {"opening"}
Swinging == {"zig_zag", "fractals", "chaos_bands", "pivot_reversal", "d_wave", "ichimoku"}
Counting == {"td_setup", "td_lines", "td_risk_level", "td_sequential", "td_combo"}
Ranging == {"stochastic"}
Trailing == {"percentage", "step", "renko_stop", "nrtr", "psar"}

ASSUME CandleIndicatorAssumption ==
    \A w \in Watchers :
        /\ w.kind \in Daily \cup Opening \cup Swinging \cup Trailing \cup Counting \cup Ranging
        /\ w.size \in Nat \ {0} /\ w.span \in Nat \ {0} /\ w.offset \in Int
        /\ w.kind \in {"td_sequential", "td_combo"} => w.offset > 0
        /\ w.kind = "nrtr" => w.size < Scale
        /\ MostShown(w) \in Nat
        /\ \A c \in Shown(w) :
              /\ c.high \in Int /\ c.low \in Int /\ c.close \in Int
              /\ c.low <= c.close /\ c.close <= c.high

VARIABLES
    watcher,    \* the parameters
    memory,     \* the indicator's fields
    \* history since the last reset:
    shown,      \* the candles
    answers     \* the answer to each

watchVars == <<watcher, memory, shown, answers>>

\* How far back the countdown of a TdSequential or TdCombo looks.
Back(w) == IF w.kind = "td_combo" THEN w.size + 1 ELSE w.size

\* new.  A ZigZag is accompanied by a SwingTracker of the same threshold.
NewWatcher(w) ==
    CASE w.kind = "session_high_low" -> NewSessionHighLow(w.offset)
      [] w.kind = "session_range" -> NewSessionRange(w.offset)
      [] w.kind = "overnight" -> NewOvernight(w.offset)
      [] w.kind = "daily_range" -> NewAverageDailyRange(w.size, w.offset)
      [] w.kind = "session_vwap" -> NewSessionVwap(w.offset)
      [] w.kind = "turn_of_month" -> NewTurnOfMonth(w.size, w.span, w.offset)
      [] w.kind = "opening" -> NewOpening(w.size)
      [] w.kind = "zig_zag" ->
            [zigZag |-> NewZigZag(w.size), tracker |-> NewSwingTracker(w.size, w.span)]
      [] w.kind = "fractals" -> NewWilliamsFractals
      [] w.kind = "chaos_bands" -> NewFractalChaosBands(w.size)
      [] w.kind = "pivot_reversal" -> NewPivotReversal(w.size, w.span)
      [] w.kind = "d_wave" -> NewTdDWave(w.size)
      [] w.kind = "ichimoku" -> NewIchimoku(w.size, w.size + 1, w.size + 2, w.span)
      [] w.kind \in {"percentage", "step"} -> NewTrail(w.kind, w.size)
      [] w.kind = "renko_stop" -> NewRenkoStop(w.size)
      [] w.kind = "nrtr" -> NewNrtr(w.size)
      [] w.kind = "psar" -> NewPsar(w.size, w.span, 2 * w.size + w.span)
      [] w.kind = "td_setup" -> NewSetup(w.size, w.span)
      [] w.kind \in {"td_lines", "td_risk_level"} -> NewLevels(w.size, w.span)
      [] w.kind \in {"td_sequential", "td_combo"} ->
            NewCountdown(w.size, w.span, Back(w), w.offset)
      [] w.kind = "stochastic" -> NewStochastic(w.size, w.span)

\* The effect of update with a candle.
Watched(kind, s, c) ==
    CASE kind = "session_high_low" -> SessionHighLowUpdated(s, c)
      [] kind = "session_range" -> SessionRangeUpdated(s, c)
      [] kind = "overnight" -> OvernightUpdated(s, c)
      [] kind = "daily_range" -> AverageDailyRangeUpdated(s, c)
      [] kind = "session_vwap" -> SessionVwapUpdated(s, c)
      [] kind = "turn_of_month" -> TurnOfMonthUpdated(s, c)
      [] kind = "opening" -> OpeningUpdated(s, c)
      [] kind = "zig_zag" ->
            [zigZag |-> ZigZagUpdated(s.zigZag, c).s, tracker |-> SwingTrackerUpdated(s.tracker, c)]
      [] kind = "fractals" -> WilliamsFractalsUpdated(s, c)
      [] kind = "chaos_bands" -> FractalChaosBandsUpdated(s, c)
      [] kind = "pivot_reversal" -> PivotReversalUpdated(s, c)
      [] kind = "d_wave" -> TdDWaveUpdated(s, c)
      [] kind = "ichimoku" -> IchimokuUpdated(s, c)
      [] kind \in {"percentage", "step"} -> TrailUpdated(s, c.close)
      [] kind = "renko_stop" -> RenkoStopUpdated(s, c.close)
      [] kind = "nrtr" -> NrtrUpdated(s, c.close)
      [] kind = "psar" -> PsarUpdated(s, c)
      [] kind = "td_setup" -> TdSetupUpdated(s, c)
      [] kind = "td_lines" -> TdLinesUpdated(s, c)
      [] kind = "td_risk_level" -> TdRiskLevelUpdated(s, c)
      [] kind = "td_sequential" -> TdSequentialUpdated(s, c)
      [] kind = "td_combo" -> TdComboUpdated(s, c)
      [] kind = "stochastic" -> StochasticUpdated(s, c)

\* What update answers; s is the record before it and t the one after.
AnswerOf(kind, s, t, c) ==
    CASE kind = "session_high_low" -> t.extent
      [] kind = "session_range" -> [n \in 0 .. 2 |-> Spread(t.sessions[n])]
      [] kind = "overnight" ->
            IF t.overnight = <<>> THEN <<>>
            ELSE <<t.overnight[1], Return(t.todayOpen, c.close)>>
      [] kind = "daily_range" ->
            IF t.completed = <<>> THEN <<>> ELSE <<t.sum, Len(t.completed)>>
      [] kind = "session_vwap" -> VwapOf(t)
      [] kind = "turn_of_month" -> IF t.count = 0 THEN <<>> ELSE <<t.sum, t.count>>
      [] kind = "opening" ->
            <<t.extent[1].high, t.extent[1].low,
              2 * t.lastClose - t.extent[1].high - t.extent[1].low>>
      [] kind = "zig_zag" -> ZigZagUpdated(s.zigZag, c).swing
      [] kind = "fractals" -> IF Len(t.window) < 5 THEN <<>> ELSE FractalsOf(t)
      [] kind = "chaos_bands" ->
            IF t.upper = <<>> \/ t.lower = <<>> THEN <<>> ELSE <<t.upper[1], t.lower[1]>>
      [] kind \in {"pivot_reversal", "d_wave", "ichimoku", "td_setup"} -> t.last
      [] kind \in {"percentage", "step"} -> [stop |-> t.stop[1], long |-> t.long]
      [] kind = "renko_stop" -> [stop |-> RenkoStop(t), long |-> t.long]
      [] kind = "nrtr" -> [stop |-> Line(t), long |-> t.direction > 0]
      [] kind = "psar" -> IF ~t.hasEmitted THEN <<>> ELSE [stop |-> t.sar, long |-> t.long]
      [] kind \in {"td_lines", "td_risk_level"} -> [buy |-> t.buy, sell |-> t.sell]
      [] kind = "td_sequential" ->
            IF Warm(t) THEN [setup |-> t.count, countdown |-> t.direction * t.countdown,
                             direction |-> t.direction]
            ELSE <<>>
      [] kind = "td_combo" -> IF Warm(t) THEN <<t.direction * t.countdown>> ELSE <<>>
      [] kind = "stochastic" ->
            IF Len(t.ks) < t.d THEN <<>>
            ELSE <<Last(t.ks), FoldLeft(LAMBDA a, b : a + b, 0, t.ks)>>

WatchInit ==
    /\ watcher \in Watchers
    /\ memory = NewWatcher(watcher)
    /\ shown = <<>>
    /\ answers = <<>>

Show(c) ==
    /\ Len(shown) < MostShown(watcher)
    /\ memory' = Watched(watcher.kind, memory, c)
    /\ answers' = Append(answers, AnswerOf(watcher.kind, memory, memory', c))
    /\ shown' = Append(shown, c)
    /\ UNCHANGED watcher

\* reset: every field is as new.
Forget ==
    /\ memory' = NewWatcher(watcher)
    /\ shown' = <<>>
    /\ answers' = <<>>
    /\ UNCHANGED watcher

WatchNext == (\E c \in Shown(watcher) : Show(c)) \/ Forget

-----------------------------------------------------------------------------
(* What the candles say, after n of them. *)

High(S) == Max({shown[i].high : i \in S})
Low(S) == Min({shown[i].low : i \in S})

\* The day of a candle's clock; where it begins; the first candles of all days.
DayNumber(i) == (shown[i].ts + watcher.offset) \div 1440
Begins(n) == {i \in 1 .. n : i = 1 \/ DayNumber(i - 1) # DayNumber(i)}
Begin(n) == Max(Begins(n))

\* The days that ended, each by its last candle, and the candles of such a day.
Ends(n) == {i - 1 : i \in Begins(n) \ {1}}
DayOf(e) == Begin(e) .. e
DayBefore(e) == Max({d \in Ends(Len(shown)) : d < e})

\* Days from the epoch to the first of a month, for the months that are shown.
FirstDay(year, month) ==
    365 * (year - 1970) + Cardinality({y \in 1970 .. year - 1 : IsLeap(y)})
        + MapThenSumSet(LAMBDA m : DaysInMonth(year, m), 1 .. month - 1)
Firsts == {FirstDay(year, month) : year \in 1999 .. 2001, month \in 1 .. 12}

\* Is a day among the first or the last of a month?
AtTheTurn(day) ==
    \/ day - Max({f \in Firsts : f <= day}) < watcher.size
    \/ Min({f \in Firsts : f > day}) - day <= watcher.span

SessionReading(kind, n) ==
    LET b == Begin(n)
        lastDays == {e \in Ends(n) : Cardinality({d \in Ends(n) : d > e}) < watcher.size}
        turns == {e \in Ends(n) : e # Min(Ends(n)) /\ AtTheTurn(DayNumber(e))}
        volume(S) == MapThenSumSet(LAMBDA i : shown[i].volume, S)
    IN  CASE kind = "session_high_low" -> <<[high |-> High(b .. n), low |-> Low(b .. n)]>>
          [] kind = "session_range" ->
                LET session(k) == {i \in b .. n :
                                      ((shown[i].ts + watcher.offset) % 1440) \div 480 = k}
                IN  [k \in 0 .. 2 |-> IF session(k) = {} THEN 0
                                      ELSE High(session(k)) - Low(session(k))]
          [] kind = "overnight" ->
                IF b = 1 THEN <<>>
                ELSE <<Return(shown[b - 1].close, shown[b].open),
                       Return(shown[b].open, shown[n].close)>>
          [] kind = "daily_range" ->
                IF lastDays = {} THEN <<>>
                ELSE <<MapThenSumSet(LAMBDA e : High(DayOf(e)) - Low(DayOf(e)), lastDays),
                       Cardinality(lastDays)>>
          [] kind = "session_vwap" ->
                IF volume(b .. n) = 0 THEN <<Typical(shown[n]), 1>>
                ELSE <<MapThenSumSet(LAMBDA i : Typical(shown[i]) * shown[i].volume, b .. n),
                       volume(b .. n)>>
          [] kind = "turn_of_month" ->
                IF turns = {} THEN <<>>
                ELSE <<MapThenSumSet(LAMBDA e : Return(shown[DayBefore(e)].close, shown[e].close),
                                     turns),
                       Cardinality(turns)>>
          [] kind = "opening" ->
                LET first == 1 .. Smaller(n, watcher.size)
                IN  <<High(first), Low(first), 2 * shown[n].close - High(first) - Low(first)>>

\* The candles strictly above (below) their neighbours, once these are there.
Tops(left, right, n) ==
    {p \in left + 1 .. n - right :
        \A q \in (p - left .. p + right) \ {p} : shown[q].high < shown[p].high}
Dips(left, right, n) ==
    {p \in left + 1 .. n - right :
        \A q \in (p - left .. p + right) \ {p} : shown[q].low > shown[p].low}

\* The midpoint of the m candles up to i, doubled.
Mid(i, m) == IF i < m THEN <<>> ELSE <<High(i - m + 1 .. i) + Low(i - m + 1 .. i)>>

SwingReading(kind, n) ==
    LET left == IF kind = "fractals" THEN 2 ELSE watcher.size
        right == IF kind = "fractals" THEN 2
                 ELSE IF kind = "pivot_reversal" THEN watcher.span ELSE watcher.size
        tops == Tops(left, right, n)
        dips == Dips(left, right, n)
    IN  CASE kind = "fractals" ->
                IF n < 5 THEN <<>>
                ELSE [up |-> IF n - 2 \in tops THEN <<shown[n - 2].high>> ELSE <<>>,
                      down |-> IF n - 2 \in dips THEN <<shown[n - 2].low>> ELSE <<>>]
          [] kind = "chaos_bands" ->
                IF tops = {} \/ dips = {} THEN <<>>
                ELSE <<shown[Max(tops)].high, shown[Max(dips)].low>>
          [] kind = "pivot_reversal" ->
                LET now == shown[n].close
                    before == shown[n - 1].close
                    over == tops # {} /\ before <= shown[Max(tops)].high
                                /\ shown[Max(tops)].high < now
                    under == dips # {} /\ before >= shown[Max(dips)].low
                                /\ shown[Max(dips)].low > now
                IN  IF n <= left + right THEN <<>>
                    ELSE <<IF under THEN -1 ELSE IF over THEN 1 ELSE 0>>
          [] kind = "d_wave" ->
                LET turns == (tops \ dips) \cup (dips \ tops)
                    legs == {p \in turns : \A q \in turns :
                                q < p /\ (q \in tops) = (p \in tops)
                                    => \E r \in turns : q < r /\ r < p
                                                        /\ (r \in tops) # (p \in tops)}
                IN  IF turns = {} THEN <<>> ELSE <<((Cardinality(legs) - 1) % 8) + 1>>
          [] kind = "ichimoku" ->
                LET tenkan == watcher.size
                    kijun == watcher.size + 1
                    then == n - watcher.span + 1
                IN  <<[tenkan |-> Mid(n, tenkan), kijun |-> Mid(n, kijun),
                       senkouA |-> IF then < kijun THEN <<>>
                                   ELSE <<Mid(then, tenkan)[1] + Mid(then, kijun)[1]>>,
                       senkouB |-> Mid(then, watcher.size + 2),
                       chikou |-> IF then < 1 THEN <<>> ELSE <<shown[then].close>>]>>

\* To which side a candle closes off the one it is compared with, and for how long.
Leaning(i) ==
    LET was == shown[i - watcher.size].close
    IN  IF shown[i].close < was THEN 1 ELSE IF shown[i].close > was THEN -1 ELSE 0
Run(first, n) == {i \in first .. n : \A j \in i .. n : Leaning(j) # 0 /\ Leaning(j) = Leaning(n)}
SetupAt(first, n) == Leaning(n) * Smaller(Cardinality(Run(first, n)), watcher.span)

\* The level of the last candle at which the setup of a side was at its target.
LevelReading(kind, first, side, n) ==
    LET at == {i \in first .. n : SetupAt(first, i) = side * watcher.span}
        run == Run(first, Max(at))
        near == IF side > 0 THEN Low(run) ELSE High(run)
        furthest == Min({i \in run : End(side, shown[i]) = near})
        prices == {shown[furthest].high, shown[furthest].low, shown[furthest - 1].close}
    IN  IF at = {} THEN <<>>
        ELSE IF kind = "td_lines" THEN <<IF side > 0 THEN High(run) ELSE Low(run)>>
        ELSE <<near - side * (Max(prices) - Min(prices))>>

\* The candles that may be counted down: of the side whose setup was completed
\* last, from the one that completed it first since the other side's.
CountdownReading(kind, first, n) ==
    LET complete(side) == {i \in first .. n : SetupAt(first, i) = side * watcher.span}
        latest(side) == Max({0} \cup complete(side))
        side == IF latest(1) > latest(-1) THEN 1 ELSE -1
        since == Min({i \in complete(side) : i > latest(-side)})
        reaches(i) == Beyond(side, shown[i].close, End(side, shown[i - Back(watcher)]))
        goesOn(i) == /\ Beyond(side, End(side, shown[i]), End(side, shown[i - 1]))
                     /\ Beyond(side, shown[i].close, shown[i - 1].close)
                     /\ shown[i].close # shown[i - 1].close
        eligible == {i \in since .. n : reaches(i) /\ (kind = "td_combo" => goesOn(i))}
        rank(i) == Cardinality({j \in eligible : j <= i})
        \* that may be the last: it also reaches the close of the fifth before it
        final == {i \in eligible : rank(i) >= watcher.offset /\
                    (kind = "td_sequential" => \A q \in eligible :
                        rank(q) = watcher.offset - 5 =>
                            Beyond(side, End(side, shown[i]), shown[q].close))}
    IN  IF complete(1) \cup complete(-1) = {} THEN [countdown |-> 0, direction |-> 0]
        ELSE [countdown |-> side * (IF final # {} THEN watcher.offset
                                    ELSE Smaller(Cardinality(eligible), watcher.offset - 1)),
              direction |-> side]

CountReading(kind, n) ==
    LET need == IF kind \in {"td_sequential", "td_combo"} THEN Larger(watcher.size, Back(watcher))
                ELSE watcher.size
        countdown == CountdownReading(kind, need + 1, n)
    IN  CASE kind = "td_setup" -> IF n <= need THEN <<>> ELSE <<SetupAt(need + 1, n)>>
          [] kind \in {"td_lines", "td_risk_level"} ->
                [buy |-> LevelReading(kind, need + 1, 1, n),
                 sell |-> LevelReading(kind, need + 1, -1, n)]
          [] kind = "td_sequential" ->
                IF n <= need THEN <<>> ELSE [setup |-> SetupAt(need + 1, n)] @@ countdown
          [] kind = "td_combo" -> IF n <= need THEN <<>> ELSE <<countdown.countdown>>

\* Where the last closes are in the ranges of their windows, and their sum.
RangeReading(n) ==
    LET k(i) == LET window == i - watcher.size + 1 .. i
                IN  InRange(shown[i].close, High(window), Low(window))
        last == n - watcher.span + 1 .. n
    IN  IF n < watcher.size + watcher.span - 1 THEN <<>>
        ELSE <<k(n), SumFunction([i \in last |-> k(i)])>>

\* The swing a candle confirms: the extreme since the last one confirmed, unless
\* the candle goes further itself.
ZigZagReading(n) ==
    LET confirmed == {i \in 2 .. n - 1 : answers[i] # <<>>}
        from == Max({1} \cup confirmed)
        up == Cardinality(confirmed) % 2 = 0
        extreme == IF up THEN High(from .. n - 1) ELSE Low(from .. n - 1)
        further == IF up THEN shown[n].high > extreme ELSE shown[n].low < extreme
    IN  IF n > 1 /\ ~further /\ TurnsBack(watcher.size, up, extreme, shown[n])
        THEN <<[price |-> extreme, high |-> up]>> ELSE <<>>

\* What the tracker keeps: the last swings, where they were, and their legs.
TracksSwings(pivots) ==
    LET swings == SelectSeq(answers, LAMBDA answer : answer # <<>>)
        at(high) == SelectSeq(pivots, LAMBDA p : p.high = high)
        older(high) == at(high)[Len(at(high)) - 1].price
    IN  /\ Len(pivots) = Smaller(Len(swings), watcher.span)
        /\ \A i \in DOMAIN pivots :
              LET swing == swings[Len(swings) - Len(pivots) + i][1]
                  p == pivots[i]
                  candle == shown[p.bar + 1]
              IN  /\ p.price = swing.price /\ p.high = swing.high
                  /\ p.price = IF p.high THEN candle.high ELSE candle.low
                  /\ i > 1 => pivots[i - 1].bar < p.bar /\ pivots[i - 1].high # p.high
        /\ Len(pivots) >= 4 =>
              RecentLegs(pivots) = <<older(TRUE), Last(at(TRUE)).price,
                                     older(FALSE), Last(at(FALSE)).price>>

-----------------------------------------------------------------------------
(* Properties. *)

\* Whatever rolled, was confirmed, was displaced or was reset on the way: the
\* answer is what the candles since the reset say.  A day is that of the clock, to
\* either side of the epoch and over the turn of a month; a turning point is the
\* latest one confirmed; an Ichimoku line is one candle younger than its
\* displacement; a count is of the unbroken run, a countdown of the side armed last.
ReadingIsDefinition ==
    LET n == Len(shown)
        kind == watcher.kind
    IN  /\ n > 0 /\ kind \in Daily \cup Opening => answers[n] = SessionReading(kind, n)
        /\ n > 0 /\ kind \in Swinging \ {"zig_zag"} => answers[n] = SwingReading(kind, n)
        /\ n > 0 /\ kind = "zig_zag" =>
              answers[n] = ZigZagReading(n) /\ TracksSwings(memory.tracker.pivots)
        /\ n > 0 /\ kind \in Counting => answers[n] = CountReading(kind, n)
        /\ n > 0 /\ kind \in Ranging => answers[n] = RangeReading(n)

\* Was the stop of the answer before hit by a candle?
Hit(answer, c) ==
    IF watcher.kind = "psar"
    THEN IF answer.long THEN c.low <= answer.stop ELSE c.high >= answer.stop
    ELSE Through(answer.long, Price(watcher.kind, c.close), answer.stop)

\* A stop that is hit never survives, one that is not only tightens, and no stop
\* is on the wrong side of the price.  A Psar may also turn before its last stop is
\* hit, and it is "clamped so it never sits inside the ranges of the two bars before
\* it": one that does not turn, after the second candle.
StopHolds ==
    LET n == Len(shown)
        before == answers[n - 1]
        now == answers[n]
        turned == before.long # now.long
        outside(i) == IF now.long THEN now.stop <= shown[i].low ELSE now.stop >= shown[i].high
    IN  watcher.kind \in Trailing /\ n > 1 /\ (watcher.kind = "psar" => n > 2) =>
            /\ Hit(before, shown[n]) => turned
            /\ watcher.kind # "psar" /\ turned => Hit(before, shown[n])
            /\ ~turned => now.stop = Tighter(now.long, now.stop, before.stop)
            /\ ~Through(now.long, Price(watcher.kind, shown[n].close), now.stop)
            /\ watcher.kind = "psar" /\ ~turned =>
                  outside(n - 1) /\ (n > 3 => outside(n - 2))

=============================================================================
