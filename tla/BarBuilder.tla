----------------------------- MODULE BarBuilder -----------------------------
(***************************************************************************)
(* The trait BarBuilder of crates/wickra-core/src/traits.rs: update takes  *)
(* a candle and returns every bar it completed, in order; reset brings the *)
(* builder back to where it began.  The builder is one of the five of      *)
(* PriceBars or the five of ActivityBars.                                  *)
(***************************************************************************)
EXTENDS ActivityBars

CONSTANTS
    Builders,       \* what may be built: [kind, size, turn]
    Candles(_),     \* the candles a builder is fed
    MaxCandles      \* bound: candles between two resets

Activity == {"tick", "volume", "dollar", "imbalance", "run"}
PriceDriven == {"renko", "range", "kagi", "pnf", "line_break"}

ASSUME BarBuilderAssumption ==
    /\ MaxCandles \in Nat
    /\ \A b \in Builders :
          /\ b.kind \in Activity \cup PriceDriven
          /\ b.size \in Nat \ {0} /\ b.turn \in Nat \ {0}
          /\ \A c \in Candles(b) :
                /\ c.open \in Int /\ c.high \in Int /\ c.low \in Int /\ c.close \in Int
                /\ c.volume \in Int

VARIABLES
    builder,    \* the parameters
    state,      \* the builder's fields
    \* history since the last reset:
    seen,       \* the candles
    made        \* the bars, each with the number of the candle that completed it

barVars == <<builder, state, seen, made>>

NewBuilder(b) ==
    CASE b.kind = "renko" -> NewRenko(b.size)
      [] b.kind = "range" -> NewRange(b.size)
      [] b.kind = "kagi" -> NewKagi(b.size)
      [] b.kind = "pnf" -> NewPnf(b.size, b.turn)
      [] b.kind = "line_break" -> NewLineBreak(b.size)
      [] OTHER -> NewActivity(b.kind, b.size)

UpdatedBy(s, c) ==
    CASE builder.kind = "renko" -> RenkoUpdated(s, c.close)
      [] builder.kind = "range" -> RangeUpdated(s, c.close)
      [] builder.kind = "kagi" -> KagiUpdated(s, c.close)
      [] builder.kind = "pnf" -> PnfUpdated(s, c.close)
      [] builder.kind = "line_break" -> LineBreakUpdated(s, c.close)
      [] OTHER -> ActivityUpdated(s, c)

BarInit ==
    /\ builder \in Builders
    /\ state = NewBuilder(builder)
    /\ seen = <<>>
    /\ made = <<>>

BarUpdate(c) ==
    /\ Len(seen) < MaxCandles
    /\ LET built == UpdatedBy(state, c)
       IN  /\ state' = built.s
           /\ made' = made \o [i \in DOMAIN built.bars |->
                                  [bar |-> built.bars[i], at |-> Len(seen) + 1]]
    /\ seen' = Append(seen, c)
    /\ UNCHANGED builder

BarReset ==
    /\ state' = IF builder.kind \in Activity THEN ActivityCleared(state)
                ELSE NewBuilder(builder)
    /\ seen' = <<>>
    /\ made' = <<>>
    /\ UNCHANGED builder

BarNext == (\E c \in Candles(builder) : BarUpdate(c)) \/ BarReset

-----------------------------------------------------------------------------
(* What the bars of a kind are, read off the candles. *)

\* The side of candle n by the tick rule: that of the last change up to it.
Moves(n) == {i \in 2 .. n : seen[i].close # seen[i - 1].close}
Side(n) == IF Moves(n) = {} THEN 0
           ELSE Change(seen[Max(Moves(n)) - 1].close, seen[Max(Moves(n))].close)

\* The candles of a bar that began with candle m and that end with n are a run
\* from k on: one change of close, and then none to the other side.
IsRun(k, m, n) ==
    /\ k \in Moves(n) /\ k >= m
    /\ \A i \in k .. n : Change(seen[i - 1].close, seen[i].close) \in {0, Side(k)}

Sum(f(_), m, n) == FoldLeft(LAMBDA a, b : a + b, 0, [i \in 1 .. n - m + 1 |-> f(m + i - 1)])

\* How far candles m to n bring a bar that begins with m.
Measure(m, n) ==
    CASE builder.kind = "tick" -> n - m + 1
      [] builder.kind = "volume" -> Sum(LAMBDA i : seen[i].volume, m, n)
      [] builder.kind = "dollar" -> Sum(LAMBDA i : seen[i].close * seen[i].volume, m, n)
      [] builder.kind = "imbalance" -> Distance(Sum(Side, m, n), 0)
      [] builder.kind = "run" ->
            Max({0} \cup {n - k + 1 : k \in {k \in m .. n : IsRun(k, m, n)}})

\* The bar that collects candles m to n.
Covers(bar, m, n) ==
    /\ bar.open = seen[m].open /\ bar.close = seen[n].close
    /\ bar.high = Max({seen[i].high : i \in m .. n})
    /\ bar.low = Min({seen[i].low : i \in m .. n})
    /\ builder.kind \in {"tick", "volume", "dollar"} =>
          bar.volume = Sum(LAMBDA i : seen[i].volume, m, n)
    /\ builder.kind # "imbalance" => bar.measure = Measure(m, n)
    /\ builder.kind = "imbalance" => bar.measure = Sum(Side, m, n)
    /\ builder.kind \in {"imbalance", "run"} => bar.direction = Side(n)

\* Does a bar of a price-driven kind join on to the one before?
Joins(old, new) ==
    LET turns == new.direction # old.direction
    IN  CASE builder.kind = "renko" ->
                /\ Distance(new.from, new.to) = builder.size
                /\ new.from = IF turns THEN old.from ELSE old.to
          [] builder.kind = "range" ->
                Distance(new.from, new.to) = builder.size /\ new.from = old.to
          [] builder.kind = "kagi" ->
                turns /\ new.from = old.to /\ Distance(new.from, new.to) >= builder.size
          [] builder.kind = "pnf" ->
                LET down == new.direction < 0
                IN  /\ turns
                    /\ IF down THEN new.to = old.to - builder.size
                       ELSE new.from = old.from + builder.size
                    /\ new.to - new.from >= (builder.turn - 1) * builder.size
          [] builder.kind = "line_break" -> new.from = old.to

-----------------------------------------------------------------------------
(* Properties. *)

\* "update ingests one candle and returns every bar it completed on that candle,
\* in chronological order": the bars cover the stream without a gap or an
\* overlap.  A collected bar is exactly its candles, ends with the first of them
\* that reaches the threshold, and the candles of the open bar do not reach it.
BarsCoverTheStream ==
    /\ builder.kind \in PriceDriven =>
          \A i \in 2 .. Len(made) : Joins(made[i - 1].bar, made[i].bar)
    /\ builder.kind \in Activity =>
          LET begin(i) == IF i = 1 THEN 1 ELSE made[i - 1].at + 1
          IN  /\ \A i \in DOMAIN made :
                    /\ Covers(made[i].bar, begin(i), made[i].at)
                    /\ Measure(begin(i), made[i].at) >= builder.size
                    /\ \A n \in begin(i) .. made[i].at - 1 : Measure(begin(i), n) < builder.size
              /\ \A n \in begin(Len(made) + 1) .. Len(seen) :
                    Measure(begin(Len(made) + 1), n) < builder.size

\* "A single input candle may complete zero, one, or many bars": a move in one
\* candle leaves the bars and the state of the same move in two.  A line of a line
\* break is as long as the close makes it; there only the same close twice counts.
GapEqualsWalk ==
    builder.kind \in PriceDriven /\ seen # <<>> =>
        \A c \in Candles(builder), stop \in Candles(builder) :
            LET now == Last(seen).close
                onTheWay == (stop.close - now) * (stop.close - c.close) <= 0
                halfway == UpdatedBy(state, stop)
                rest == UpdatedBy(halfway.s, c)
            IN  IF builder.kind = "line_break"
                THEN stop = c => rest.bars = <<>>
                ELSE onTheWay =>
                        Built(rest.s, halfway.bars \o rest.bars) = UpdatedBy(state, c)

=============================================================================
