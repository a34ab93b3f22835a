---------------------------- MODULE MCCatalogue -----------------------------
(***************************************************************************)
(* What a program takes from the catalogue: a chain of indicators, or a    *)
(* bar builder.  The two share nothing and are checked one at a time.      *)
(*                                                                         *)
(* The lineups are moving averages, whose large inputs make sums that      *)
(* overflow, every other indicator on its own, and chains of two, none of  *)
(* whose undivided answers reaches Largest; there is one builder of each   *)
(* kind, fed closes if it looks at nothing else and whole candles if not.  *)
(***************************************************************************)
EXTENDS Chain, BarBuilder, CandleIndicator

Stage(kind, period) == [kind |-> kind, period |-> period]

MCLineups ==
    {<<Stage("sma", 2), Stage("sma", 1), Stage("sma", 3)>>,
     <<Stage("wma", 3)>>, <<Stage("median", 2)>>, <<Stage("median", 3)>>,
     <<Stage("mad", 4)>>, <<Stage("stddev", 3)>>,
     <<Stage("max_drawdown", 1)>>, <<Stage("max_drawdown", 4)>>,
     <<Stage("ulcer", 1)>>, <<Stage("ulcer", 3)>>,
     <<Stage("running_drawdown", 1)>>, <<Stage("drawdown_duration", 1)>>,
     <<Stage("median", 2), Stage("max_drawdown", 3)>>,
     <<Stage("wma", 2), Stage("drawdown_duration", 1)>>,
     <<Stage("ulcer", 2), Stage("median", 2)>>}

MCBottom == -1000

MCInputs(chain) ==
    CASE chain[1].kind = "sma" -> {32, 192, 256}
      [] chain[1].kind = "max_drawdown" -> {-1, 0, 1, 2, 3, 4}
      [] chain[1].kind = "mad" -> {0, 1, 3, 7}
      [] OTHER -> {0, 1, 3}

Builder(kind, size, turn) == [kind |-> kind, size |-> size, turn |-> turn]
Candle(open, high, low, close, volume) ==
    [open |-> open, high |-> high, low |-> low, close |-> close, volume |-> volume]

MCBuilders ==
    {Builder("renko", 2, 1), Builder("range", 2, 1), Builder("kagi", 2, 1),
     Builder("pnf", 1, 2), Builder("pnf", 2, 1), Builder("line_break", 2, 1),
     Builder("tick", 2, 1), Builder("volume", 3, 1), Builder("dollar", 6, 1),
     Builder("imbalance", 2, 1), Builder("run", 2, 1)}

MCCandles(b) ==
    IF b.kind \in PriceDriven THEN {Candle(p, p, p, p, 1) : p \in 0 .. 5}
    ELSE {Candle(1, 3, 1, 1, 1), Candle(2, 2, 2, 2, 2), Candle(3, 4, 2, 2, 0),
          Candle(2, 3, 0, 3, 1), Candle(-1, 0, -1, -1, 2)}

Watcher(kind, size, span, offset) ==
    [kind |-> kind, size |-> size, span |-> span, offset |-> offset]

MCWatchers ==
    {Watcher("session_high_low", 1, 1, 0), Watcher("session_range", 1, 1, -300),
     Watcher("overnight", 1, 1, 330), Watcher("daily_range", 2, 1, 0),
     Watcher("session_vwap", 1, 1, 0), Watcher("turn_of_month", 1, 1, 0),
     Watcher("opening", 3, 1, 0), Watcher("zig_zag", 3, 4, 0), Watcher("fractals", 1, 1, 0),
     Watcher("chaos_bands", 1, 1, 0), Watcher("pivot_reversal", 1, 2, 0),
     Watcher("d_wave", 1, 1, 0), Watcher("ichimoku", 1, 3, 0),
     Watcher("percentage", 2, 1, 0), Watcher("step", 2, 1, 0), Watcher("renko_stop", 2, 1, 0),
     Watcher("nrtr", 3, 1, 0), Watcher("psar", 3, 3, 0),
     Watcher("td_setup", 2, 3, 0), Watcher("td_lines", 1, 2, 0),
     Watcher("td_risk_level", 1, 2, 0), Watcher("td_sequential", 1, 2, 6),
     Watcher("td_combo", 1, 2, 2), Watcher("stochastic", 3, 2, 0)}

Stamped(minute, c) == [ts |-> minute] @@ c
Tick(price) == Candle(price, price, price, price, 1)

\* 28 and 29 February 2000 and the two days after.
Days == 11015 .. 11018

MCShown(w) ==
    CASE w.kind = "session_high_low" ->     \* around the epoch, and around a leap day
            {Stamped(-30, Candle(1, 3, 1, 2, 1)), Stamped(30, Candle(2, 2, 0, 1, 1)),
             Stamped(900, Tick(1))}
            \cup {Stamped(1440 * day + 700, Tick(day - 11014)) : day \in 11015 .. 11017}
      [] w.kind = "session_range" ->
            {Stamped(1440 * 11016 + minute, c) :
                minute \in {120, 400, 900, 1500}, c \in {Candle(1, 3, 1, 2, 1), Tick(0)}}
      [] w.kind \in {"overnight", "daily_range"} ->
            {Stamped(1440 * day + 1200, c) :
                day \in 11015 .. 11017, c \in {Candle(1, 3, 1, 2, 1), Candle(2, 4, 0, 0, 1)}}
      [] w.kind = "session_vwap" ->
            {Stamped(1440 * day, c) : day \in {11016, 11017},
                c \in {Candle(1, 3, 1, 2, 1), Candle(2, 4, 0, 0, 2), Candle(2, 2, 1, 1, 0)}}
      [] w.kind = "turn_of_month" -> {Stamped(1440 * day, Tick(p)) : day \in Days, p \in {1, 2}}
      [] w.kind \in {"fractals", "d_wave"} -> {Candle(2, 3, 2, 2, 1), Candle(1, 2, 1, 1, 1)}
                                              \cup {Candle(2, 4, 0, 3, 1)}
      [] w.kind = "pivot_reversal" ->
            {Tick(0), Candle(0, 1, 0, 1, 1), Tick(2), Candle(2, 3, 1, 2, 1)}
      [] w.kind = "zig_zag" -> {Tick(8), Tick(11), Tick(16), Candle(8, 16, 8, 8, 1)}
      [] w.kind = "nrtr" -> {Tick(p) : p \in {0, 3, 4, 5, 8}}
      [] w.kind \in {"percentage", "step", "renko_stop"} -> {Tick(p) : p \in {-3, 0, 2, 3, 6}}
      [] w.kind = "psar" ->
            {Candle(4, 5, 3, 4, 1), Candle(6, 7, 5, 6, 1), Candle(8, 9, 7, 8, 1),
             Candle(5, 9, 4, 6, 1), Candle(2, 3, 1, 2, 1)}
      [] w.kind = "td_sequential" -> {Tick(1), Candle(2, 3, 2, 2, 1), Tick(3)}
      [] OTHER -> {Candle(1, 3, 1, 2, 1), Candle(2, 2, 0, 1, 1), Candle(3, 4, 3, 3, 1), Tick(2)}

MCMostShown(w) == IF w.kind \in Daily THEN 5
                  ELSE IF w.kind \in {"fractals", "pivot_reversal"} \cup Trailing THEN 7
                  ELSE IF w.kind = "d_wave" THEN 11
                  ELSE IF w.kind = "td_sequential" THEN 9 ELSE 6

VARIABLE subject    \* what is checked

CatalogueInit ==
    /\ subject \in {"chain", "bars", "candles"}
    /\ Init
    /\ BarInit
    /\ WatchInit
    /\ subject # "chain" => lineup = CHOOSE chain \in Lineups : TRUE
    /\ subject # "bars" => builder = CHOOSE b \in Builders : TRUE
    /\ subject # "candles" => watcher = CHOOSE w \in Watchers : TRUE

CatalogueNext ==
    /\ \/ subject = "chain" /\ Next /\ UNCHANGED <<barVars, watchVars>>
       \/ subject = "bars" /\ BarNext /\ UNCHANGED <<chainVars, watchVars>>
       \/ subject = "candles" /\ WatchNext /\ UNCHANGED <<chainVars, barVars>>
    /\ UNCHANGED subject

CatalogueSpec == CatalogueInit /\ [][CatalogueNext]_<<chainVars, barVars, watchVars, subject>>

=============================================================================
