------------------------------- MODULE Demark -------------------------------
(***************************************************************************)
(* DeMark's indicators of crates/wickra-core/src/indicators that count     *)
(* candles: TdSetup, TdLines and TdRiskLevel count those that close beyond *)
(* the one some candles ago, TdSequential and TdCombo arm a second count   *)
(* with the first.                                                         *)
(*                                                                         *)
(* A pair of a buy and a sell count, of which one is zero at any time, is  *)
(* one number, positive for buys; what belongs to the side that counts is  *)
(* kept once.                                                              *)
(***************************************************************************)
EXTENDS Swings

\* The candle that many candles before the newest.
Ago(window, n) == window[Len(window) - n]

\* At or beyond: down for a buy, up for a sell; and the end of a candle on that side.
Beyond(side, a, b) == IF side > 0 THEN a <= b ELSE a >= b
End(side, c) == IF side > 0 THEN c.low ELSE c.high

-----------------------------------------------------------------------------
(* The setup count. *)

NewSetup(lookback, target) ==
    [lookback |-> lookback, target |-> target, need |-> lookback, window |-> <<>>, count |-> 0,
     last |-> <<>>]

\* Mutant: equality keeps the count.
EqualityKeepsCount(count, target, close, reference) ==
    CASE close < reference -> IF count > 0 THEN Smaller(count + 1, target) ELSE 1
      [] close > reference -> IF count < 0 THEN Larger(count - 1, -target) ELSE -1
      [] OTHER -> count

\* The count moves on up to its target, turns round, or is broken by equality.
Counted(count, target, close, reference) ==
    CASE close < reference -> IF count > 0 THEN Smaller(count + 1, target) ELSE 1
      [] close > reference -> IF count < 0 THEN Larger(count - 1, -target) ELSE -1
      [] OTHER -> 0

\* The candle enters the window, and is counted if enough are before it.
SetupCounted(s, c) ==
    LET t == [s EXCEPT !.window = Appended(@, c, s.need + 1)]
    IN  IF Len(t.window) <= s.need THEN t
        ELSE [t EXCEPT !.count = Counted(@, s.target, c.close, Ago(t.window, s.lookback).close)]

Warm(s) == Len(s.window) > s.need

TdSetupUpdated(s, c) ==
    LET t == SetupCounted(s, c)
    IN  IF Warm(t) THEN [t EXCEPT !.last = <<t.count>>] ELSE t

-----------------------------------------------------------------------------
(* Levels of a completed setup. *)

\* buy and sell: resistance and support of TdLines, the risks of TdRiskLevel.
NewLevels(lookback, target) == [extreme |-> 0, buy |-> <<>>, sell |-> <<>>] @@ NewSetup(lookback, target)

\* The level is that of the side whose setup is at its target.
LevelSet(t, extreme, level) ==
    [t EXCEPT !.extreme = extreme,
              !.buy = IF t.count = t.target THEN <<level>> ELSE @,
              !.sell = IF t.count = -t.target THEN <<level>> ELSE @]

\* Mutant: the extreme is not started afresh by the other side.
LinesKeepExtreme(s, c) ==
    LET t == SetupCounted(s, c)
        price == End(-t.count, c)
        extreme == IF s.count = 0 THEN price
                   ELSE IF t.count > 0 THEN Larger(s.extreme, price) ELSE Smaller(s.extreme, price)
    IN  IF t.count = 0 THEN t ELSE LevelSet(t, extreme, extreme)

\* The far end of the candles counted.
TdLinesUpdated(s, c) ==
    LET t == SetupCounted(s, c)
        price == End(-t.count, c)
        extreme == IF s.count * t.count <= 0 THEN price
                   ELSE IF t.count > 0 THEN Larger(s.extreme, price) ELSE Smaller(s.extreme, price)
    IN  IF t.count = 0 THEN t ELSE LevelSet(t, extreme, extreme)

\* true_range.
TrueRange(c, previous) == Larger(c.high, previous.close) - Smaller(c.low, previous.close)

\* The near end of the earliest candle that goes furthest, moved out by its range.
TdRiskLevelUpdated(s, c) ==
    LET t == SetupCounted(s, c)
        price == End(t.count, c)
        kept == s.count * t.count > 0 /\ Beyond(t.count, s.extreme.price, price)
        extreme == IF kept THEN s.extreme
                   ELSE [price |-> price, range |-> TrueRange(c, Ago(t.window, 1))]
        level == IF t.count > 0 THEN extreme.price - extreme.range ELSE extreme.price + extreme.range
    IN  IF t.count = 0 THEN t ELSE LevelSet(t, extreme, level)

-----------------------------------------------------------------------------
(* The countdown.  direction is the side that is armed. *)

NewCountdown(lookback, target, back, goal) ==
    [NewSetup(lookback, target) EXCEPT !.need = Larger(lookback, back)]
        @@ [back |-> back, goal |-> goal, direction |-> 0, countdown |-> 0, qualifier |-> <<>>]

\* Mutant: a countdown goes on when the other side is armed.
ArmedKeepsCount(t) ==
    LET side == IF t.count = t.target THEN 1 ELSE IF t.count = -t.target THEN -1 ELSE t.direction
    IN  [t EXCEPT !.direction = side]

\* A completed setup arms its side, from zero if it was not armed.
Armed(t) ==
    LET side == IF t.count = t.target THEN 1 ELSE IF t.count = -t.target THEN -1 ELSE t.direction
    IN  IF side = t.direction THEN t
        ELSE [t EXCEPT !.direction = side, !.countdown = 0, !.qualifier = <<>>]

\* Does the close reach the candle that the countdown looks back to?
Reaches(t, c) == t.direction # 0 /\ Beyond(t.direction, c.close, End(t.direction, Ago(t.window, t.back)))

\* Mutant: the last candle is never deferred.
NeverDeferred(t, c) == TRUE

\* The last candle of a countdown also has to reach the close of the fifth before it.
Qualifies(t, c) ==
    \/ t.countdown + 1 < t.goal
    \/ t.qualifier = <<>>
    \/ Beyond(t.direction, End(t.direction, c), t.qualifier[1])

TdSequentialUpdated(s, c) ==
    LET t == Armed(SetupCounted(s, c))
        next == t.countdown + 1
    IN  IF Warm(t) /\ Reaches(t, c) /\ next <= t.goal /\ Qualifies(t, c)
        THEN [t EXCEPT !.countdown = next,
                       !.qualifier = IF next + 5 = t.goal THEN <<c.close>> ELSE @]
        ELSE t

TdComboUpdated(s, c) ==
    LET t == Armed(SetupCounted(s, c))
        previous == Ago(t.window, 1)
    IN  IF /\ Warm(t) /\ Reaches(t, c) /\ t.countdown < t.goal
           /\ Beyond(t.direction, End(t.direction, c), End(t.direction, previous))
           /\ Beyond(t.direction, c.close, previous.close) /\ c.close # previous.close
        THEN [t EXCEPT !.countdown = @ + 1]
        ELSE t

=============================================================================
