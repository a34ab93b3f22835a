-------------------------- MODULE MonotonicDeques ---------------------------
(***************************************************************************)
(* UlcerIndex and Stochastic of crates/wickra-core/src/indicators, which   *)
(* know the extreme of their window from a deque of the inputs that may    *)
(* still become it: none that a later one dominates, none that has left    *)
(* the window.                                                             *)
(*                                                                         *)
(* A percentage is counted in parts of one Scale-th, rounded down; the     *)
(* ulcer index stands without its root and its divisor, and the average of *)
(* Stochastic's signal line without its divisor.                           *)
(***************************************************************************)
EXTENDS Drawdowns

\* pop_back until the entry at one of these places is the last.
UpTo(deque, places) == SubSeq(deque, 1, Largest1(places, 0))

\* pop_front until the entry at one of these places is the first.
From(deque, places) == IF places = {} THEN <<>> ELSE SubSeq(deque, Min(places), Len(deque))

-----------------------------------------------------------------------------
(* UlcerIndex: the deque holds inputs with their numbers. *)

NewUlcer(period) ==
    [period |-> period, count |-> 0, deque |-> <<>>, squares |-> <<>>, sum |-> 0, last |-> <<>>]

\* The square of the drawdown below a peak; a peak of zero counts as none.
SquaredDrawdown(peak, x) ==
    LET fall == (x - peak) * Scale
        d == IF peak > 0 THEN fall \div peak ELSE (-fall) \div (-peak)
    IN  IF peak = 0 THEN 0 ELSE d * d

\* Mutant: the peak expires one input late.
PeakExpiresLate(s, x) ==
    LET n == s.count + 1
        pushed == Append(UpTo(s.deque, {i \in DOMAIN s.deque : s.deque[i].value > x}),
                         [at |-> n, value |-> x])
    IN  From(pushed, {i \in DOMAIN pushed : pushed[i].at + s.period >= n})

\* The deque once an input has entered it.
TrailingPeaks(s, x) ==
    LET n == s.count + 1
        pushed == Append(UpTo(s.deque, {i \in DOMAIN s.deque : s.deque[i].value > x}),
                         [at |-> n, value |-> x])
    IN  From(pushed, {i \in DOMAIN pushed : pushed[i].at + s.period > n})

UlcerUpdated(s, x) ==
    LET deque == TrailingPeaks(s, x)
        square == SquaredDrawdown(deque[1].value, x)
        full == Len(s.squares) = s.period
        moved == [s EXCEPT !.count = @ + 1, !.deque = deque]
        sum == s.sum - (IF full THEN Head(s.squares) ELSE 0) + square
        squares == Append(IF full THEN Tail(s.squares) ELSE s.squares, square)
    IN  IF moved.count < s.period THEN moved
        ELSE [moved EXCEPT !.squares = squares, !.sum = sum,
                           !.last = IF Len(squares) < s.period THEN @ ELSE <<sum>>]

-----------------------------------------------------------------------------
(* Stochastic: the deques hold the numbers of candles, which are looked up *)
(* in the window by how far they are from the number of its first candle.  *)

NewStochastic(k, d) ==
    [k |-> k, d |-> d, candles |-> <<>>, highest |-> <<>>, lowest |-> <<>>, count |-> 0, ks |-> <<>>]

\* push_window.
PushWindow(s, c) ==
    LET n == s.count
        base == n - Len(s.candles)
        candle(i) == s.candles[i - base + 1]
        inWindow(deque) == From(deque, {j \in DOMAIN deque : deque[j] + s.k > n})
        highest == inWindow(s.highest)
        lowest == inWindow(s.lowest)
    IN  [s EXCEPT
            !.count = @ + 1,
            !.candles = Append(IF Len(@) = s.k THEN Tail(@) ELSE @, c),
            !.highest = Append(UpTo(highest, {j \in DOMAIN highest :
                                                 candle(highest[j]).high > c.high}), n),
            !.lowest = Append(UpTo(lowest, {j \in DOMAIN lowest :
                                               candle(lowest[j]).low < c.low}), n)]

\* Where a price is in a range, in the middle of an empty one.
InRange(price, high, low) ==
    IF high = low THEN Scale \div 2 ELSE ((price - low) * Scale) \div (high - low)

StochasticUpdated(s, c) ==
    LET t == PushWindow(s, c)
        base == t.count - Len(t.candles)
        k == InRange(c.close, t.candles[t.highest[1] - base + 1].high,
                     t.candles[t.lowest[1] - base + 1].low)
    IN  IF Len(t.candles) < s.k THEN t
        ELSE [t EXCEPT !.ks = Append(IF Len(@) = s.d THEN Tail(@) ELSE @, k)]

-----------------------------------------------------------------------------
(* The definitions. *)

\* The squared drawdowns of the last n inputs, each below the peak of the n inputs up
\* to it.
SumOfSquares(xs, n) ==
    LET square(t) == SquaredDrawdown(Max({xs[i] : i \in t - n + 1 .. t}), xs[t])
    IN  FoldLeft(LAMBDA a, b : a + b, 0, [j \in 1 .. n |-> square(Len(xs) - n + j)])

=============================================================================
