------------------------------- MODULE Swings -------------------------------
(***************************************************************************)
(* Indicators of crates/wickra-core/src/indicators that find the turning   *)
(* points of a series of candles: ZigZag and SwingTracker by the size of   *)
(* the move back, WilliamsFractals, FractalChaosBands, PivotReversal and   *)
(* TdDWave by the candles on either side, and Ichimoku, whose lines are    *)
(* midpoints of windows shown later than they were computed.               *)
(*                                                                         *)
(* A threshold is counted in parts of one Scale-th; a midpoint is doubled. *)
(***************************************************************************)
EXTENDS Drawdowns

Appended(window, x, n) == Append(IF Len(window) = n THEN Tail(window) ELSE window, x)

-----------------------------------------------------------------------------
(* Swings by threshold.  direction and extreme are of the swing under way; *)
(* seeded is the Option around them.                                       *)

\* Has the candle gone back far enough from the extreme?
TurnsBack(threshold, up, extreme, c) ==
    IF up THEN c.low * Scale <= extreme * (Scale - threshold)
    ELSE c.high * Scale >= extreme * (Scale + threshold)

NewZigZag(threshold) ==
    [threshold |-> threshold, seeded |-> FALSE, up |-> TRUE, extreme |-> 0, hasEmitted |-> FALSE]

\* The record afterwards and the swing the candle confirmed, if any.
ZigZagUpdated(s, c) ==
    LET further == IF s.up THEN c.high > s.extreme ELSE c.low < s.extreme
        ahead == IF s.up THEN c.high ELSE c.low
        behind == IF s.up THEN c.low ELSE c.high
    IN  CASE ~s.seeded -> [s |-> [s EXCEPT !.seeded = TRUE, !.extreme = c.high], swing |-> <<>>]
          [] s.seeded /\ further -> [s |-> [s EXCEPT !.extreme = ahead], swing |-> <<>>]
          [] s.seeded /\ ~further /\ TurnsBack(s.threshold, s.up, s.extreme, c) ->
                [s |-> [s EXCEPT !.up = ~@, !.extreme = behind, !.hasEmitted = TRUE],
                 swing |-> <<[price |-> s.extreme, high |-> s.up]>>]
          [] OTHER -> [s |-> s, swing |-> <<>>]

\* SwingTracker also numbers the candles and keeps the last cap swings.
NewSwingTracker(threshold, cap) ==
    [threshold |-> threshold, cap |-> cap, barsSeen |-> 0, seeded |-> FALSE, up |-> TRUE,
     extreme |-> 0, extremeBar |-> 0, pivots |-> <<>>]

PushPivot(s) ==
    Appended(s.pivots, [price |-> s.extreme, high |-> s.up, bar |-> s.extremeBar], s.cap)

\* Mutant: the candle that turns the swing is not the first of the next.
TurnKeepsBar(s, c) ==
    LET n == [s EXCEPT !.barsSeen = @ + 1]
        further == IF s.up THEN c.high > s.extreme ELSE c.low < s.extreme
    IN  CASE ~s.seeded ->
                [n EXCEPT !.seeded = TRUE, !.extreme = c.high, !.extremeBar = s.barsSeen]
          [] s.seeded /\ further ->
                [n EXCEPT !.extreme = IF s.up THEN c.high ELSE c.low, !.extremeBar = s.barsSeen]
          [] s.seeded /\ ~further /\ TurnsBack(s.threshold, s.up, s.extreme, c) ->
                [n EXCEPT !.pivots = PushPivot(s), !.up = ~@,
                          !.extreme = IF s.up THEN c.low ELSE c.high]
          [] OTHER -> n

SwingTrackerUpdated(s, c) ==
    LET n == [s EXCEPT !.barsSeen = @ + 1]
        further == IF s.up THEN c.high > s.extreme ELSE c.low < s.extreme
    IN  CASE ~s.seeded ->
                [n EXCEPT !.seeded = TRUE, !.extreme = c.high, !.extremeBar = s.barsSeen]
          [] s.seeded /\ further ->
                [n EXCEPT !.extreme = IF s.up THEN c.high ELSE c.low, !.extremeBar = s.barsSeen]
          [] s.seeded /\ ~further /\ TurnsBack(s.threshold, s.up, s.extreme, c) ->
                [n EXCEPT !.pivots = PushPivot(s), !.up = ~@,
                          !.extreme = IF s.up THEN c.low ELSE c.high,
                          !.extremeBar = s.barsSeen]
          [] OTHER -> n

\* recent_legs of at least four pivots: the older and the newer high, the older
\* and the newer low.
RecentLegs(pivots) ==
    LET n == Len(pivots)
        back == IF pivots[n].high THEN <<2, 0, 3, 1>> ELSE <<3, 1, 2, 0>>
    IN  [leg \in 1 .. 4 |-> pivots[n - back[leg]].price]

-----------------------------------------------------------------------------
(* Turning points by their neighbours. *)

\* Is the candle at a position of a window strictly above (below) all the others?
IsTop(window, at) == \A i \in DOMAIN window \ {at} : window[i].high < window[at].high
IsDip(window, at) == \A i \in DOMAIN window \ {at} : window[i].low > window[at].low

NewWilliamsFractals == [window |-> <<>>]

WilliamsFractalsUpdated(s, c) == [window |-> Appended(s.window, c, 5)]

\* The answer of a full window.
FractalsOf(s) ==
    [up |-> IF IsTop(s.window, 3) THEN <<s.window[3].high>> ELSE <<>>,
     down |-> IF IsDip(s.window, 3) THEN <<s.window[3].low>> ELSE <<>>]

NewFractalChaosBands(k) == [k |-> k, window |-> <<>>, upper |-> <<>>, lower |-> <<>>]

FractalChaosBandsUpdated(s, c) ==
    LET window == Appended(s.window, c, 2 * s.k + 1)
        centre == s.k + 1
        full == Len(window) = 2 * s.k + 1
    IN  [s EXCEPT !.window = window,
                  !.upper = IF full /\ IsTop(window, centre) THEN <<window[centre].high>> ELSE @,
                  !.lower = IF full /\ IsDip(window, centre) THEN <<window[centre].low>> ELSE @]

NewPivotReversal(left, right) ==
    [left |-> left, right |-> right, window |-> <<>>, high |-> <<>>, low |-> <<>>,
     previous |-> <<>>, last |-> <<>>]

\* The crossing of the levels by a close; that of the low has the last word.
Crossing(high, low, previous, close) ==
    IF low # <<>> /\ close < low[1] /\ previous >= low[1] THEN -1
    ELSE IF high # <<>> /\ close > high[1] /\ previous <= high[1] THEN 1 ELSE 0

\* Mutant: the candle that confirms a pivot is compared with the one before it.
CrossesTheOldPivot(s, c) ==
    LET size == s.left + s.right + 1
        window == Appended(s.window, c, size)
        full == Len(window) = size
        at == s.left + 1
        high == IF full /\ IsTop(window, at) THEN <<window[at].high>> ELSE s.high
        low == IF full /\ IsDip(window, at) THEN <<window[at].low>> ELSE s.low
    IN  [s EXCEPT !.window = window, !.high = high, !.low = low, !.previous = <<c.close>>,
                  !.last = IF full THEN <<Crossing(s.high, s.low, s.previous[1], c.close)>>
                           ELSE @]

PivotReversalUpdated(s, c) ==
    LET size == s.left + s.right + 1
        window == Appended(s.window, c, size)
        full == Len(window) = size
        at == s.left + 1
        high == IF full /\ IsTop(window, at) THEN <<window[at].high>> ELSE s.high
        low == IF full /\ IsDip(window, at) THEN <<window[at].low>> ELSE s.low
    IN  [s EXCEPT !.window = window, !.high = high, !.low = low, !.previous = <<c.close>>,
                  !.last = IF full THEN <<Crossing(high, low, s.previous[1], c.close)>> ELSE @]

NewTdDWave(strength) ==
    [strength |-> strength, window |-> <<>>, side |-> "none", extreme |-> 0, wave |-> 0,
     last |-> <<>>]

\* advance: an extreme of the other side is the next of eight waves.
Advance(s, side, price) ==
    IF s.side = side
    THEN [s EXCEPT !.extreme = IF side = "high" THEN Larger(@, price) ELSE Smaller(@, price)]
    ELSE [s EXCEPT !.wave = (@ % 8) + 1, !.side = side, !.extreme = price,
                   !.last = <<(s.wave % 8) + 1>>]

TdDWaveUpdated(s, c) ==
    LET span == 2 * s.strength + 1
        window == Appended(s.window, c, span)
        slid == [s EXCEPT !.window = window]
        centre == s.strength + 1
        top == Len(window) = span /\ IsTop(window, centre)
        dip == Len(window) = span /\ IsDip(window, centre)
    IN  CASE top /\ ~dip -> Advance(slid, "high", window[centre].high)
          [] dip /\ ~top -> Advance(slid, "low", window[centre].low)
          [] OTHER -> slid

-----------------------------------------------------------------------------
(* Ichimoku.  The highs and lows are one sequence of candles.  A value     *)
(* enters its history before the front is read: what shows is one candle   *)
(* younger than the displacement.                                          *)

NewIchimoku(tenkan, kijun, senkouB, displacement) ==
    [tenkan |-> tenkan, kijun |-> kijun, senkouB |-> senkouB, displacement |-> displacement,
     window |-> <<>>, aHistory |-> <<>>, bHistory |-> <<>>, closes |-> <<>>, last |-> <<>>]

\* midpoint of the last n candles, doubled, once there are n.
Midpoint(window, n) ==
    IF Len(window) < n THEN <<>>
    ELSE LET recent == {window[i] : i \in Len(window) - n + 1 .. Len(window)}
         IN  <<Max({c.high : c \in recent}) + Min({c.low : c \in recent})>>

\* take_front: what a full history has at its front.
TakeFront(history, cap) == IF Len(history) = cap THEN history[1] ELSE <<>>

IchimokuUpdated(s, c) ==
    LET window == Appended(s.window, c, s.senkouB)
        tenkan == Midpoint(window, s.tenkan)
        kijun == Midpoint(window, s.kijun)
        aNow == IF tenkan # <<>> /\ kijun # <<>> THEN <<tenkan[1] + kijun[1]>> ELSE <<>>
        aHistory == Appended(s.aHistory, aNow, s.displacement)
        bHistory == Appended(s.bHistory, Midpoint(window, s.senkouB), s.displacement)
        closes == Appended(s.closes, <<c.close>>, s.displacement)
    IN  [s EXCEPT !.window = window, !.aHistory = aHistory, !.bHistory = bHistory,
                  !.closes = closes,
                  !.last = <<[tenkan |-> tenkan, kijun |-> kijun,
                              senkouA |-> TakeFront(aHistory, s.displacement),
                              senkouB |-> TakeFront(bHistory, s.displacement),
                              chikou |-> TakeFront(closes, s.displacement)]>>]

=============================================================================
