--------------------------- MODULE TrailingStops ----------------------------
(***************************************************************************)
(* The trailing stops of crates/wickra-core/src/indicators that depend on  *)
(* prices only: PercentageTrailingStop, StepTrailingStop,                  *)
(* RenkoTrailingStop, Nrtr and Psar.  Each holds a side and a stop, trails *)
(* the price with it and changes sides when the price goes through.        *)
(*                                                                         *)
(* A percentage is counted in parts of one Scale-th, and so is a stop that *)
(* is one off the close; a Psar is rounded down to a whole price.          *)
(***************************************************************************)
EXTENDS Drawdowns

Tighter(long, a, b) == IF long THEN Larger(a, b) ELSE Smaller(a, b)

\* Has the price gone through a stop?
Through(long, price, stop) == IF long THEN price < stop ELSE price > stop

-----------------------------------------------------------------------------
(* Percentage and step: where a stop may be, seen from a close, decides.   *)

NewTrail(kind, size) == [kind |-> kind, size |-> size, stop |-> <<>>, long |-> TRUE]

\* The close minus or plus a percentage of it.
PercentOff(s, long, close) ==
    LET step == (IF close < 0 THEN -close ELSE close) * s.size
    IN  IF long THEN close * Scale - step ELSE close * Scale + step

\* snap_long and snap_short: the close minus or plus a step, on the grid of steps.
Snap(s, long, close) ==
    IF long THEN ((close - s.size) \div s.size) * s.size
    ELSE -((-close - s.size) \div s.size) * s.size

Off(s, long, close) ==
    IF s.kind = "percentage" THEN PercentOff(s, long, close) ELSE Snap(s, long, close)

\* The close in the unit of the stop.
Price(kind, close) == IF kind \in {"percentage", "nrtr"} THEN close * Scale ELSE close

\* Mutant: the stop follows the close back.
TrailLoosened(s, close) ==
    LET flips == s.stop # <<>> /\ Through(s.long, Price(s.kind, close), s.stop[1])
        long == IF flips THEN ~s.long ELSE s.long
    IN  [s EXCEPT !.long = long, !.stop = <<Off(s, long, close)>>]

TrailUpdated(s, close) ==
    LET flips == s.stop # <<>> /\ Through(s.long, Price(s.kind, close), s.stop[1])
        long == IF flips THEN ~s.long ELSE s.long
        off == Off(s, long, close)
    IN  [s EXCEPT !.long = long,
                  !.stop = <<IF flips \/ @ = <<>> THEN off ELSE Tighter(long, @[1], off)>>]

-----------------------------------------------------------------------------
(* RenkoTrailingStop: a block behind an anchor that moves by whole blocks. *)

NewRenkoStop(block) == [block |-> block, anchor |-> <<>>, long |-> TRUE]

RenkoStop(s) == IF s.long THEN s.anchor[1] - s.block ELSE s.anchor[1] + s.block

RenkoStopUpdated(s, close) ==
    LET anchor == s.anchor[1]
        ahead == IF s.long THEN close - anchor ELSE anchor - close
        blocks == Larger(ahead \div s.block, 0) * s.block
    IN  CASE s.anchor = <<>> -> [s EXCEPT !.anchor = <<close>>]
          [] s.anchor # <<>> /\ Through(s.long, close, RenkoStop(s)) ->
                [s EXCEPT !.anchor = <<close>>, !.long = ~@]
          [] OTHER -> [s EXCEPT !.anchor = <<IF s.long THEN anchor + blocks ELSE anchor - blocks>>]

-----------------------------------------------------------------------------
(* Nrtr: a percentage off the best close since the side was taken. *)

NewNrtr(percent) == [percent |-> percent, direction |-> 0, water |-> 0]

Line(s) == s.water * (IF s.direction > 0 THEN Scale - s.percent ELSE Scale + s.percent)

NrtrUpdated(s, close) ==
    LET best == [s EXCEPT !.water = Tighter(s.direction > 0, @, close)]
    IN  CASE s.direction = 0 -> [s EXCEPT !.direction = 1, !.water = close]
          [] s.direction # 0 /\ Through(s.direction > 0, close * Scale, Line(best)) ->
                [s EXCEPT !.direction = -@, !.water = close]
          [] OTHER -> best

-----------------------------------------------------------------------------
(* Psar: the stop accelerates towards the extreme point ep, in parts af of *)
(* the way, and is kept out of the two candles before.                     *)

NewPsar(start, step, max) ==
    [start |-> start, step |-> step, max |-> max, af |-> start, initialised |-> FALSE,
     hasEmitted |-> FALSE, long |-> TRUE, sar |-> 0, ep |-> 0,
     prev |-> [high |-> 0, low |-> 0], prev2 |-> [high |-> 0, low |-> 0]]

Bounds(c) == [high |-> c.high, low |-> c.low]

\* The second candle: the directional movement of the first two picks the side.
SeedPsar(s, c) ==
    LET down == s.prev.low - c.low > Larger(c.high - s.prev.high, 0)
    IN  [s EXCEPT !.long = ~down,
                  !.sar = IF down THEN s.prev.high ELSE s.prev.low,
                  !.ep = IF down THEN c.low ELSE c.high,
                  !.prev = Bounds(c)]

\* Mutant: only yesterday's range is kept out of.
ClampOnce(s) ==
    LET next == s.sar + (s.af * (s.ep - s.sar)) \div Scale
    IN  IF s.long THEN Smaller(next, s.prev.low) ELSE Larger(next, s.prev.high)

Predicted(s) ==
    LET next == s.sar + (s.af * (s.ep - s.sar)) \div Scale
    IN  IF s.long THEN Smaller(Smaller(next, s.prev.low), s.prev2.low)
        ELSE Larger(Larger(next, s.prev.high), s.prev2.high)

\* The other side: the stop goes to the old extreme point, or past it to where
\* this candle and the one before reached.
Reversed(s, c) ==
    [s EXCEPT !.sar = IF s.long THEN Larger(Larger(s.ep, s.prev.high), c.high)
                      ELSE Smaller(Smaller(s.ep, s.prev.low), c.low),
              !.long = ~@,
              !.ep = IF s.long THEN c.low ELSE c.high,
              !.af = s.start]

\* A new extreme point accelerates the stop.
Extended(s, c) ==
    IF (s.long /\ c.high > s.ep) \/ (~s.long /\ c.low < s.ep)
    THEN [s EXCEPT !.ep = IF s.long THEN c.high ELSE c.low, !.af = Smaller(@ + s.step, s.max)]
    ELSE s

PsarUpdated(s, c) ==
    LET moved == IF s.hasEmitted THEN [s EXCEPT !.sar = Predicted(s)] ELSE SeedPsar(s, c)
        reverses == IF moved.long THEN c.low <= moved.sar ELSE c.high >= moved.sar
        settled == IF reverses THEN Reversed(moved, c) ELSE Extended(moved, c)
    IN  IF ~s.initialised THEN [s EXCEPT !.initialised = TRUE, !.prev = Bounds(c)]
        ELSE [settled EXCEPT !.prev2 = moved.prev, !.prev = Bounds(c), !.hasEmitted = TRUE]

=============================================================================
