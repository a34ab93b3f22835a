---------------------------- MODULE ActivityBars ----------------------------
(***************************************************************************)
(* The bar builders that collect candles until enough has happened:        *)
(* TickBars, VolumeBars, DollarBars, ImbalanceBars and RunBars of crates/  *)
(* wickra-core/src/indicators.  They share one shape: the candle enters    *)
(* the open bar, the measure moves on, and a bar whose measure reached the *)
(* threshold is completed.                                                 *)
(***************************************************************************)
EXTENDS PriceBars

\* prev is the close before, measure what the kind counts, sign the direction of
\* the last change or of the run under way.
NewActivity(kind, threshold) ==
    [kind |-> kind, threshold |-> threshold, count |-> 0, open |-> 0, high |-> 0, low |-> 0,
     close |-> 0, volume |-> 0, measure |-> 0, prev |-> <<>>, sign |-> 0]

\* The candle enters the bar; a count of zero makes it the first one.
Gather(s, c) ==
    LET first == s.count = 0
    IN  [s EXCEPT !.open = IF first THEN c.open ELSE @,
                  !.high = IF first \/ c.high > @ THEN c.high ELSE @,
                  !.low = IF first \/ c.low < @ THEN c.low ELSE @,
                  !.close = c.close,
                  !.volume = IF first THEN c.volume ELSE @ + c.volume,
                  !.count = @ + 1,
                  !.prev = <<c.close>>]

Change(from, to) == IF to > from THEN 1 ELSE IF to < from THEN -1 ELSE 0

\* Mutant: a flat close counts for no side.
FlatCountsForNobody(s, c) ==
    [sign |-> Change(s.prev[1], c.close), theta |-> s.measure + Change(s.prev[1], c.close)]

\* The tick rule: a flat close counts for the side of the last change.
TickRule(s, c) ==
    LET change == Change(s.prev[1], c.close)
        sign == IF change = 0 THEN s.sign ELSE change
    IN  [sign |-> sign, theta |-> s.measure + sign]

\* A run goes on through flat closes, and starts again with a change of side.
RunRule(s, c) ==
    LET change == Change(s.prev[1], c.close)
    IN  CASE change = 0 \/ change = s.sign ->
                [sign |-> s.sign, len |-> IF s.sign = 0 THEN 0 ELSE s.measure + 1]
          [] OTHER -> [sign |-> change, len |-> 1]

\* The state with the measure of the kind moved on by the candle.
Measured(s, c) ==
    CASE s.kind = "tick" -> [s EXCEPT !.measure = s.count + 1]
      [] s.kind = "volume" -> [s EXCEPT !.measure = @ + c.volume]
      [] s.kind = "dollar" -> [s EXCEPT !.measure = @ + c.close * c.volume]
      [] s.kind = "imbalance" /\ s.prev # <<>> ->
            [s EXCEPT !.sign = TickRule(s, c).sign, !.measure = TickRule(s, c).theta]
      [] s.kind = "run" /\ s.prev # <<>> ->
            [s EXCEPT !.sign = RunRule(s, c).sign, !.measure = RunRule(s, c).len]
      [] OTHER -> s

Reached(s) ==
    s.measure >= s.threshold \/ (s.kind = "imbalance" /\ -s.measure >= s.threshold)

\* Mutant: the sum of the completed bar is carried on.
CompletedCarries(s) == [s EXCEPT !.count = 0]

\* A completed bar leaves an empty one; imbalance bars keep the side of the last
\* change, run bars do not.
Completed(s) ==
    [s EXCEPT !.count = 0, !.measure = 0, !.sign = IF s.kind = "run" THEN 0 ELSE @]

\* The bar as it is handed out.  imbalance and run bars have no volume.
Collected(s) ==
    [open |-> s.open, high |-> s.high, low |-> s.low, close |-> s.close,
     volume |-> IF s.kind \in {"imbalance", "run"} THEN 0 ELSE s.volume,
     measure |-> s.measure,
     direction |-> CASE s.kind = "imbalance" -> IF s.measure > 0 THEN 1 ELSE -1
                     [] s.kind = "run" -> s.sign
                     [] OTHER -> 0]

ActivityUpdated(s, c) ==
    LET gathered == Gather(Measured(s, c), c)
    IN  IF Reached(gathered) THEN Built(Completed(gathered), <<Collected(gathered)>>)
        ELSE Built(gathered, <<>>)

\* reset: prices of the bar that was open stay behind, behind a count of zero.
ActivityCleared(s) ==
    [s EXCEPT !.count = 0, !.measure = 0, !.sign = 0, !.prev = <<>>, !.volume = 0]

=============================================================================
