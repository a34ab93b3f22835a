----------------------------- MODULE PriceBars ------------------------------
(***************************************************************************)
(* The bar builders that look at closes only: RenkoBars, RangeBars,        *)
(* KagiBars, PointAndFigureBars and ThreeLineBreakBars of crates/          *)
(* wickra-core/src/indicators.  A builder is a record, its update an       *)
(* operator from the record and a close to the record afterwards and the   *)
(* bars that the close completed.  Prices are integers; in f64 a box too   *)
(* small to move a price would never be left behind.                       *)
(***************************************************************************)
EXTENDS Integers, SequencesExt

Built(s, bars) == [s |-> s, bars |-> bars]

Bar(from, to) == [from |-> from, to |-> to, direction |-> IF to > from THEN 1 ELSE -1]

Distance(a, b) == IF a < b THEN b - a ELSE a - b

-----------------------------------------------------------------------------
(* RenkoBars: bricks of one box; a reversal takes two boxes. *)

NewRenko(box) == [box |-> box, level |-> <<>>, dir |-> 0]

\* One pass of update's loop: the next brick, if there is one.
Brick(s, close) ==
    LET level == s.level[1]
        lay(from, to) == Built([s EXCEPT !.level = <<to>>, !.dir = IF to > from THEN 1 ELSE -1],
                               <<Bar(from, to)>>)
    IN  CASE s.dir >= 0 /\ close >= level + s.box -> lay(level, level + s.box)
          [] s.dir <= 0 /\ close <= level - s.box -> lay(level, level - s.box)
          [] s.dir > 0 /\ close <= level - 2 * s.box -> lay(level - s.box, level - 2 * s.box)
          [] s.dir < 0 /\ close >= level + 2 * s.box -> lay(level + s.box, level + 2 * s.box)
          [] OTHER -> Built(s, <<>>)

RenkoUpdated(s, close) ==
    IF s.level = <<>> THEN Built([s EXCEPT !.level = <<close>>], <<>>)
    ELSE LET passes == Distance(s.level[1], close) \div s.box
             loop[n \in 0 .. passes] ==
                 IF n = 0 THEN Built(s, <<>>)
                 ELSE LET brick == Brick(loop[n - 1].s, close)
                      IN  Built(brick.s, loop[n - 1].bars \o brick.bars)
         IN  loop[passes]

-----------------------------------------------------------------------------
(* RangeBars: every range the close is away from the anchor is a bar. *)

NewRange(range) == [range |-> range, anchor |-> <<>>]

\* Mutant: the anchor follows the close.
RangeAnchorsAtClose(s, close) ==
    IF s.anchor = <<>> \/ Distance(s.anchor[1], close) < s.range
    THEN Built([s EXCEPT !.anchor = <<close>>], <<>>)
    ELSE Built([s EXCEPT !.anchor = <<close>>], <<Bar(s.anchor[1], close)>>)

RangeUpdated(s, close) ==
    IF s.anchor = <<>> THEN Built([s EXCEPT !.anchor = <<close>>], <<>>)
    ELSE LET anchor == s.anchor[1]
             n == Distance(anchor, close) \div s.range
             step == IF close > anchor THEN s.range ELSE -s.range
         IN  Built([s EXCEPT !.anchor = <<anchor + n * step>>],
                   [i \in 1 .. n |-> Bar(anchor + (i - 1) * step, anchor + i * step)])

-----------------------------------------------------------------------------
(* KagiBars: a line that turns when the close is a reversal off its extreme. *)

NewKagi(reversal) == [reversal |-> reversal, dir |-> 0, extreme |-> <<>>, start |-> 0]

\* Is a further ahead than b in the direction?
Ahead(dir, a, b) == (a - b) * dir > 0

KagiUpdated(s, close) ==
    LET extreme == s.extreme[1]
        extended == [s EXCEPT !.extreme = <<close>>]
    IN  CASE s.extreme = <<>> -> Built([extended EXCEPT !.start = close], <<>>)
          [] s.extreme # <<>> /\ s.dir = 0 /\ close # extreme ->
                Built([extended EXCEPT !.dir = IF close > extreme THEN 1 ELSE -1], <<>>)
          [] s.extreme # <<>> /\ Ahead(s.dir, close, extreme) -> Built(extended, <<>>)
          [] s.extreme # <<>> /\ (extreme - close) * s.dir >= s.reversal ->
                Built([extended EXCEPT !.dir = -@, !.start = extreme],
                      <<[from |-> s.start, to |-> extreme, direction |-> s.dir]>>)
          [] OTHER -> Built(s, <<>>)

-----------------------------------------------------------------------------
(* PointAndFigureBars: columns of whole boxes; a reversal takes several, and *)
(* the new column starts one box off the old one's end.                      *)

NewPnf(box, reversal) ==
    [box |-> box, reversal |-> reversal, dir |-> 0, top |-> 0, bottom |-> 0, seeded |-> FALSE]

Column(s) == [from |-> s.bottom, to |-> s.top, direction |-> s.dir]

PnfUpdated(s, close) ==
    LET price == (close \div s.box) * s.box
        back == s.reversal * s.box
    IN  CASE ~s.seeded ->
                Built([s EXCEPT !.seeded = TRUE, !.top = price, !.bottom = price], <<>>)
          [] s.seeded /\ s.dir >= 0 /\ price > s.top ->
                Built([s EXCEPT !.dir = 1, !.top = price], <<>>)
          [] s.seeded /\ s.dir <= 0 /\ price < s.bottom ->
                Built([s EXCEPT !.dir = -1, !.bottom = price], <<>>)
          [] s.seeded /\ s.dir = 1 /\ price <= s.top - back ->
                Built([s EXCEPT !.dir = -1, !.top = @ - s.box, !.bottom = price],
                      <<Column(s)>>)
          [] s.seeded /\ s.dir = -1 /\ price >= s.bottom + back ->
                Built([s EXCEPT !.dir = 1, !.bottom = @ + s.box, !.top = price],
                      <<Column(s)>>)
          [] OTHER -> Built(s, <<>>)

-----------------------------------------------------------------------------
(* ThreeLineBreakBars: a line on with every new extreme; back only past the  *)
(* end of the last few lines.                                                *)

NewLineBreak(lines) == [lines |-> lines, seed |-> <<>>, recent |-> <<>>]

LowestLow(recent) == Min({recent[i].from : i \in DOMAIN recent} \cup {recent[i].to : i \in DOMAIN recent})
HighestHigh(recent) == Max({recent[i].from : i \in DOMAIN recent} \cup {recent[i].to : i \in DOMAIN recent})

\* push_line.
Draw(s, from, close) ==
    LET bar == Bar(from, close)
        kept == IF Len(s.recent) = s.lines THEN Tail(s.recent) ELSE s.recent
    IN  Built([s EXCEPT !.recent = Append(kept, bar)], <<bar>>)

LineBreakUpdated(s, close) ==
    IF s.recent = <<>>
    THEN CASE s.seed = <<>> -> Built([s EXCEPT !.seed = <<close>>], <<>>)
           [] s.seed # <<>> /\ close # s.seed[1] -> Draw(s, s.seed[1], close)
           [] OTHER -> Built(s, <<>>)
    ELSE LET last == Last(s.recent)
             breaks == IF last.direction > 0
                       THEN close > last.to \/ close < LowestLow(s.recent)
                       ELSE close < last.to \/ close > HighestHigh(s.recent)
         IN  IF breaks THEN Draw(s, last.to, close) ELSE Built(s, <<>>)

=============================================================================
