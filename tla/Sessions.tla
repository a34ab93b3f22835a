------------------------------ MODULE Sessions ------------------------------
(***************************************************************************)
(* Indicators of crates/wickra-core/src/indicators that start afresh with  *)
(* the day of the candle's clock, the calendar they read that day from,    *)
(* and the two that look at the first candles only.  An indicator is a     *)
(* record, its update an operator from the record and a candle to the      *)
(* record afterwards.                                                      *)
(*                                                                         *)
(* A timestamp counts minutes: offsets are whole minutes and no field      *)
(* below the hour is read.  A return is counted in parts of one Scale-th,  *)
(* rounded down; a typical price in thirds.                                *)
(***************************************************************************)
EXTENDS Drawdowns

-----------------------------------------------------------------------------
(* calendar.rs. *)

\* Mutant: the last day of an era is left to the year after it.
DaysWithoutEraEnd(z) ==
    LET era == (z + 719468) \div 146097
        doe == (z + 719468) % 146097
        yoe == (doe - doe \div 1460 + doe \div 36524) \div 365
        doy == doe - (365 * yoe + yoe \div 4 - yoe \div 100)
        mp == (5 * doy + 2) \div 153
        month == IF mp < 10 THEN mp + 3 ELSE mp - 9
    IN  <<yoe + era * 400 + (IF month <= 2 THEN 1 ELSE 0), month,
          doy - (153 * mp + 2) \div 5 + 1>>

\* civil_from_days: years begin in March and come in eras of four hundred.
CivilFromDays(z) ==
    LET era == (z + 719468) \div 146097
        doe == (z + 719468) % 146097
        yoe == (doe - doe \div 1460 + doe \div 36524 - doe \div 146096) \div 365
        doy == doe - (365 * yoe + yoe \div 4 - yoe \div 100)
        mp == (5 * doy + 2) \div 153
        month == IF mp < 10 THEN mp + 3 ELSE mp - 9
    IN  <<yoe + era * 400 + (IF month <= 2 THEN 1 ELSE 0), month,
          doy - (153 * mp + 2) \div 5 + 1>>

\* civil_from_timestamp.
Civil(ts, offset) ==
    [date |-> CivilFromDays((ts + offset) \div 1440),
     hour |-> ((ts + offset) % 1440) \div 60]

IsLeap(year) == (year % 4 = 0 /\ year % 100 # 0) \/ year % 400 = 0

DaysInMonth(year, month) ==
    IF month \in {4, 6, 9, 11} THEN 30
    ELSE IF month # 2 THEN 31 ELSE IF IsLeap(year) THEN 29 ELSE 28

\* The day_key, and whether a candle is of another day than the one before.
Day(s, c) == <<Civil(c.ts, s.offset).date>>
Rolls(s, c) == s.day # Day(s, c)

-----------------------------------------------------------------------------
(* High and low of some candles; Empty stands for the two infinities. *)

Empty == <<>>

Include(extent, c) ==
    IF extent = Empty THEN <<[high |-> c.high, low |-> c.low]>>
    ELSE <<[high |-> Larger(extent[1].high, c.high), low |-> Smaller(extent[1].low, c.low)]>>

Spread(extent) == IF extent = Empty THEN 0 ELSE extent[1].high - extent[1].low

NewSessionHighLow(offset) == [offset |-> offset, day |-> <<>>, extent |-> Empty]

SessionHighLowUpdated(s, c) ==
    [s EXCEPT !.day = Day(s, c), !.extent = Include(IF Rolls(s, c) THEN Empty ELSE @, c)]

\* SessionRange: the third of the day picks the session.
NewSessionRange(offset) ==
    [offset |-> offset, day |-> <<>>, sessions |-> [n \in 0 .. 2 |-> Empty]]

SessionRangeUpdated(s, c) ==
    LET today == IF Rolls(s, c) THEN NewSessionRange(s.offset).sessions ELSE s.sessions
    IN  [s EXCEPT !.day = Day(s, c),
                  !.sessions = [today EXCEPT ![Civil(c.ts, s.offset).hour \div 8] = Include(@, c)]]

\* OpeningRange: the first candles, whatever their day.
NewOpening(period) == [period |-> period, seen |-> 0, extent |-> Empty, locked |-> FALSE,
                       lastClose |-> 0]

OpeningUpdated(s, c) ==
    IF s.locked THEN [s EXCEPT !.lastClose = c.close]
    ELSE [s EXCEPT !.extent = Include(@, c), !.seen = @ + 1,
                   !.locked = s.seen + 1 >= s.period, !.lastClose = c.close]

-----------------------------------------------------------------------------
(* From one day to the next. *)

Return(from, to) == IF from = 0 THEN 0 ELSE ((to - from) * Scale) \div from

\* OvernightIntradayReturn.
NewOvernight(offset) ==
    [offset |-> offset, day |-> <<>>, lastClose |-> <<>>, overnight |-> <<>>, todayOpen |-> 0]

\* Mutant: the first candle of a day leaves the close of the day before standing.
GapFromTheDayBefore(s, c) ==
    [s EXCEPT !.day = Day(s, c),
              !.overnight = IF Rolls(s, c) /\ s.lastClose # <<>>
                            THEN <<Return(s.lastClose[1], c.open)>> ELSE @,
              !.todayOpen = IF Rolls(s, c) THEN c.open ELSE @,
              !.lastClose = IF Rolls(s, c) /\ @ # <<>> THEN @ ELSE <<c.close>>]

OvernightUpdated(s, c) ==
    [s EXCEPT !.day = Day(s, c),
              !.overnight = IF Rolls(s, c) /\ s.lastClose # <<>>
                            THEN <<Return(s.lastClose[1], c.open)>> ELSE @,
              !.todayOpen = IF Rolls(s, c) THEN c.open ELSE @,
              !.lastClose = <<c.close>>]

\* AverageDailyRange: the ranges of the last completed days and their sum.
NewAverageDailyRange(period, offset) ==
    [period |-> period, offset |-> offset, day |-> <<>>, extent |-> Empty,
     completed |-> <<>>, sum |-> 0]

AverageDailyRangeUpdated(s, c) ==
    LET completed == Append(s.completed, Spread(s.extent))
        over == Len(completed) > s.period
        rolled == [s EXCEPT
                      !.completed = IF over THEN Tail(completed) ELSE completed,
                      !.sum = @ + Spread(s.extent) - (IF over THEN completed[1] ELSE 0),
                      !.extent = Empty]
        today == IF s.day # <<>> /\ Rolls(s, c) THEN rolled ELSE s
    IN  [today EXCEPT !.day = Day(s, c), !.extent = Include(@, c)]

\* SessionVwap.
NewSessionVwap(offset) == [offset |-> offset, day |-> <<>>, pv |-> 0, volume |-> 0, typical |-> 0]

Typical(c) == c.high + c.low + c.close

SessionVwapUpdated(s, c) ==
    LET today == IF Rolls(s, c) THEN NewSessionVwap(s.offset) ELSE s
    IN  [today EXCEPT !.day = Day(s, c), !.pv = @ + Typical(c) * c.volume,
                      !.volume = @ + c.volume, !.typical = Typical(c)]

VwapOf(s) == IF s.volume > 0 THEN <<s.pv, s.volume>> ELSE <<s.typical, 1>>

\* TurnOfMonth: the mean return of the days around the turn of a month; first and
\* last say how many.
NewTurnOfMonth(first, last, offset) ==
    [first |-> first, last |-> last, offset |-> offset, day |-> <<>>, close |-> 0,
     previous |-> <<>>, sum |-> 0, count |-> 0]

InTurnWindow(s, date) ==
    date[3] <= s.first \/ date[3] > Larger(DaysInMonth(date[1], date[2]) - s.last, 0)

\* roll_into: the day that ended is counted by its own date.
RollInto(s, c) ==
    LET counts == s.previous # <<>> /\ InTurnWindow(s, s.day[1])
    IN  [s EXCEPT !.sum = IF counts THEN @ + Return(s.previous[1], s.close) ELSE @,
                  !.count = IF counts THEN @ + 1 ELSE @,
                  !.previous = <<s.close>>]

TurnOfMonthUpdated(s, c) ==
    LET today == IF s.day # <<>> /\ Rolls(s, c) THEN RollInto(s, c) ELSE s
    IN  [today EXCEPT !.day = Day(s, c), !.close = c.close]

=============================================================================
