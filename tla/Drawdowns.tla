----------------------------- MODULE Drawdowns ------------------------------
(***************************************************************************)
(* Three indicators of how far a series is below its peak, as records and  *)
(* operators on them: MaxDrawdown, over a window kept as two halves that   *)
(* are never rescanned, RunningDrawdown and DrawdownDuration, over the     *)
(* whole stream.                                                           *)
(***************************************************************************)
EXTENDS Integers, SequencesExt

CONSTANTS
    Scale,      \* a fraction is counted in parts of one Scale-th, rounded down
    Bottom      \* the NEG_INFINITY that is below every input

ASSUME ScaleAssumption == Scale \in Nat \ {0}
ASSUME BottomAssumption == Bottom \in Int

Larger(a, b) == IF a < b THEN b ELSE a
Smaller(a, b) == IF a < b THEN a ELSE b
Largest1(S, least) == Max(S \cup {least})

\* drawdown: a peak that is not positive counts as none.
Drawdown(peak, low) == IF peak > 0 THEN ((peak - low) * Scale) \div peak ELSE 0

-----------------------------------------------------------------------------
(* MaxDrawdown.  Sequences hold the vectors, first element first; cursor   *)
(* counts the records before it.                                           *)

NewMaxDrawdown(period) ==
    [period |-> period, front |-> <<>>, back |-> <<>>, records |-> <<>>,
     cursor |-> 0, closedWorst |-> 0, last |-> <<>>]

\* push_back: the value falls into the segment of the newest running peak, or
\* closes that segment and is a running peak itself.
PushBack(s, x) ==
    LET n == Len(s.records)
        open == s.records[n]
    IN  IF n > 0 /\ x <= open.peak
        THEN [s EXCEPT
                 !.back = Append(@, x),
                 !.records[n].low = Smaller(@, x),
                 !.records[n].lowSoFar = Smaller(@, x)]
        ELSE [s EXCEPT
                 !.back = Append(@, x),
                 !.closedWorst = IF s.cursor < n THEN Larger(@, Drawdown(open.peak, open.low))
                                 ELSE @,
                 !.records = Append(@, [peak |-> x, low |-> x,
                                 lowSoFar |-> IF n > 0 THEN Smaller(x, open.lowSoFar) ELSE x])]

\* One value of refill_front's walk: the segments it covers leave the stack.
Walk(x, walk) ==
    LET n == Len(walk.scratch)
        kept == Largest1({i \in 1 .. n : walk.scratch[i].peak > x}, 0)
        above == SubSeq(walk.scratch, 1, kept)
        low == Min({x} \cup {walk.scratch[i].low : i \in kept + 1 .. n})
        worst == Larger(IF above = <<>> THEN 0 ELSE Last(above).worst, Drawdown(x, low))
        peak == Larger(walk.peak, x)
    IN  [scratch |-> Append(above, [peak |-> x, low |-> low, worst |-> worst]),
         peak |-> peak,
         front |-> Append(walk.front, [peak |-> peak, worst |-> worst])]

\* Mutant: the records of the emptied half stay.
RefillKeepsRecords(s) ==
    [s EXCEPT !.front = FoldRight(Walk, s.back,
                            [scratch |-> <<>>, peak |-> Bottom, front |-> <<>>]).front,
              !.back = <<>>]

\* refill_front: the newer half becomes the older one, walked newest first.
RefillFront(s) ==
    [s EXCEPT !.front = FoldRight(Walk, s.back,
                            [scratch |-> <<>>, peak |-> Bottom, front |-> <<>>]).front,
              !.back = <<>>, !.records = <<>>, !.cursor = 0, !.closedWorst = 0]

\* Mutant: the cursor never moves back to the left.
CursorStays(s, peak) ==
    [s EXCEPT !.cursor = Min({c \in @ .. Len(s.records) :
                                 c = Len(s.records) \/ s.records[c + 1].peak > peak})]

\* worst's two loops: past the records the front's peak covers, then back over
\* those above it, each of which counts on its own from now on.
MoveCursor(s, peak) ==
    LET n == Len(s.records)
        right == Min({c \in s.cursor .. n : c = n \/ s.records[c + 1].peak > peak})
        left == Min({c \in 0 .. right : \A i \in c + 1 .. right : s.records[i].peak > peak})
        passed == {i \in left + 1 .. right : i < n}
    IN  [s EXCEPT !.cursor = left,
                  !.closedWorst = Largest1({Drawdown(s.records[i].peak, s.records[i].low) :
                                               i \in passed}, @)]

\* worst: of the front alone, of the closed and the open segments behind the
\* cursor, and of what the front's peak covers.
Worst(s) ==
    LET entry == IF s.front = <<>> THEN [peak |-> Bottom, worst |-> 0] ELSE Last(s.front)
        m == MoveCursor(s, entry.peak)
        n == Len(m.records)
        open == IF m.cursor < n THEN {Drawdown(m.records[n].peak, m.records[n].low)} ELSE {}
        covered == IF m.cursor > 0 THEN {Drawdown(entry.peak, m.records[m.cursor].lowSoFar)}
                   ELSE {}
    IN  [m EXCEPT !.last = <<Largest1(open \cup covered, Larger(entry.worst, m.closedWorst))>>]

MaxDrawdownUpdated(s, x) ==
    LET pushed == PushBack(s, x)
        full == Len(pushed.front) + Len(pushed.back) > s.period
        refilled == IF full /\ pushed.front = <<>> THEN RefillFront(pushed) ELSE pushed
        slid == IF full THEN [refilled EXCEPT !.front = Front(@)] ELSE refilled
    IN  IF Len(slid.front) + Len(slid.back) < s.period THEN slid ELSE Worst(slid)

-----------------------------------------------------------------------------
(* RunningDrawdown and DrawdownDuration. *)

NewRunningDrawdown == [peak |-> Bottom, current |-> 0, max |-> 0, seen |-> FALSE]

RunningDrawdownUpdated(s, x) ==
    LET peak == Larger(s.peak, x)
        current == Drawdown(peak, x)
    IN  [peak |-> peak, current |-> current, max |-> Larger(s.max, current), seen |-> TRUE]

NewDrawdownDuration == [peak |-> Bottom, underWater |-> 0, seen |-> FALSE]

\* Mutant: only a value above the peak ends a drawdown.
DurationKeepsGoing(s, x) ==
    IF ~s.seen \/ x > s.peak
    THEN [peak |-> x, underWater |-> 0, seen |-> TRUE]
    ELSE [s EXCEPT !.underWater = @ + 1]

DrawdownDurationUpdated(s, x) ==
    IF ~s.seen \/ x >= s.peak
    THEN [peak |-> x, underWater |-> 0, seen |-> TRUE]
    ELSE [s EXCEPT !.underWater = @ + 1]

-----------------------------------------------------------------------------
(* The definitions, over a sequence of inputs. *)

\* The running maximum at position t.
Peak(xs, t) == Max({xs[i] : i \in 1 .. t})

\* "MaxDrawdown = min(drawdown_t over window)", as a magnitude.
DeepestDecline(xs) == Max({Drawdown(Peak(xs, t), xs[t]) : t \in DOMAIN xs})

\* The bars since the last one at its running peak, as the test
\* equal_value_is_treated_as_peak has it.  The comment of the indicator
\* (drawdown_duration.rs:13) counts from when the peak "was first set", which is
\* earlier where a value equals the peak; the code starts afresh there (line 69, >=).
BarsUnderWater(xs) == Len(xs) - Max({t \in DOMAIN xs : xs[t] = Peak(xs, t)})

=============================================================================
