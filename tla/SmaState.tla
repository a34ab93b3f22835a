------------------------------ MODULE SmaState ------------------------------
(***************************************************************************)
(* The fields of Sma (crates/wickra-core/src/indicators/sma.rs) as a       *)
(* record, and its operations as operators on it: a ring buffer of the     *)
(* last inputs and their running sum, reseeded from the buffer from time   *)
(* to time because it drifts.                                              *)
(***************************************************************************)
EXTENDS Floats, Sequences, SequencesExt

CONSTANT
    RecomputeEvery    \* RECOMPUTE_EVERY, in windows

ASSUME SmaAssumption == RecomputeEvery \in Nat \ {0}

NewSma(period) ==
    [period |-> period, buf |-> [i \in 0 .. period - 1 |-> 0], head |-> 0,
     count |-> 0, sum |-> 0, since |-> 0]

\* An Option<f64>; a batch writes NaN for None.
None == <<>>
Some(v) == <<v>>

Full(s) == s.count = s.period
Value(s) == IF Full(s) THEN Some(Div(s.sum, s.period)) ELSE None

\* The buffer from slot first on, round to the slot before it.
Ring(s, first) ==
    [i \in 1 .. s.period |->
        s.buf[IF first + i - 1 < s.period THEN first + i - 1
              ELSE first + i - 1 - s.period]]

Total(xs) == FoldLeft(Add, 0, xs)

\* Mutant: the counter starts again, the sum stays.
RestartOnly(s, first) ==
    IF s.since < RecomputeEvery * s.period THEN s ELSE [s EXCEPT !.since = 0]

\* Mutant: the window is emptied along with the sum.
RestartWindow(s, first) ==
    IF s.since < RecomputeEvery * s.period THEN s ELSE NewSma(s.period)

\* The reseed, from the slot it starts summing at.
Reseed(s, first) ==
    IF s.since < RecomputeEvery * s.period THEN s
    ELSE [s EXCEPT !.sum = Total(Ring(s, first)), !.since = 0]

Wrap(s, i) == IF i = s.period THEN 0 ELSE i

\* A finite input enters the window, in place of the oldest if it is full.
Enter(s, x) ==
    LET kept == IF Full(s) THEN Sub(s.sum, s.buf[s.head]) ELSE s.sum
    IN  [period |-> s.period,
         buf |-> [s.buf EXCEPT ![s.head] = x],
         head |-> Wrap(s, s.head + 1),
         count |-> IF Full(s) THEN s.count ELSE s.count + 1,
         sum |-> Add(kept, x),
         since |-> s.since + 1]

\* update: the state after it and the answer.
Updated(s, x) ==
    IF IsFinite(x) THEN LET e == Enter(s, x) IN Reseed(e, e.head) ELSE s
Answer(s, x) == IF IsFinite(x) THEN Value(Updated(s, x)) ELSE None

\* reset: the buffer keeps its contents.
Clear(s) == [s EXCEPT !.head = 0, !.count = 0, !.sum = 0, !.since = 0]

=============================================================================
