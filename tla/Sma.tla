-------------------------------- MODULE Sma ---------------------------------
(***************************************************************************)
(* The simple moving average as its caller drives it: update and reset,    *)
(* the exact batch - which walks a slice one lap of the ring buffer at a   *)
(* time instead of calling update - and the fast batch.  A batch over an   *)
(* indicator that is not fresh, or over a slice with an input that is not  *)
(* finite, replays update, so it is a run of Update steps here.            *)
(*                                                                         *)
(* The lap-wise loop is modelled input by input next to a replay of update *)
(* on the same inputs.                                                     *)
(***************************************************************************)
EXTENDS SmaState

CONSTANTS
    Period,     \* the window length
    Values,     \* the finite inputs that may come
    MaxAbs      \* fast::MAX_ABS

ASSUME InputAssumption ==
    /\ Period \in Nat \ {0}           \* Sma::new refuses 0
    /\ \A v \in Values : v \in Int /\ IsFinite(v) /\ Round(v) = v

VARIABLES
    sma,       \* the indicator
    out,       \* the value answered last
    mode,      \* "streaming", or in the lap-wise loop of a "batch"
    pos,       \* the batch's place in the current lap
    lap,       \* is it the "first" lap or a "later" one
    \* history, read by the properties only:
    replay,    \* the indicator had every input since the last fast batch
               \* gone through update
    replayOut  \* and the value it would have answered last

smaVars == <<sma, out, mode, pos, lap, replay, replayOut>>
batchVars == <<mode, pos, lap>>

Init ==
    /\ sma = NewSma(Period)
    /\ out = None
    /\ mode = "streaming"
    /\ pos = 0
    /\ lap = "first"
    /\ replay = sma
    /\ replayOut = None

Replay(x) ==
    /\ replay' = Updated(replay, x)
    /\ replayOut' = Answer(replay, x)

Update(x) ==
    /\ mode = "streaming"
    /\ sma' = Updated(sma, x)
    /\ out' = Answer(sma, x)
    /\ Replay(x)
    /\ UNCHANGED batchVars

Reset ==
    /\ mode = "streaming"
    /\ sma' = Clear(sma)
    /\ replay' = Clear(replay)
    /\ UNCHANGED <<out, batchVars, replayOut>>

Fresh == sma.count = 0 /\ sma.since = 0

BatchStart ==
    /\ mode = "streaming"
    /\ Fresh
    /\ mode' = "batch"
    /\ pos' = 0
    /\ lap' = "first"
    /\ UNCHANGED <<sma, out, replay, replayOut>>

\* One input of a lap; the first lap has nothing to take out of the sum.
BatchInput(x) ==
    /\ mode = "batch"
    /\ pos < Period
    /\ LET kept == IF lap = "first" THEN sma.sum ELSE Sub(sma.sum, sma.buf[pos])
       IN  sma' = [period |-> Period,
                   buf |-> [sma.buf EXCEPT ![pos] = x],
                   head |-> sma.head,
                   count |-> IF lap = "first" THEN sma.count + 1 ELSE sma.count,
                   sum |-> Add(kept, x),
                   since |-> sma.since]
    /\ out' = Value(sma')
    /\ pos' = pos + 1
    /\ Replay(x)
    /\ UNCHANGED <<mode, lap>>

\* What happens when a lap, whole or not, is over.
LapDone(s) == Reseed([s EXCEPT !.since = s.since + pos], 0)

\* Mutant: the reseed comes too late for the last value of its lap.
ReseedAfterValue ==
    /\ mode = "batch"
    /\ pos = Period
    /\ sma' = LapDone(sma)
    /\ pos' = 0
    /\ lap' = "later"
    /\ UNCHANGED <<out, mode, replay, replayOut>>

\* A reseed rewrites the value of the input that tripped it.
LapOver ==
    /\ mode = "batch"
    /\ pos = Period
    /\ sma' = LapDone(sma)
    /\ out' = IF sma'.since = 0 THEN Value(sma') ELSE out
    /\ pos' = 0
    /\ lap' = "later"
    /\ UNCHANGED <<mode, replay, replayOut>>

\* Mutant: the cursor is left at the start of the buffer.
BatchEndAtZero ==
    /\ mode = "batch"
    /\ pos < Period
    /\ sma' = LapDone(sma)
    /\ mode' = "streaming"
    /\ pos' = 0
    /\ UNCHANGED <<out, lap, replay, replayOut>>

\* The slice ends within a lap or right after one.
BatchEnd ==
    /\ mode = "batch"
    /\ pos < Period
    /\ sma' = [LapDone(sma) EXCEPT !.head = pos]
    /\ mode' = "streaming"
    /\ pos' = 0
    /\ UNCHANGED <<out, lap, replay, replayOut>>

\* The fast batch over a slice of at least one window, last holding its end: the
\* values are those of a SIMD kernel and not modelled, the last one is answered.
FastBatch ==
    /\ mode = "streaming"
    /\ Fresh
    /\ \E last \in [1 .. Period -> {v \in Values : Abs(v) <= MaxAbs}],
          head \in 0 .. Period - 1 :
           LET s == [period |-> Period,
                     buf |-> [i \in 0 .. Period - 1 |->
                                 last[IF i >= head THEN i - head + 1
                                      ELSE i - head + 1 + Period]],
                     head |-> head, count |-> Period, sum |-> 0, since |-> 0]
           IN  sma' = [s EXCEPT !.sum = Total(Ring(s, head))]
    /\ out' = Value(sma')
    /\ replay' = sma'
    /\ replayOut' = out'
    /\ UNCHANGED batchVars

Next ==
    \/ \E x \in Values \cup {PosInf, NaN} : Update(x)
    \/ \E x \in Values : BatchInput(x)
    \/ Reset \/ BatchStart \/ LapOver \/ BatchEnd \/ FastBatch

Spec == Init /\ [][Next]_smaVars

-----------------------------------------------------------------------------
(* Properties. *)

\* Types, with the ranges of the cursor and the counters; the sum may overflow
\* but never turns into a NaN: an infinity is not taken away from it again.
SmaStates ==
    [period : {Period}, buf : [0 .. Period - 1 -> Values \cup {0}],
     head : 0 .. Period - 1, count : 0 .. Period,
     sum : NegInf .. PosInf, since : 0 .. RecomputeEvery * Period - 1]
TypeOK ==
    /\ sma \in SmaStates
    /\ replay \in SmaStates
    /\ out \in {Some(v) : v \in NegInf .. PosInf} \cup {None}
    /\ replayOut \in {Some(v) : v \in NegInf .. PosInf} \cup {None}
    /\ mode \in {"streaming", "batch"}
    /\ pos \in 0 .. Period
    /\ lap \in {"first", "later"}

\* batch_nan_into "is bit-for-bit equal to replaying update": the value of every
\* input, and the state the indicator is left in, whatever was streamed, reset
\* or batched before.
BatchIsReplay ==
    /\ (mode = "batch" /\ pos = Period) \/ out = replayOut
    /\ mode = "batch" \/ sma = replay

\* The window, oldest input first.
Oldest == IF mode = "streaming" THEN sma.head
          ELSE IF pos = Period THEN 0 ELSE pos
Contents == IF Full(sma) THEN Ring(sma, Oldest)
            ELSE [i \in 1 .. sma.count |-> sma.buf[i - 1]]

\* The average is that of the last Period inputs: the running sum is off by no
\* more than the roundings since it was last taken from the window itself.
MaxError == Ulp(Largest)
Roundings == 2 * (sma.since + pos) + Period
DriftBounded ==
    IsFinite(sma.sum) =>
        2 * Abs(sma.sum - FoldLeft(LAMBDA v, w : v + w, 0, Contents))
            <= Roundings * MaxError

\* The indicator keeps the contract of a window over its last inputs.
Abstract == INSTANCE SlidingWindow WITH
                Width <- Period, Inputs <- Values,
                window <- Contents, answered <- (out # None)
KeepsWindow == Abstract!WindowSpec

=============================================================================
