-------------------------------- MODULE Chain --------------------------------
(***************************************************************************)
(* The contract of an Indicator and Chain of crates/wickra-core/src/       *)
(* traits.rs: the output of one indicator is the input of the next.  A     *)
(* chain is an indicator itself and is nested to the left by then(), so a  *)
(* sequence of stages stands for it, and one stage for an indicator used   *)
(* on its own.  A stage is one of nine kinds; each rejects an input that   *)
(* is not finite, an infinity that the stage before it answered included.  *)
(***************************************************************************)
EXTENDS SmaState, RollingWindows, MonotonicDeques

CONSTANTS
    Lineups,    \* the chains: sequences of [kind, period]
    Inputs(_),  \* the finite inputs of a chain
    MaxInputs   \* bound: inputs of an indicator that numbers or remembers them all

Windowed == {"sma", "wma", "median", "mad", "stddev", "max_drawdown"}
Kinds == Windowed \cup {"ulcer", "running_drawdown", "drawdown_duration"}

ASSUME ChainAssumption ==
    /\ MaxInputs \in Nat
    /\ Lineups \subseteq Seq([kind : Kinds, period : Nat \ {0}]) \ {<<>>}
    /\ \A lineup \in Lineups : \A v \in Inputs(lineup) : v \in Int /\ IsFinite(v)

\* NEG_INFINITY is below every finite float.
ASSUME BottomIsBelow == Bottom < -Largest

VARIABLES
    lineup,     \* what the chain is made of, upstream first
    stages,     \* the state of each stage
    out,        \* the chain's last answer
    \* history, read by the properties only:
    fed,        \* what entered each stage since the last reset, windows cut to the window
    accepted,   \* finite inputs since the last reset, counted up to Warmup
    emitted,    \* has the chain answered one of them
    overflowed  \* has a stage answered with an infinity since the last reset

chainVars == <<lineup, stages, out, fed, accepted, emitted, overflowed>>

Stages == DOMAIN lineup

-----------------------------------------------------------------------------
(* The nine indicators by kind. *)

New(stage) ==
    CASE stage.kind = "sma" -> NewSma(stage.period)
      [] stage.kind = "wma" -> NewWma(stage.period)
      [] stage.kind \in {"median", "mad"} -> NewSortedWindow(stage.period)
      [] stage.kind = "stddev" -> NewStdDev(stage.period)
      [] stage.kind = "max_drawdown" -> NewMaxDrawdown(stage.period)
      [] stage.kind = "ulcer" -> NewUlcer(stage.period)
      [] stage.kind = "running_drawdown" -> NewRunningDrawdown
      [] stage.kind = "drawdown_duration" -> NewDrawdownDuration

\* The effect of update with a finite input.
Fed(stage, s, x) ==
    CASE stage.kind = "sma" -> Updated(s, x)
      [] stage.kind = "wma" -> WmaUpdated(s, x)
      [] stage.kind \in {"median", "mad"} -> SortedWindowUpdated(s, x)
      [] stage.kind = "stddev" -> StdDevUpdated(s, x)
      [] stage.kind = "max_drawdown" -> MaxDrawdownUpdated(s, x)
      [] stage.kind = "ulcer" -> UlcerUpdated(s, x)
      [] stage.kind = "running_drawdown" -> RunningDrawdownUpdated(s, x)
      [] stage.kind = "drawdown_duration" -> DrawdownDurationUpdated(s, x)

\* reset: a ring keeps its contents, everything else is as new.
Cleared(stage, s) ==
    CASE stage.kind = "sma" -> Clear(s)
      [] stage.kind = "wma" -> WmaCleared(s)
      [] OTHER -> New(stage)

IsReadyStage(stage, s) ==
    CASE stage.kind \in {"sma", "wma"} -> s.count = s.period
      [] stage.kind \in {"median", "mad"} -> Len(s.window) = s.period
      [] stage.kind \in {"stddev", "max_drawdown", "ulcer"} -> s.last # None
      [] OTHER -> s.seen

\* value(): what the last accepted input was answered.
ValueOf(stage, s) ==
    IF ~IsReadyStage(stage, s) THEN None
    ELSE CASE stage.kind = "sma" -> Value(s)
           [] stage.kind = "wma" -> Some(s.weightSum)
           [] stage.kind = "median" -> Some(MedianOf(s))
           [] stage.kind = "mad" -> Some(DeviationOf(s))
           [] stage.kind \in {"stddev", "max_drawdown", "ulcer"} -> s.last
           [] stage.kind = "running_drawdown" -> Some(s.max)
           [] stage.kind = "drawdown_duration" -> Some(s.underWater)

\* The two windows of an ulcer index overlap by one input.
WarmupOfStage(stage) ==
    CASE stage.kind = "ulcer" -> 2 * stage.period - 1
      [] stage.kind \in Windowed -> stage.period
      [] OTHER -> 1

-----------------------------------------------------------------------------
(* The chain. *)

\* Mutant: the stages' warm-ups are added up.
WarmupWithoutOverlap(first, second) == first + second

\* warmup_period: the input that fills the first stage also reaches the second.
WarmupOf(first, second) ==
    (IF first < 1 THEN 1 ELSE first) + (IF second < 1 THEN 1 ELSE second) - 1
Warmup == FoldLeft(WarmupOf, 1, [n \in Stages |-> WarmupOfStage(lineup[n])])

IsReady == \A n \in Stages : IsReadyStage(lineup[n], stages[n])

Init ==
    /\ lineup \in Lineups
    /\ stages = [n \in Stages |-> New(lineup[n])]
    /\ out = None
    /\ fed = [n \in Stages |-> <<>>]
    /\ accepted = 0
    /\ emitted = FALSE
    /\ overflowed = FALSE

\* A stage and what it is handed, which is None if the stage before had no answer:
\* its state afterwards and its own answer (and_then).
Step(stage, s, handed) ==
    IF handed = None \/ ~IsFinite(handed[1]) THEN [s |-> s, answer |-> None]
    ELSE LET fedS == Fed(stage, s, handed[1])
         IN  [s |-> fedS, answer |-> ValueOf(stage, fedS)]

Steps(x) ==
    LET step[n \in 0 .. Len(lineup)] ==
            IF n = 0 THEN [s |-> <<>>, answer |-> Some(x)]
            ELSE Step(lineup[n], stages[n], step[n - 1].answer)
    IN  step

\* The inputs a stage has to remember for the definitions below.
Remembered(stage, xs) ==
    IF stage.kind \in Windowed /\ Len(xs) > stage.period THEN Tail(xs) ELSE xs

Update(x) ==
    \E step \in {Steps(x)} :
        LET takes(n) == step[n - 1].answer # None /\ IsFinite(step[n - 1].answer[1])
        IN  /\ \A n \in Stages :
                  lineup[n].kind \notin Windowed /\ takes(n) => Len(fed[n]) < MaxInputs
            /\ stages' = [n \in Stages |-> step[n].s]
            /\ out' = step[Len(lineup)].answer
            /\ fed' = [n \in Stages |->
                          IF takes(n)
                          THEN Remembered(lineup[n], Append(fed[n], step[n - 1].answer[1]))
                          ELSE fed[n]]
            /\ accepted' = IF IsFinite(x) /\ accepted < Warmup THEN accepted + 1
                           ELSE accepted
            /\ emitted' = (emitted \/ out' # None)
            /\ overflowed' = (overflowed \/ \E n \in Stages :
                                 step[n].answer # None /\ ~IsFinite(step[n].answer[1]))
            /\ UNCHANGED lineup

\* Mutant: only the first stage is reset.
ResetFirst ==
    /\ stages' = [stages EXCEPT ![1] = Cleared(lineup[1], stages[1])]
    /\ fed' = [n \in Stages |-> <<>>]
    /\ accepted' = 0
    /\ emitted' = FALSE
    /\ overflowed' = FALSE
    /\ UNCHANGED <<lineup, out>>

Reset ==
    /\ stages' = [n \in Stages |-> Cleared(lineup[n], stages[n])]
    /\ fed' = [n \in Stages |-> <<>>]
    /\ accepted' = 0
    /\ emitted' = FALSE
    /\ overflowed' = FALSE
    /\ UNCHANGED <<lineup, out>>

Next == (\E x \in Inputs(lineup) \cup {PosInf, NaN} : Update(x)) \/ Reset

Spec == Init /\ [][Next]_chainVars

-----------------------------------------------------------------------------
(* Properties. *)

\* warmup_period is the number of inputs to the first value, neither fewer nor
\* more, unless a stage overflows on the way; and then it is never fewer.
WarmupExact ==
    /\ emitted => accepted = Warmup
    /\ accepted = Warmup /\ ~overflowed => emitted

\* is_ready tells "whether the indicator has emitted at least one value since
\* the last reset", overflow or not.
ReadyMeansEmitted == IsReady <=> emitted

\* update's comment: there is no value only during the warm-up or for an input
\* rejected as not finite.  A chain of stages that do not overflow keeps it.
AnswersOnceReady ==
    [][emitted /\ emitted' /\ out' = None => overflowed' \/ UNCHANGED stages]_chainVars

\* What each kind answers by its definition: that of its documentation, except that
\* a drawdown's duration is counted from the last value at the peak and not, as its
\* comment says, from the first (BarsUnderWater).
Definition(stage, xs) ==
    CASE stage.kind = "wma" -> Weighted(xs)
      [] stage.kind = "median" -> Median2(Sorted(xs))
      [] stage.kind = "mad" -> MedianDeviation(xs)
      [] stage.kind = "stddev" -> VarianceOf(xs)
      [] stage.kind \in {"max_drawdown", "running_drawdown"} -> DeepestDecline(xs)
      [] stage.kind = "drawdown_duration" -> BarsUnderWater(xs)
      [] stage.kind = "ulcer" -> SumOfSquares(xs, stage.period)

\* "the result is bit for bit the one a rescan of the window gives" (MaxDrawdown),
\* and the like of the others: however long the stream, whatever was evicted,
\* reseeded, rejected or reset, an indicator's value is the function of its window
\* that Definition gives.  The moving average rounds and is left to Sma.
ValueIsDefinition ==
    \A n \in Stages :
        lineup[n].kind # "sma" =>
            ValueOf(lineup[n], stages[n]) =
                IF Len(fed[n]) < WarmupOfStage(lineup[n]) THEN None
                ELSE Some(Definition(lineup[n], fed[n]))

=============================================================================
