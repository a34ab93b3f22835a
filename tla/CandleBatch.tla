---------------------------- MODULE CandleBatch ----------------------------
(***************************************************************************)
(* The candles a whole list of ticks or finer candles amounts to, defined  *)
(* at once instead of incrementally, and by the meaning of a bucket        *)
(* instead of the arithmetic of Floor: the reference that the aggregator   *)
(* and the resampler are compared with.                                    *)
(***************************************************************************)
EXTENDS Candles, FiniteSets, FiniteSetsExt

\* The lowest timestamp starts a bucket too: the one it cuts short.
BucketStarts == {b \in Timestamps : b % Bucket = 0} \cup {TsMin}
StartOf(ts) == Max({b \in BucketStarts : b <= ts})

\* The buckets with input and, when gaps are filled, every bucket between two of
\* them, counted from the earlier one.
Used(cs) == {StartOf(cs[i].ts) : i \in DOMAIN cs}
Grid(cs) ==
    IF FillGaps
    THEN {b \in Min(Used(cs)) .. Max(Used(cs)) :
              (b - Max({u \in Used(cs) : u <= b})) % Bucket = 0}
    ELSE Used(cs)

\* The inputs of a bucket and those of the buckets before it.
Inside(b, cs) == {i \in DOMAIN cs : StartOf(cs[i].ts) = b}
Before(b, cs) == {i \in DOMAIN cs : StartOf(cs[i].ts) < b}

\* The last of some inputs by time, and by arrival among those of one timestamp.
Newest(I, cs) == LET top == Max({cs[i].ts : i \in I})
                 IN  cs[Max({i \in I : cs[i].ts = top})]
Oldest(I, cs) == LET bottom == Min({cs[i].ts : i \in I})
                 IN  cs[Min({i \in I : cs[i].ts = bottom})]

\* The volume a bucket has seen after each number of inputs.
VolumeSeen(b, cs) ==
    LET seen[n \in 0 .. Len(cs)] ==
            IF n = 0 THEN 0
            ELSE seen[n - 1] + IF n \in Inside(b, cs) THEN cs[n].volume ELSE 0
    IN  seen

\* The candle of a bucket among all inputs: the reduction of its own ...
Reduce(b, cs) ==
    LET I == Inside(b, cs)
    IN  [ts |-> b, open |-> Oldest(I, cs).open, close |-> Newest(I, cs).close,
         high |-> Max({cs[i].high : i \in I}), low |-> Min({cs[i].low : i \in I}),
         volume |-> Lesser(VolumeSeen(b, cs)[Len(cs)], Infinity)]

\* ... or, when it has none, a flat one at the last close before it.
CandleOf(b, cs) ==
    IF Inside(b, cs) # {} THEN Reduce(b, cs)
    ELSE Flat(Newest(Before(b, cs), cs).close, b)

\* The elements of a finite set of numbers in increasing order.
Ascending(S) ==
    [i \in 1 .. Cardinality(S) |->
        CHOOSE x \in S : Cardinality({y \in S : y < x}) = i - 1]

Batch(cs) ==
    LET starts == Ascending(Grid(cs))
    IN  [i \in DOMAIN starts |-> CandleOf(starts[i], cs)]

=============================================================================
