--------------------------- MODULE RollingWindows ---------------------------
(***************************************************************************)
(* Indicators that keep a window and, next to it, something cheaper to     *)
(* update than the window is to scan: Wma a weighted sum, StdDev the       *)
(* shifted moments of rolling_moments.rs, MedianMa and                     *)
(* MedianAbsoluteDeviation the sorted window of sorted_window.rs.          *)
(*                                                                         *)
(* Arithmetic is that of the integers.  An answer stands without its       *)
(* constant divisor: n(n+1)/2 for a weighted average of n, n^2 for a       *)
(* variance, 2 for a median, 4 for a median of deviations from one.        *)
(***************************************************************************)
EXTENDS Integers, SequencesExt

CONSTANT
    ReseedEvery     \* RESEED_EVERY of wma.rs, in laps of the ring

ASSUME ReseedAssumption == ReseedEvery \in Nat \ {0}

Sigma(xs) == FoldLeft(LAMBDA a, b : a + b, 0, xs)

\* The inputs times their weights, the newest with the largest.
Weighted(xs) == Sigma([i \in DOMAIN xs |-> i * xs[i]])

-----------------------------------------------------------------------------
(* Wma: a ring, overwritten slot by slot. *)

NewWma(period) ==
    [period |-> period, buf |-> [i \in 1 .. period |-> 0], head |-> 1, count |-> 0,
     weightSum |-> 0, valueSum |-> 0, laps |-> 0]

OldestFirst(s) ==
    SubSeq(s.buf, s.head, s.period) \o SubSeq(s.buf, 1, s.head - 1)

\* Mutant: the weighted sum moves on by the new sum of the values.
SlideSumsLate(s, x) ==
    [weights |-> s.weightSum - (s.valueSum - s.buf[s.head] + x) + s.period * x,
     values |-> s.valueSum - s.buf[s.head] + x]

\* The sums once the oldest input has made room for x.
SlideSums(s, x) ==
    [weights |-> s.weightSum - s.valueSum + s.period * x,
     values |-> s.valueSum - s.buf[s.head] + x]

WmaUpdated(s, x) ==
    LET wraps == s.head = s.period
        moved == [s EXCEPT !.buf[s.head] = x, !.head = IF wraps THEN 1 ELSE @ + 1]
        sums == SlideSums(s, x)
        reseeds == wraps /\ s.laps + 1 = ReseedEvery
    IN  IF s.count < s.period
        THEN [moved EXCEPT
                 !.valueSum = @ + x,
                 !.count = @ + 1,
                 !.weightSum = IF s.count + 1 = s.period THEN Weighted(OldestFirst(moved))
                               ELSE @]
        ELSE [moved EXCEPT
                 !.valueSum = IF reseeds THEN Sigma(moved.buf) ELSE sums.values,
                 !.weightSum = IF reseeds THEN Weighted(OldestFirst(moved)) ELSE sums.weights,
                 !.laps = IF reseeds THEN 0 ELSE IF wraps THEN @ + 1 ELSE @]

WmaCleared(s) ==
    [s EXCEPT !.head = 1, !.count = 0, !.weightSum = 0, !.valueSum = 0, !.laps = 0]

-----------------------------------------------------------------------------
(* ShiftedMoments: sums of the deviations from an offset. *)

NewMoments == [offset |-> 0, seeded |-> FALSE, sum |-> 0, sumSq |-> 0, pushes |-> 0]

Push(m, x) ==
    LET offset == IF m.seeded THEN m.offset ELSE x
        d == x - offset
    IN  [offset |-> offset, seeded |-> TRUE, sum |-> m.sum + d, sumSq |-> m.sumSq + d * d,
         pushes |-> m.pushes + 1]

Evict(m, x) ==
    LET d == x - m.offset
    IN  [m EXCEPT !.sum = @ - d, !.sumSq = @ - d * d]

\* Mutant: the sums of the old offset are kept.
ReseedOffset(xs) == [Push(Push(NewMoments, Sigma(xs) \div Len(xs)), xs[1]) EXCEPT !.pushes = 0]

\* reseed: the offset becomes the mean of the window, however it is rounded.
ReseedMoments(xs) ==
    LET mean == Sigma(xs) \div Len(xs)
        ds == [i \in DOMAIN xs |-> xs[i] - mean]
    IN  [offset |-> mean, seeded |-> TRUE, sum |-> Sigma(ds),
         sumSq |-> Sigma([i \in DOMAIN xs |-> ds[i] * ds[i]]), pushes |-> 0]

\* variance, times n^2.
Variance(m, n) == LET v == n * m.sumSq - m.sum * m.sum IN IF v < 0 THEN 0 ELSE v

NewStdDev(period) ==
    [period |-> period, window |-> <<>>, moments |-> NewMoments, last |-> <<>>]

StdDevUpdated(s, x) ==
    LET full == Len(s.window) = s.period
        kept == IF full THEN Tail(s.window) ELSE s.window
        evicted == IF full THEN Evict(s.moments, Head(s.window)) ELSE s.moments
        window == Append(kept, x)
        pushed == Push(evicted, x)
        moments == IF pushed.pushes >= s.period THEN ReseedMoments(window) ELSE pushed
    IN  [s EXCEPT !.window = window,
                  !.moments = moments,
                  !.last = IF Len(window) < s.period THEN @
                           ELSE <<Variance(moments, s.period)>>]

-----------------------------------------------------------------------------
(* sorted_window.rs. *)

\* How many are below x.
Below(xs, x) == Cardinality({i \in DOMAIN xs : xs[i] < x})

\* partition_point: where the values not below x begin.
Position(sorted, x) == Below(sorted, x) + 1

Insert(sorted, x) == InsertAt(sorted, Position(sorted, x), x)

\* Mutant: the value before the one looked for is removed.
RemoveBefore(sorted, x) ==
    RemoveAt(sorted, IF Position(sorted, x) = 1 THEN 1 ELSE Position(sorted, x) - 1)

Remove1(sorted, x) == RemoveAt(sorted, Position(sorted, x))

\* distances: the distances to a center, smallest first, by merging the run below
\* the center, backwards, with the one above it: taken tells how many of the first
\* n came from below.  Twice the distances, for a center that is itself given
\* doubled.
Distances(sorted, center) ==
    LET split == Cardinality({i \in DOMAIN sorted : 2 * sorted[i] < center})
        left == [i \in 1 .. split |-> center - 2 * sorted[split + 1 - i]]
        right == [i \in 1 .. Len(sorted) - split |-> 2 * sorted[split + i] - center]
        fromLeft(l, r) == l < Len(left) /\ (r < Len(right) => left[l + 1] <= right[r + 1])
        taken[n \in 0 .. Len(sorted)] ==
            IF n = 0 THEN 0
            ELSE LET l == taken[n - 1]
                 IN  IF fromLeft(l, n - 1 - l) THEN l + 1 ELSE l
    IN  [n \in DOMAIN sorted |->
            IF taken[n - 1] < taken[n] THEN left[taken[n]] ELSE right[n - taken[n]]]

\* The median of a sorted sequence, doubled.
Median2(sorted) ==
    LET mid == Len(sorted) \div 2
    IN  IF Len(sorted) % 2 = 0 THEN sorted[mid] + sorted[mid + 1] ELSE 2 * sorted[mid + 1]

NewSortedWindow(period) == [period |-> period, window |-> <<>>, sorted |-> <<>>]

SortedWindowUpdated(s, x) ==
    LET full == Len(s.window) = s.period
    IN  [s EXCEPT !.window = Append(IF full THEN Tail(@) ELSE @, x),
                  !.sorted = Insert(IF full THEN Remove1(@, Head(s.window)) ELSE @, x)]

MedianOf(s) == Median2(s.sorted)
DeviationOf(s) == Median2(Distances(s.sorted, Median2(s.sorted)))

-----------------------------------------------------------------------------
(* The definitions, over the inputs of a full window. *)

\* The k-th smallest has fewer than k below it, and k that are not above it.
Sorted(xs) ==
    [k \in DOMAIN xs |-> CHOOSE x \in Range(xs) : Below(xs, x) < k /\ k <= Below(xs, x + 1)]

\* n times the sum of the squares less the square of the sum.
VarianceOf(xs) ==
    Len(xs) * Sigma([i \in DOMAIN xs |-> xs[i] * xs[i]]) - Sigma(xs) * Sigma(xs)

\* The median of the distances from the median.
MedianDeviation(xs) ==
    LET median == Median2(Sorted(xs))
        distance(x) == IF 2 * x < median THEN median - 2 * x ELSE 2 * x - median
    IN  Median2(Sorted([i \in DOMAIN xs |-> distance(xs[i])]))

=============================================================================
