-------------------------- MODULE MCTickAggregator --------------------------
(* Values of the aggregator's constants that a .cfg cannot write. *)
EXTENDS TickAggregator

MCTsMin == -TsMax - 1

\* Both signs, up to the highest timestamp, and clear of the bucket the lowest
\* one cuts: with buckets of three, ticks at the edges of five buckets.
MCTickTimes == {-4, -3, -1, 0, 2, 3, 5, TsMax - 1, TsMax}

=============================================================================
