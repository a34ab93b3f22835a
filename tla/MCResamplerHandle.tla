-------------------------- MODULE MCResamplerHandle --------------------------
(* Values of the handle's constants that a .cfg cannot write. *)
EXTENDS ResamplerHandle

MCTsMin == -TsMax - 1

\* A rising bar, and one that reaches over it on both sides.
Rising == [open |-> 1, high |-> 2, low |-> 1, close |-> 2, volume |-> 1]
Outside == [open |-> 2, high |-> 3, low |-> 0, close |-> 1, volume |-> 2]

At(ts, shape) == [ts |-> ts, open |-> shape.open, high |-> shape.high,
                  low |-> shape.low, close |-> shape.close,
                  volume |-> shape.volume]

\* Both ends of the range, the lowest bucket included.
MCInput ==
    {At(ts, shape) : ts \in {TsMin, TsMin + 1, -2, -1, 0, TsMax - 1, TsMax},
                     shape \in {Rising, Outside}}

=============================================================================
