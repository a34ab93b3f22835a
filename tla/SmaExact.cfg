\* Two significant bits, sums that lose small inputs and overflow.
SPECIFICATION Spec
CONSTANTS
    Exact = 4
    Largest = 24
    RecomputeEvery = 2
    Period = 3
    Values <- MCValues
    MaxAbs = 10
INVARIANTS
    BatchIsReplay
    DriftBounded
PROPERTY KeepsWindow
