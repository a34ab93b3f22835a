\* A binding polls with a timeout longer than the first reconnect delay and
\* shorter than the read timeout; the endpoint comes back.
SPECIFICATION ReachableSpec
CONSTANTS
    ReadTimeout = 3
    InitialDelay = 1
    MaxBackoff = 2
    MaxAttempts = 2
    NoTimeout = NoTimeout
    PollTimeout = 2
    MaxKlines = 3
    MaxInbound = 3
INVARIANTS
    InOrder
    NoLossWithinConnection
PROPERTIES
    DropRecovered
    KlineHandedOver
    KeepsContract
