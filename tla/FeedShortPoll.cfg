\* A binding polls with a timeout below the first reconnect delay.
SPECIFICATION ReachableSpec
CONSTANTS
    ReadTimeout = 3
    InitialDelay = 2
    MaxBackoff = 4
    MaxAttempts = 2
    NoTimeout = NoTimeout
    PollTimeout = 1
    MaxKlines = 1
    MaxInbound = 1
PROPERTY DropRecoveredOrSurfaced
