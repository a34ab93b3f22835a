\* A Rust caller awaits next_event() without a timeout of its own.
SPECIFICATION FairSpec
CONSTANTS
    ReadTimeout = 2
    InitialDelay = 1
    MaxBackoff = 3
    MaxAttempts = 3
    NoTimeout = NoTimeout
    PollTimeout = NoTimeout
    MaxKlines = 3
    MaxInbound = 2
INVARIANTS
    TypeOK
    ClosedIsTerminal
    BackoffFollowsSchedule
    RetriesBeforeSurfacing
PROPERTIES
    DropRecoveredOrSurfaced
    StallRecoveredOrSurfaced
