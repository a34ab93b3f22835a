\* A buffer shorter than the probe; reads below of every size.
SPECIFICATION FairSpec
CONSTANTS
    Files <- MCFiles
    BufLen = 2
INVARIANTS
    RefusedForItsHeader
    Whole
PROPERTIES
    KeepsSource
    ReadToTheEnd
CHECK_DEADLOCK FALSE
