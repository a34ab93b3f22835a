\* Gap filling on, timestamps of both signs, volumes that can overflow.
SPECIFICATION Spec
CONSTANTS
    Bucket = 3
    FillGaps = TRUE
    MaxGap = 2
    TsMax = 7
    TsMin <- MCTsMin
    Infinity = 4
    NoBar = NoBar
    Prices = {1, 2, 3}
    Sizes = {1, 2}
    TickTimes <- MCTickTimes
    MaxTicks = 3
INVARIANTS
    StreamingEqualsBatch
    EvenlySpaced
    EmitsValidCandles
    NoFillOverflow
PROPERTY RefusalKeepsBar
