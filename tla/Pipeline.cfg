\* Two-minute candles into four-minute ones, gaps filled by neither stage, by one or by both.
SPECIFICATION Spec
CONSTANTS
    Fine = 2
    Coarse = 4
    MaxGap = 2
    TsMax = 15
    TsMin <- MCTsMin
    Infinity = 5
    NoBar = NoBar
    Prices = {1, 2, 3}
    Sizes = {1, 2}
    TickTimes <- MCTickTimes
    MaxTicks = 3
INVARIANTS
    Commutes
    NeverRefusedAsOlder
CHECK_DEADLOCK FALSE
