\* Inputs in any order: does an old candle overwrite the close?
SPECIFICATION Spec
CONSTANTS
    Bucket = 3
    FillGaps = FALSE
    MaxGap = 2
    TsMax = 7
    TsMin <- MCTsMin
    Infinity = 4
    NoBar = NoBar
    Input <- MCEndInput
    MaxInputs = 4
PROPERTY RefusesOutOfOrder
