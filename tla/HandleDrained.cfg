\* The resampler behind its C handle: inputs in any order, both ends of the range of
\* timestamps, arrays smaller than a gap's candles, refusals while the buffer is full.
SPECIFICATION HandleSpec
CONSTANTS
    Bucket = 3
    FillGaps = TRUE
    MaxGap = 2
    TsMax = 7
    TsMin <- MCTsMin
    Infinity = 4
    NoBar = NoBar
    Input <- MCInput
    MaxInputs = 3
    Caps = {1, 2}
    MaxOwed = 2
INVARIANTS
    StreamingEqualsBatch
    EmitsValidCandles
    NeverBackwards
    DrainIsLossless
