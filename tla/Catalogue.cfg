\* Chains of indicators, windows of up to four; bar builders over every sequence of
\* six candles between two resets.
SPECIFICATION CatalogueSpec
CONSTANTS
    Exact = 4
    Largest = 384
    RecomputeEvery = 2
    Scale = 12
    Bottom <- MCBottom
    ReseedEvery = 2
    MaxInputs = 7
    MaxCandles = 6
    Lineups <- MCLineups
    Inputs <- MCInputs
    Builders <- MCBuilders
    Candles <- MCCandles
    Watchers <- MCWatchers
    Shown <- MCShown
    MostShown <- MCMostShown
INVARIANTS
    WarmupExact
    ReadyMeansEmitted
    ValueIsDefinition
    BarsCoverTheStream
    GapEqualsWalk
    ReadingIsDefinition
    StopHolds
PROPERTY AnswersOnceReady
