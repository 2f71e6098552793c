SPECIFICATION Spec
CONSTANTS
    Inf = Inf
    NaN = NaN
    One = 10
    Epsilon = 2
    GweiPerEth = 10
    Pairs <- UnsentPairs
    AutoSendInterval = 1
    FetchResults <- PlainFetchResults
    GasResults <- GasGasResults
    MaxInFlight = 0
    MaxRuns = 2
    MaxTime = 3
INVARIANT SubmittedWithinPercent
