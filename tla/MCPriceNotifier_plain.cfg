SPECIFICATION Spec
CONSTANTS
    Inf = Inf
    NaN = NaN
    One = 10
    Epsilon = 2
    GweiPerEth = 10
    Pairs <- PlainPairs
    AutoSendInterval = 1
    FetchResults <- PlainFetchResults
    GasResults <- GasGasResults
    MaxInFlight = 2
    MaxRuns = 2
    MaxTime = 4
INVARIANT TypeOK
PROPERTIES NoPairForgotten FreshSubmission ImplementsPriceFeed
