SPECIFICATION Spec
CONSTANTS
    Inf = Inf
    NaN = NaN
    One = 10
    Epsilon = 2
    GweiPerEth = 10
    Pairs <- GasPairs
    AutoSendInterval = 1
    FetchResults <- GasFetchResults
    GasResults <- GasGasResults
    MaxInFlight = 1
    MaxRuns = 1
    MaxTime = 0
INVARIANTS RecordedWithinPercent GasPricesConsistent
