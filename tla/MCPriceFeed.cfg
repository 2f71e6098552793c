SPECIFICATION Spec
CONSTANTS
    Inf = Inf
    NaN = NaN
    One = 10
    Epsilon = 2
    GweiPerEth = 10
    Index <- FeedIndex
    Percent <- FeedPercent
    Precision <- FeedPrecision
    Quotes <- FeedQuotes
    Places <- FeedPlaces
INVARIANT TypeOK
PROPERTIES ContractCatchesUp
