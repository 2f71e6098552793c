SPECIFICATION Spec
CONSTANTS
    MantissaBits = 10
    Width = 13
    Decimals <- OneOrTwo
    LowestPrice <- Lowest
    HighestPrice <- Highest
    OverflowResults <- Outcomes
    Inf = Inf
    NaN = NaN
INVARIANTS TypeOK RecordedAsDecided SentWithinOneUnit
PROPERTY HigherNeverSentLower
