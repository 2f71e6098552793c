SPECIFICATION Spec
CONSTANTS
    MantissaBits = 10
    Width = 13
    Decimals <- OneOrTwo
    LowestPrice <- Nearly1Cent
    HighestPrice <- Highest
    OverflowResults <- Outcomes
    Inf = Inf
    NaN = NaN
INVARIANT RoundedNotCutOff
