SPECIFICATION Spec
CONSTANTS
    Inf = Inf
    NaN = NaN
    One = 10
    Epsilon = 2
    GweiPerEth = 10
    Failed = Failed
    Blank = Blank
    Malformed = Malformed
    NoAnswer = NoAnswer
    Crash = Crash
    NotAsked = NotAsked
    UsdNames <- Dollars
    Upper <- UpperCase
    Configs <- ManyConfigs
    Exchanges <- FewExchanges
    Responses <- PlainResponses
    GasResponses <- PlainGasResponses
INVARIANT VerifiedPairsSuffice
