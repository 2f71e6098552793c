SPECIFICATION FairSpec
CONSTANTS
    Inf = Inf
    NaN = NaN
    One = 10
    Epsilon = 2
    GweiPerEth = 10
    Fetchers = {f1, f2}
    MinResultsNum = 2
    Answers <- FewAnswers
    None = None
    ErrNotEnoughResponses = ErrNotEnoughResponses
PROPERTY FetchersPolledForever
