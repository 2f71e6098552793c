SPECIFICATION AnsweringSpec
CONSTANTS
    Inf = Inf
    NaN = NaN
    One = 10
    Epsilon = 2
    GweiPerEth = 10
    Fetchers = {f1, f2, f3, f4}
    MinResultsNum = 2
    Answers <- MixedAnswers
    None = None
    ErrNotEnoughResponses = ErrNotEnoughResponses
INVARIANTS TypeOK NoResultLost ReplyIsMedian OutliersDoNotMove
PROPERTY FetchPriceReturns
