SPECIFICATION FairSpec
CONSTANTS
    MayFail <- EveryCall
    MaxCalls = 4
    MaxRuns = 2
CHECK_DEADLOCK FALSE
INVARIANTS TypeOK ExecutedInCallOrder LostOnlyToAnotherRun
PROPERTIES QueueMoves ImplementsBatchDelivery
