SPECIFICATION Spec
CONSTANTS
    KeyFiles <- EveryFile
    Connections = {c1, c2}
    MaxServers = 2
    MaxSignals = 2
CHECK_DEADLOCK FALSE
INVARIANTS TypeOK PollsWithTheFirstKey OnlySignalsStopPolling LastServerStaysClosed
PROPERTIES SignalEndsProcess CloseGivesUp
