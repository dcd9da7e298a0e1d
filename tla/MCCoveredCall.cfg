SPECIFICATION FairSpec
CONSTANTS
    o1 = o1
    o2 = o2
    r1 = r1
    w1 = w1
    w2 = w2
    Opens <- MCOpens
    Rolls <- MCRolls
    Source <- MCSource
    Threads <- MCThreads
    Asked <- MCAsked
    Lots = 1
    MaxFaults = 1
CHECK_DEADLOCK FALSE
INVARIANTS RollSellsBehindBuyback CallsAreCovered StatusIsTruthful
    OneOpenerPastTheGate
PROPERTIES ImplementsBook StatusCatchesUp
