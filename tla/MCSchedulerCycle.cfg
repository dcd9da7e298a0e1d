SPECIFICATION FairSpec
CONSTANTS
    Spreads = {s1, s2}
    Poll = 1
    OrdersIntervals = {1}
    AccountInterval = 2
    MonitorInterval = 2
    Durations = {0, 1}
    MaxElapsed = 2
    MaxAge = 4
    MaxTroubles = 1
    MaxManual = 1
INVARIANTS TypeOK EntryOnlyWithFreshSpreads
PROPERTY SpreadsKeepBeingMonitored
