SPECIFICATION FairSpec
CONSTANTS
    Spreads = {s1}
    Poll = 1
    OrdersIntervals = {3}
    AccountInterval = 3
    MonitorInterval = 3
    Durations = {0}
    MaxElapsed = 0
    MaxAge = 3
    MaxTroubles = 0
    MaxManual = 1
PROPERTY SpreadsKeepBeingMonitored
