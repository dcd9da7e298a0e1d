SPECIFICATION FairSpec
CONSTANTS
    Opener = Opener
    Entry = Entry
    Closers = {c1, c2}
    None = None
    Contracts = 1
    MaxAttempt = 1
CHECK_DEADLOCK FALSE
INVARIANTS ShortIsHedged OneOrderPerLeg FlatWhenFinished
PROPERTIES FinishedIsFinal ImplementsPosition LateFillIsFlagged
