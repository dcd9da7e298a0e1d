SPECIFICATION Spec
CONSTANTS
    Opener = Opener
    Entry = Entry
    Closers = {c1}
    None = None
    Contracts = 2
    MaxAttempt = 1
CHECK_DEADLOCK FALSE
INVARIANT OpenedSpreadIsMonitored
