SPECIFICATION Spec
CONSTANTS
    NoOrder = NoOrder
    RequiredChecks = 1
    BrokerOrder = BrokerOrder
    Actions = {a1, a2}
    SlowWorkers = FALSE
SYMMETRY Symmetry
CHECK_DEADLOCK FALSE
INVARIANTS EntryOnlyWhenSettled OpenChildKeepsParentOpen NoOrderEndsRejectedAndAudited
PROPERTIES ImplementsSerial SettledActionIsFinal
