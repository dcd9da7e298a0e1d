CONSTANTS
    Order = Order
    NoOrder = NoOrder
    RequiredChecks = 3
    Span = 6
    Timeout = 2
    Reach = 3
    MaxPause = 1
    MaxHold = 2
    MaxTime = 16
SPECIFICATION Spec
INVARIANTS
    NoOrderMeansNoOrder
PROPERTIES
    CallOnlyForOpenIntent
    ImplementsSettled
CHECK_DEADLOCK FALSE
