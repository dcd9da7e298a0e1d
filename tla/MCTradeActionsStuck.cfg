SPECIFICATION LiveSpec
CONSTANTS
    NoOrder = NoOrder
    RequiredChecks = 1
    BrokerOrder = BrokerOrder
    Actions = {a1}
    SlowWorkers = FALSE
CHECK_DEADLOCK FALSE
PROPERTIES ParentIsSettled
