CONSTANTS
    Requests = {r1, r2}
    Keys = {k1}
    Payloads = {p1, p2}
    NoOrder = NoOrder
    NoPayload = NoPayload
    RequiredChecks = 2
    MaxCrashes = 1
SPECIFICATION FairSpec
INVARIANTS
    TypeOK
    AtMostOneBrokerCall
    BrokerCallHasDurableIntent
    PersistedIntentHasItsOrder
PROPERTIES
    TerminalOutcomeIsFinal
    ImplementsExactlyOnce
    AcceptedOrderBecomesLocal
    EveryIntentCanBeSettled
CHECK_DEADLOCK FALSE
