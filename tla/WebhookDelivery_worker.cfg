CONSTANTS
    Deliveries = {d1}
    AttemptLimit = 5
    RetryLimit = 6
SPECIFICATION FairSpec
INVARIANTS
    TypeOK
    RepeatsAreExcused
PROPERTIES
    ImplementsOutbox
    EveryDeliveryEnds
CHECK_DEADLOCK FALSE
