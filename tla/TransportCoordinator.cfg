SPECIFICATION FairCoordinatorSpec
CONSTANTS
    Transports <- MCTransports
    MaxCalls <- MCMaxCalls
    DriverFaults <- BlankLocators
INVARIANTS
    AtMostOneLive
    OneTransitionPerLease
    RevokeIsFinal
PROPERTIES
    EveryCallSettles
CHECK_DEADLOCK FALSE
