SPECIFICATION Spec
CONSTANTS
    Transports <- MCTransports
    MaxCalls <- MCMaxCalls
    DriverFaults <- NoFaults
    PhysicalWindow = TRUE
INVARIANTS
    LiveTransportIsLeased
    ViewersFollowTransports
PROPERTY ImplementsExclusiveTransport
CHECK_DEADLOCK FALSE
