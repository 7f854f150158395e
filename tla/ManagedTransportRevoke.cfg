SPECIFICATION Spec
CONSTANTS
    Transports <- MCTransports
    MaxCalls <- MCMaxCalls
    DriverFaults <- NoFaults
    PhysicalWindow = FALSE
INVARIANTS
    RevokeEndsHumanAccess
CHECK_DEADLOCK FALSE
