SPECIFICATION Spec
CONSTANTS
    Kinds <- MCKinds
    MaxInputs = 3
    MaxRefreshes = 2
    Bounds <- MCBounds
INVARIANT NothingStaysPressed
INVARIANT MutationsFollowAuthority
PROPERTY StopSettles
CHECK_DEADLOCK FALSE
