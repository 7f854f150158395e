SPECIFICATION Spec
CONSTANTS
    Epochs <- MCEpochs
    MaxSessions = 2
    MaxGen = 2
    MaxConns = 2
    MaxQueued = 1
    Bounds <- MCBounds
INVARIANT UsesAreAccounted
INVARIANT InputsSettleBeforeDone
INVARIANT DeadClientReleases
CHECK_DEADLOCK FALSE
