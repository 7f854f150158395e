SPECIFICATION SurfaceSpec
CONSTANTS
    w1 = w1
    w2 = w2
    Targets <- MCTargets
    MaxCalls = 3
    MaxHelpers = 3
    SurfaceBounds <- MCBounds
INVARIANT OneHelper
INVARIANT ValidatedUse
PROPERTY UsesSettle
CHECK_DEADLOCK FALSE
