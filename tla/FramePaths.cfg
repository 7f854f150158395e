SPECIFICATION PathsSpec
CONSTANTS
    MaxFrames <- MCMaxFrames
    MaxVideo <- MCMaxVideo
    MaxPeers <- MCMaxPeers
INVARIANT NewestFrameIsKept
PROPERTIES PendingFrameDrains FramesDecode
CHECK_DEADLOCK FALSE
