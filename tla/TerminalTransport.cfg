SPECIFICATION TransportSpec
CONSTANTS
    MaxEpoch <- MCMaxEpoch
    MaxIssued <- MCMaxIssued
    MaxQueue <- MCMaxQueue
    MaxWrites <- MCMaxWrites
INVARIANTS
    WritersDoNotMix
    InputFollowsAuthority
    NoPeerBehindTeardown
PROPERTIES
    AgentActsOnCurrentView
    DoneEndsHumanPeriod
    CredentialsSettle
CHECK_DEADLOCK FALSE
