SPECIFICATION SafeSpec
CONSTANTS
    NoOwner = NoOwner
    Owners <- MCOwners
    MaxTasks <- MCMaxTasks
    MaxSessions <- MCMaxSessions
    MaxEpoch <- MCMaxEpoch
    MaxIssued <- MCMaxIssued
INVARIANTS
    EpochFencesHumanPeriods
    GrantsAreOwned
    RevokeReachesEverySession
    AgentExcludesExternalSession
PROPERTIES
    ImplementsExecutionAuthority
CHECK_DEADLOCK FALSE
