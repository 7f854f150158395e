SPECIFICATION HandoffSpec
CONSTANTS
    Epochs <- MCEpochs
    MaxSessions <- MCMaxSessions
    MaxGen <- MCMaxGen
    MaxHosts <- MCMaxHosts
    Deployments <- MCDeployments
    Tasks = {t1, t2}
SYMMETRY MCSymmetry
INVARIANTS OneClientInUse InputIsFenced  CompletionIsDeliveredOnce
CHECK_DEADLOCK FALSE
