SPECIFICATION Spec
CONSTANTS
    MaxEpoch <- MCMaxEpoch
    MaxIssued <- MCMaxIssued
    MaxChannels <- MCMaxChannels
    MaxViewers <- MCMaxViewers
    Workers = {w1}
    Tasks = {t1, t2}
CONSTRAINT MCBound
SYMMETRY MCSymmetry
INVARIANTS RoutedMeansHuman GateAgreesWithRegistry NothingAfterHumanPeriod
CHECK_DEADLOCK FALSE
