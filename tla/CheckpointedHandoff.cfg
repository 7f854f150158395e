SPECIFICATION StoreSpec
CONSTANTS
    MaxIssued <- MCMaxIssued
    MaxEpoch <- MCMaxEpoch
    DirectorySync = TRUE
INVARIANTS FailedCheckpointFencesHuman ReportedCheckpointSurvives NoTornCheckpoint
