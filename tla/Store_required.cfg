SPECIFICATION FairSpec
CONSTANTS
  workQueue = workQueue
  costLedger = costLedger
  Collections <- MCCollections
  Defaults <- MCDefaults
  Entries = {e1, e2, e3}
  NoDoc = NoDoc
  RequireConnection = TRUE
  LocalBackup = TRUE
  SeedDefaults = TRUE
INVARIANTS TypeOK QuiescentAgreement PipelineOrdered
PROPERTIES ReadsNeverRegress RowsNeverRegress Implements WritesSettle CheckAnswers
