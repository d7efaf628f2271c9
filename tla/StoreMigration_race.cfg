SPECIFICATION MigrationSpec
CONSTANTS
  workQueue = workQueue
  costLedger = costLedger
  Collections <- MCCollections
  Defaults <- MCDefaults
  e1 = e1
  Entries = {e1, e2}
  NoDoc = NoDoc
  RequireConnection = FALSE
  LocalBackup = TRUE
  SeedDefaults = TRUE
  Bootstrap = TRUE
  Legacy <- MCLegacy
  MaxMigrations = 2
INVARIANTS MigratedAgree
PROPERTIES BootstrapImportsFiles MigrationKeepsRows
