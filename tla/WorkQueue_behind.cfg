SPECIFICATION Spec
CONSTANTS
  ClientIds = {t1}
  NoId = NoId
  AttemptLimits = {2}
  MaxJobs = 2
  MaxTraces = 2
  MaxAttempts = 2
  MaxUnsaved = 1
  MaxShort = 1
  RepairLimits = {1}
  WriteBehind = TRUE
INVARIANTS TypeOK ResultsAreTraced RunsAreCounted DeadLettersAreExhausted ReplayLinksResolve
PROPERTIES FinishedStaysFinished
