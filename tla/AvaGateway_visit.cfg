SPECIFICATION Spec
CONSTANTS
  Messages <- MCMessages
  AnswerWords <- MCAnswerWords
  Limit = 1
  Window = 2
  MaxTurns = 4
  MaxAttempts = 4
  WriteBehind = TRUE
  MaxUnsaved = 1
INVARIANTS RateHolds DiagnosisMovesOn RecentTalkCounts
CHECK_DEADLOCK FALSE
