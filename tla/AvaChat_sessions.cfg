SPECIFICATION FairSpec
CONSTANTS
  Keys = {k1, k2}
  Slots = {c1, c2}
  PlainFacts = {model}
  Roles = {}
  Values = {v1, v2}
  Unknown = Unknown
  MaxTurns = 3
  MaxSessions = 1
  MaxMessages = 3
CHECK_DEADLOCK FALSE
INVARIANTS TypeOK RecentTurnsKept FactsFollowMessages PlainFactsRemembered
PROPERTIES ChatsEnd
