SPECIFICATION Spec
CONSTANTS
  Keys = {k1}
  Slots = {c1}
  PlainFacts = {model}
  Roles = {receiver, display}
  Values = {v1}
  Unknown = Unknown
  MaxTurns = 8
  MaxSessions = 1
  MaxMessages = 2
CHECK_DEADLOCK FALSE
INVARIANTS EquipmentRemembered
