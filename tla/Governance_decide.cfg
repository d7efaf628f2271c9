SPECIFICATION Spec
CONSTANTS
  AIs = {arche, janitor}
  Arche = arche
  Other = janitor
  Sources = {s1}
  Requests <- MCRequests
  Handed <- MCHanded
  None = None
  NoRoom = NoRoom
  NoEntry = NoEntry
INVARIANTS HandoffIsTheDecision  RiskIsReviewed FaultsNeverPay ReleasesAreClean
CHECK_DEADLOCK FALSE
