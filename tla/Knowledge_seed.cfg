SPECIFICATION Spec
CONSTANTS
  none = none
  NoKey = none
  Seeds <- MCSeeds
  Notes <- MCNotes
  Given <- MCGiven
  Overlap = FALSE
  MaxTurns = 3
  MaxLost = 1
INVARIANTS TypeOK RegistryIsBacked
PROPERTIES EntriesStay
