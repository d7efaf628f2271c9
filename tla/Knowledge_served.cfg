SPECIFICATION Spec
CONSTANTS
  none = none
  NoKey = none
  Seeds <- MCSeeds
  Notes <- MCNotes
  Given <- MCGiven
  Overlap = TRUE
  MaxTurns = 2
  MaxLost = 1
INVARIANTS SeededIsServed
