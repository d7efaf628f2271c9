SPECIFICATION Spec
CONSTANTS
  Calls = {c1, c2}
  Estimates <- SomeEstimates
  Limits = {2}
  MaxDay = 1
  EnvLimit = NoEnv
  EnvAutoLimit = NoEnv
  EnvStop = NoEnv
  EnvApproval = NoEnv
  NoEnv = NoEnv
  GateEnabled = TRUE
  WriteBehind = TRUE
  MaxUnsaved = 3
  DryRunOnly = FALSE
SYMMETRY CallSymmetry
INVARIANTS TypeOK SpentIsSumOfCharges
PROPERTIES ChargesStay StopHonoured AloneWithinCap
