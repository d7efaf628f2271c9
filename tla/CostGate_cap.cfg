SPECIFICATION Spec
CONSTANTS
  Calls = {c1, c2}
  Estimates = {1, 2}
  Limits = {0, 2}
  MaxDay = 1
  EnvLimit = NoEnv
  EnvAutoLimit = NoEnv
  EnvStop = NoEnv
  EnvApproval = NoEnv
  NoEnv = NoEnv
  GateEnabled = TRUE
  WriteBehind = FALSE
  MaxUnsaved = 2
  DryRunOnly = FALSE
SYMMETRY CallSymmetry
PROPERTIES CapHolds
