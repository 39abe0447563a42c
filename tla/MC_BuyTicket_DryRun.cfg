CONSTANTS
  W = 6
  MinLife = 20
  FutureSlack = 2
  MinRemain = 6
  Timestamps <- MC_DryRunTimestamps
  Adjusts <- MC_Adjusts
INIT Init
NEXT Next
INVARIANT CheckMatchesSpec
CHECK_DEADLOCK FALSE
