CONSTANTS
  Nil = Nil
  Totals <- MC_Totals
  Amounts <- MC_Amounts
  Lens <- MC_Lens
  Decimals = {0, 18, 19}
  Times = {0, 1, 2}
  Addrs = {"zero", "other"}
  W = 6
  MinLife = 20
  FutureSlack = 2
  MinRemain = 6
  Timestamps <- MC_ChainTimestamps
  Adjusts <- MC_Adjusts
INIT Init
NEXT Next
CHECK_DEADLOCK FALSE
INVARIANT GateMatchesSpec
INVARIANT CheckMatchesSpec
