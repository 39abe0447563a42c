CONSTANTS
  Nil = Nil
  Totals <- MC_TotalsWithZero
  Amounts <- MC_Amounts
  Lens <- MC_Lens
  Decimals = {0, 18, 19}
  Times = {0, 1, 2}
  Addrs = {"zero", "other"}
INIT Init
NEXT Next
CHECK_DEADLOCK FALSE
INVARIANT GateMatchesSpec
