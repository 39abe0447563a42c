CONSTANTS
  SwapIDs = {s1}
  MaxAmount = 2
  MaxTime = 3
  DescLens = {1024, 1025}
  Nil = Nil
INIT Init
NEXT Next
CONSTRAINT TimeBound
INVARIANTS TypeOK SizeConserved Serviceable

