CONSTANTS
  Kinds = {"Asset", "Ticket", "Swap"}
  Radix = 2
  Extra = 4
  InitValues = {1, 5}
  InitSlack <- MCInitSlack
  Operands = {1, 2}
  Addrs = {"a1", "a2"}
  TargesLen = 1
  MaxValue = 7
  MaxWrites <- MCMaxWrites
  NilWeight = FALSE
  Watched = {}
INIT Init
NEXT Next
CONSTRAINT StateBound
VIEW Reachable
INVARIANT TypeOK
INVARIANT TargesIndependent
