CONSTANTS
  TicketIDs = {1, 2, 3}
  Values = {1, 2}
  Nil = Nil
  MaxArrays = 4
  MaxCells = 4
INIT Init
NEXT DeepCopyNext
CONSTRAINT AllocBound
VIEW Reachable
INVARIANT SnapshotIndependent
