CONSTANTS
  TicketIDs = {1, 2, 3}
  Values = {1, 2}
  Nil = Nil
  MaxArrays = 4
  MaxCells = 3
INIT Init
NEXT Next
CONSTRAINT AllocBound
VIEW Reachable
INVARIANTS TypeOK SnapshotShapeStable
PROPERTIES LiveRefines
