--------------------------- MODULE MC_TicketSlice ---------------------------
(* Model-checking instance of TicketSlice; bounds in MC_TicketSlice.cfg:   *)
(* three ticket IDs so that a Delete in the middle of a slice shifts a     *)
(* slot, two values so that a write is visible, and enough allocations for *)
(* a slice to grow twice (cap 1, 2, 4) and be copied.                      *)
EXTENDS TicketSlice, TLC

\* A ledger that takes its copies with DeepCopy alone (l. 735-744), so that
\* snap is always what DeepCopy returned: every other call of Next.
DeepCopyNext ==
  \/ \E tid \in TicketIDs, v \in Values : Add(tid, v)
  \/ \E tid \in TicketIDs : Delete(tid)
  \/ DeepCopy \/ SortLive
  \/ \E tid \in TicketIDs, v \in Values :
       SetWeight(tid, v) \/ SetValueInPlace(tid, v) \/ GetSetWeight(tid, v)
=============================================================================
