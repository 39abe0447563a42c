-------------------------- MODULE TicketCollection --------------------------
(***************************************************************************)
(* What a ticket collection promises (spec section 4.3): an ordered        *)
(* sequence of ticket values.  add appends, delete(id) removes the first   *)
(* ticket with that ID and keeps the order of the rest (no change when     *)
(* there is none), get(id) looks a ticket up and changes nothing, sort    *)
(* puts the tickets in ascending order of ID (an unsigned integer), and    *)
(* setting a field of a ticket in the collection changes that ticket and   *)
(* nothing else.  IDs are unique: the ledger never                         *)
(* adds a ticket whose ID is already present.                              *)
(*                                                                         *)
(* TicketSlice implements this specification; a ticket here carries the   *)
(* fields that are reached through pointers in the code (Value, and the    *)
(* derived Weight, Nil when unset).                                        *)
(***************************************************************************)
EXTENDS Sequences, SequencesExt

CONSTANTS TicketIDs, Values, Nil

VARIABLES
  tickets,  \* the collection
  op        \* the last call: <<kind, ID it named>>, or <<>> before any

vars == <<tickets, op>>

Tickets == [ID: TicketIDs, Value: Values, Weight: Values \cup {Nil}]

IDsOf(s) == {s[i].ID : i \in DOMAIN s}

\* The tickets of s, with the one whose ID is tid given field f = v.
SetField(s, tid, f, v) ==
  [i \in DOMAIN s |-> IF s[i].ID = tid THEN [s[i] EXCEPT ![f] = v] ELSE s[i]]

Add(t) ==
  /\ t.ID \notin IDsOf(tickets)
  /\ tickets' = Append(tickets, t)
  /\ op' = <<"add", t.ID>>

Delete(tid) ==
  /\ tickets' = RemoveFirstMatch(tickets, LAMBDA t : t.ID = tid)
  /\ op' = <<"delete", tid>>

SetValue(tid, v) ==
  /\ tid \in IDsOf(tickets)
  /\ tickets' = SetField(tickets, tid, "Value", v)
  /\ op' = <<"set", tid>>

SetWeight(tid, w) ==
  /\ tid \in IDsOf(tickets)
  /\ tickets' = SetField(tickets, tid, "Weight", w)
  /\ op' = <<"set", tid>>

\* The canonical order: ascending by the ID as an unsigned integer.
Sort ==
  /\ tickets' = SortSeq(tickets, LAMBDA x, y : x.ID < y.ID)
  /\ op' = <<"sort", Nil>>

Get(tid) ==
  /\ tid \in IDsOf(tickets)
  /\ UNCHANGED tickets
  /\ op' = <<"get", tid>>

Init == tickets = <<>> /\ op = <<>>

Next ==
  \/ \E t \in Tickets : Add(t)
  \/ Sort
  \/ \E tid \in TicketIDs : Delete(tid) \/ Get(tid)
  \/ \E tid \in TicketIDs, v \in Values : SetValue(tid, v) \/ SetWeight(tid, v)

Spec == Init /\ [][Next]_vars

=============================================================================
