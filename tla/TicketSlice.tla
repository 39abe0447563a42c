----------------------------- MODULE TicketSlice ----------------------------
(***************************************************************************)
(* TicketSlice of src/common/types.go (Add, Delete, DeepCopy, Get, sorting *)
(* through Len/Less/Swap, the TicketStructSlice conversions, and           *)
(* Ticket.SetWeight on an element) at the level of Go's memory: a slice is *)
(* a header (backing array, len, cap) over a backing array of Ticket       *)
(* structs, and a Ticket's *big.Int fields are pointers into a heap of     *)
(* integer cells.                                                          *)
(*                                                                         *)
(* Two slices are held: live, the collection the ledger keeps and          *)
(* reassigns after every call (s = s.Add(t), s = s.Delete(id)), and snap,  *)
(* the result of the last live.DeepCopy().  The ledger also writes a       *)
(* ticket's Value in place (a big.Int method on the stored pointer), which *)
(* is what spec section 5 warns a copy must survive.                       *)
(*                                                                         *)
(* Of a Ticket only ID, Value and weight are kept: Height is a pointer     *)
(* copied exactly like Value, and Owner, StartTime and ExpireTime are      *)
(* plain values no operation here writes.  Pointers are indices into       *)
(* cells, 0 being nil; backing arrays are indices into arrays, 0 being the *)
(* nil slice's.  Nothing is freed: every allocation is counted by the      *)
(* lengths of cells and arrays, which bound the model.                     *)
(***************************************************************************)
EXTENDS Integers, Sequences

CONSTANTS
  TicketIDs,  \* ticket IDs (model values)
  Values,     \* integer values a Value or a weight takes
  Nil,        \* the zero Hash of an unused array slot; an unset weight
  MaxArrays,  \* number of backing-array allocations explored
  MaxCells    \* number of big.Int allocations explored

VARIABLES
  cells,   \* the heap of big.Int cells: pointer -> value
  arrays,  \* the backing arrays: array -> sequence of slots (length = cap)
  live,    \* header of the ledger's TicketSlice
  snap,    \* header of the slice the last DeepCopy returned
  copied,  \* history: the tickets snap held when it was made
  lastOp   \* history: the last call on live, <<kind, ID>>

vars == <<cells, arrays, live, snap, copied, lastOp>>


\* The zero Ticket a fresh backing array is filled with.
ZeroTicket == [ID |-> Nil, Value |-> 0, Weight |-> 0]
NilSlice   == [arr |-> 0, len |-> 0, cap |-> 0]

\* The ticket values a header shows: its slots, pointers followed.
Deref(h) ==
  [i \in 1..h.len |->
     LET t == arrays[h.arr][i]
     IN [ID |-> t.ID, Value |-> cells[t.Value],
         Weight |-> IF t.Weight = 0 THEN Nil ELSE cells[t.Weight]]]

\* The capacity append gives when the array is full.  A Ticket is 96 bytes,
\* so Go's doubling (up to 256 elements) lands exactly on a size class.
GrowCap(c) == IF c = 0 THEN 1 ELSE 2 * c

\* Index of the first of the first n slots of array a with ID tid, or 0.
FirstIndex(a, n, tid) ==
  IF \E i \in 1..n : arrays[a][i].ID = tid
  THEN CHOOSE i \in 1..n : arrays[a][i].ID = tid /\ \A j \in 1..(i - 1) : arrays[a][j].ID # tid
  ELSE 0

(***************************************************************************)
(* sort.Interface (Len, Less, Swap) over the slots sl of a backing array.  *)
(* Less parses each ID's hex text back with SetString(_, 0), which gives   *)
(* the Hash's unsigned value; an ID here is that value.                    *)
(***************************************************************************)
Len_(h) == h.len
Less(sl, i, j) == sl[i].ID < sl[j].ID
Swap(sl, i, j) == [sl EXCEPT ![i] = sl[j], ![j] = sl[i]]

\* Go's insertionSort(data, 0, n), which sort.Sort runs for n <= 12:
\* for i := 1; i < n; i++ { for j := i; j > 0 && Less(j, j-1); j-- { Swap(j, j-1) } }
RECURSIVE Sift(_, _)
Sift(sl, j) == IF j > 1 /\ Less(sl, j, j - 1) THEN Sift(Swap(sl, j, j - 1), j - 1) ELSE sl
RECURSIVE InsertionSort(_, _, _)
InsertionSort(sl, i, n) == IF i > n THEN sl ELSE InsertionSort(Sift(sl, i), i + 1, n)

Init ==
  /\ cells = <<>>
  /\ arrays = <<>>
  /\ live = NilSlice
  /\ snap = NilSlice
  /\ copied = <<>>
  /\ lastOp = <<>>

(***************************************************************************)
(* live = live.Add(&t) for a new Ticket whose Value is a fresh big.Int:    *)
(* append(s, *ticket) writes the struct into the spare capacity, or copies *)
(* the slots into a new array of GrowCap(cap) first.                       *)
(* The code does not test the ID; the guard is the ledger's uniqueness    *)
(* rule of spec 4.3 (it never adds an ID already present).                *)
(***************************************************************************)
Add(tid, v) ==
  LET x == [ID |-> tid, Value |-> Len(cells) + 1, Weight |-> 0]
  IN /\ tid \notin {arrays[live.arr][i].ID : i \in 1..live.len}
     /\ cells' = Append(cells, v)
     /\ IF live.len < live.cap
        THEN /\ arrays' = [arrays EXCEPT ![live.arr][live.len + 1] = x]
             /\ live' = [live EXCEPT !.len = @ + 1]
        ELSE /\ arrays' = Append(arrays, [i \in 1..GrowCap(live.cap) |->
                            IF i <= live.len THEN arrays[live.arr][i]
                            ELSE IF i = live.len + 1 THEN x ELSE ZeroTicket])
             /\ live' = [arr |-> Len(arrays) + 1, len |-> live.len + 1,
                         cap |-> GrowCap(live.cap)]
     /\ lastOp' = <<"add", tid>>
     /\ UNCHANGED <<snap, copied>>

(***************************************************************************)
(* live = live.Delete(tid): append(s[:i], s[i+1:]...) moves the slots      *)
(* after i one place left inside the same backing array (the last slot     *)
(* keeps its old struct) and the length drops by one.  With no ticket of   *)
(* that ID the slice is returned unchanged: a stuttering step.             *)
(***************************************************************************)
\* Mutant: s[:len-1] returned, dropping the last slot instead of slot i.
DeleteDropsLast(tid) ==
  LET i == FirstIndex(live.arr, live.len, tid)
  IN /\ i # 0
     /\ live' = [live EXCEPT !.len = @ - 1]
     /\ lastOp' = <<"delete", tid>>
     /\ UNCHANGED <<cells, arrays, snap, copied>>

\* Mutant: s[:len-1] returned with the found test dropped as well.
DeleteUnguarded(tid) ==
  /\ live' = [live EXCEPT !.len = @ - 1]
  /\ lastOp' = <<"delete", tid>>
  /\ UNCHANGED <<cells, arrays, snap, copied>>

Delete(tid) ==
  LET i == FirstIndex(live.arr, live.len, tid)
  IN /\ i # 0
     /\ arrays' = [arrays EXCEPT ![live.arr] =
                     [j \in DOMAIN @ |-> IF i <= j /\ j < live.len THEN @[j + 1] ELSE @[j]]]
     /\ live' = [live EXCEPT !.len = @ - 1]
     /\ lastOp' = <<"delete", tid>>
     /\ UNCHANGED <<cells, snap, copied>>

(***************************************************************************)
(* snap = live.DeepCopy(): nil for an empty slice, else a new array of cap *)
(* len holding copies of the structs, their pointers unchanged.            *)
(***************************************************************************)
\* Mutant: the receiver returned as its own copy (r := s).
DeepCopyShared ==
  /\ snap' = IF live.len = 0 THEN NilSlice ELSE live
  /\ copied' = Deref(live)
  /\ UNCHANGED <<cells, arrays, live, lastOp>>

DeepCopy ==
  /\ IF live.len = 0
     THEN /\ snap' = NilSlice
          /\ UNCHANGED arrays
     ELSE /\ arrays' = Append(arrays, [i \in 1..live.len |-> arrays[live.arr][i]])
          /\ snap' = [arr |-> Len(arrays) + 1, len |-> live.len, cap |-> live.len]
  /\ copied' = Deref(live)
  /\ UNCHANGED <<cells, live, lastOp>>

\* live[i].SetWeight(w) with a fresh big.Int w: the slot's weight pointer
\* is replaced (t.weight = value).
SetWeight(tid, w) ==
  LET i == FirstIndex(live.arr, live.len, tid)
  IN /\ i # 0
     /\ cells' = Append(cells, w)
     /\ arrays' = [arrays EXCEPT ![live.arr][i].Weight = Len(cells) + 1]
     /\ lastOp' = <<"set", tid>>
     /\ UNCHANGED <<live, snap, copied>>

(***************************************************************************)
(* t, _ := live.Get(tid); t.SetWeight(w): Get returns &t for the loop      *)
(* variable t, a copy of the slot, so the weight pointer is replaced in    *)
(* the copy and the slot keeps its own.  A miss returns nil and the ledger *)
(* does nothing.                                                           *)
(***************************************************************************)
\* Mutant: Get returns &s[i], a pointer into the backing array.
GetSetWeightInSlot(tid, w) ==
  LET i == FirstIndex(live.arr, live.len, tid)
  IN /\ i # 0
     /\ cells' = Append(cells, w)
     /\ arrays' = [arrays EXCEPT ![live.arr][i].Weight = Len(cells) + 1]
     /\ lastOp' = <<"get", tid>>
     /\ UNCHANGED <<live, snap, copied>>

GetSetWeight(tid, w) ==
  LET i == FirstIndex(live.arr, live.len, tid)
  IN /\ i # 0
     /\ cells' = Append(cells, w)
     /\ lastOp' = <<"get", tid>>
     /\ UNCHANGED <<arrays, live, snap, copied>>

(***************************************************************************)
(* snap = live.ToTicketStructSlice().ToTicketSlice(): each conversion      *)
(* makes a slice of cap len(s) and appends a copy of every struct          *)
(* (toTicketStruct copies *t), so the result has its own array and the     *)
(* original pointers; the TicketStructSlice in between is garbage at       *)
(* return.  An empty slice allocates nothing.                              *)
(***************************************************************************)
ConvertCopy ==
  /\ IF live.len = 0
     THEN snap' = NilSlice /\ UNCHANGED arrays
     ELSE LET sl == [i \in 1..live.len |-> arrays[live.arr][i]]
          IN /\ arrays' = arrays \o <<sl, sl>>
             /\ snap' = [arr |-> Len(arrays) + 2, len |-> live.len, cap |-> live.len]
  /\ copied' = Deref(live)
  /\ UNCHANGED <<cells, live, lastOp>>

\* sort.Sort(live): the structs move inside live's backing array.
SortLive ==
  /\ arrays' = IF Len_(live) < 2 THEN arrays
               ELSE [arrays EXCEPT ![live.arr] = InsertionSort(@, 2, Len_(live))]
  /\ lastOp' = <<"sort", Nil>>
  /\ UNCHANGED <<cells, live, snap, copied>>

\* Environment: the ledger sets the Value of a stored ticket in place,
\* through the pointer Get returns (its Value pointer is the slot's) or
\* through live[i].
SetValueInPlace(tid, v) ==
  LET i == FirstIndex(live.arr, live.len, tid)
  IN /\ i # 0
     /\ cells' = [cells EXCEPT ![arrays[live.arr][i].Value] = v]
     /\ lastOp' = <<"set", tid>>
     /\ UNCHANGED <<arrays, live, snap, copied>>

Next ==
  \/ \E tid \in TicketIDs, v \in Values : Add(tid, v)
  \/ \E tid \in TicketIDs : Delete(tid)
  \/ DeepCopy \/ ConvertCopy \/ SortLive
  \/ \E tid \in TicketIDs, v \in Values :
       SetWeight(tid, v) \/ SetValueInPlace(tid, v) \/ GetSetWeight(tid, v)

Spec == Init /\ [][Next]_vars

\* Bounds the allocations.
AllocBound == Len(arrays) <= MaxArrays /\ Len(cells) <= MaxCells

\* What later steps can read: the tickets within each header's length, its
\* capacity, whether the two share a backing array, which Value cells the
\* two share (only Values are written in place) and the allocation
\* counters.  Arrays and cells no header reaches are garbage and slots past
\* len are written before they are read, so states that differ only there
\* behave alike.  lastOp is left out too: every step of live sets it, and a
\* step of LiveRefines never reads the value it had before.
SharedValues ==
  {<<i, j>> \in (1..live.len) \X (1..snap.len) :
     arrays[live.arr][i].Value = arrays[snap.arr][j].Value}
Reachable ==
  <<Deref(live), live.len, live.cap, Deref(snap), snap.len, snap.cap, live.arr = snap.arr,
    SharedValues, Len(arrays), Len(cells), copied>>

(***************************************************************************)
(* Properties                                                              *)
(***************************************************************************)
\* Every pointer is nil or names an allocated cell, every header an
\* allocated array (or none) with len <= cap = the array's length.
TypeOK ==
  LET Slot   == [ID: TicketIDs \cup {Nil}, Value: 0..Len(cells),
                 Weight: 0..Len(cells)]
      Header == [arr: 0..Len(arrays), len: Nat, cap: Nat]
      Fits(h) == h.len <= h.cap /\ (h.arr = 0 => h.cap = 0)
                 /\ (h.arr # 0 => h.cap = Len(arrays[h.arr]))
  IN /\ cells \in Seq(Values)
     /\ arrays \in Seq(Seq(Slot))
     /\ live \in Header /\ snap \in Header
     /\ Fits(live) /\ Fits(snap)

Abstract == INSTANCE TicketCollection WITH tickets <- Deref(live), op <- lastOp

\* The ledger's slice, read through its pointers, behaves as the ordered
\* collection of spec 4.3: Add appends (in spare capacity or after growing
\* the array), Delete removes the first ticket with the ID and keeps the
\* rest in order despite shifting slots inside a shared array, and writes to
\* one ticket change that ticket only; a weight set through the pointer Get
\* returns changes nothing in the collection.
LiveRefines == Abstract!Spec

\* The slice DeepCopy returned keeps the IDs, their order and the weights
\* it was made with, whatever Add, Delete and SetWeight later do to the
\* ledger's slice: its backing array is its own.
SnapshotShapeStable ==
  /\ Len(Deref(snap)) = Len(copied)
  /\ \A i \in DOMAIN copied :
       /\ Deref(snap)[i].ID = copied[i].ID
       /\ Deref(snap)[i].Weight = copied[i].Weight

\* Spec 4.3: copying a collection gives independent storage for every
\* element, its integer fields included, so the copy DeepCopy returned
\* still holds exactly the tickets it was made with.
SnapshotIndependent == Deref(snap) = copied

=============================================================================
