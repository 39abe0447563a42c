------------------------------ MODULE BigCopy -------------------------------
(***************************************************************************)
(* The DeepCopy methods of Asset, Ticket and Swap in src/common/types.go,  *)
(* at the level of Go's math/big: a *big.Int points to an Int struct whose *)
(* abs is a slice header (backing array, len) over an array of words.      *)
(*                                                                         *)
(* Asset.DeepCopy and Swap.DeepCopy copy each integer by value             *)
(* (x := *f; &x): a new Int struct whose abs header is the original's, so  *)
(* the two share their words.  Ticket.DeepCopy does that for Height and    *)
(* Value and keeps the weight pointer itself (&*w is w), or gives a      *)
(* fresh zero Int when it is nil.  Swap.DeepCopy also copies Targes into a *)
(* new slice.                                                              *)
(*                                                                         *)
(* The ledger then changes the integers of the original and of the copy in *)
(* place, as z.Add(z, y) and z.Sub(z, y) do.  math/big's nat arithmetic    *)
(* writes its result into z's backing array when the array is large        *)
(* enough (nat.make) and otherwise allocates a new one, then trims leading *)
(* zero words (nat.norm).  Values are non-negative (sign left out); words  *)
(* have Radix values instead of 2^64.                                      *)
(***************************************************************************)
EXTENDS Integers, Sequences, SequencesExt, FiniteSets

CONSTANTS
  Kinds,       \* records copied: a subset of {"Asset", "Ticket", "Swap"}
  Radix,       \* values a word takes (2^64 in the code)
  Extra,       \* spare words nat.make allocates (the constant e = 4)
  InitValues,  \* values the record's integers hold before the copy
  InitSlack,   \* kind -> most spare capacity of an integer's array at start
  Operands,    \* values added to or subtracted from an integer
  NilWeight,   \* whether the ticket's weight may be unset (nil)
  Addrs,       \* addresses a Targes entry takes
  TargesLen,   \* length of the swap's Targes
  Watched,     \* the integer fields IntsIndependent is checked for
  MaxValue,    \* largest value an integer reaches in the model
  MaxWrites    \* kind -> most in-place writes the ledger makes

Holders == {"orig", "dup"}

\* The *big.Int fields of each record: copied by value (*x), or kept as a
\* pointer (Ticket's weight).
ByValueOf(k) ==
  CASE k = "Asset"  -> {"Total"}
    [] k = "Ticket" -> {"Height", "Value"}
    [] k = "Swap"   -> {"MinFromAmount", "MinToAmount", "SwapSize", "Time"}
ByPointerOf(k) == IF k = "Ticket" THEN {"weight"} ELSE {}
FieldsOf(k) == ByValueOf(k) \cup ByPointerOf(k)

ASSUME Kinds \subseteq {"Asset", "Ticket", "Swap"}

VARIABLES
  kind,     \* the record this behaviour copies
  ints,     \* the Int structs: pointer -> [arr, len] (abs's header)
  arrays,   \* the word arrays, least significant word first (length = cap)
  ptr,      \* holder -> field -> pointer into ints (0 is nil)
  targes,   \* holder -> index into tslices of its Targes slice (0: none)
  tslices,  \* the Targes backing arrays
  copied,   \* whether DeepCopy has made "dup"
  want,     \* history: holder -> field -> the value the arithmetic gave it
  wantT,    \* history: holder -> the Targes the writes through it gave it
  writes    \* history: in-place writes made so far

vars == <<kind, ints, arrays, ptr, targes, tslices, copied, want, wantT, writes>>

ByValue == ByValueOf(kind)
ByPointer == ByPointerOf(kind)
Fields == FieldsOf(kind)

NilVal == -1   \* the value read for a nil pointer

\* The words of v, least significant first, no leading zero word.
RECURSIVE Digits(_)
Digits(v) == IF v = 0 THEN <<>> ELSE <<v % Radix>> \o Digits(v \div Radix)

Pad(ws, n) == [i \in 1..n |-> IF i <= Len(ws) THEN ws[i] ELSE 0]

WordsVal(ws) == FoldRight(LAMBDA w, acc : w + Radix * acc, ws, 0)

\* The value an Int shows: the words within its header's length.
ValIn(is, as, p) ==
  IF p = 0 THEN NilVal
  ELSE WordsVal([i \in 1..is[p].len |-> as[is[p].arr][i]])
Val(p) == ValIn(ints, arrays, p)

Cap(z) == IF z.arr = 0 THEN 0 ELSE Len(arrays[z.arr])

\* Capacity of the array nat.make allocates for n words.
NewCap(n) == IF n = 1 THEN 1 ELSE n + Extra

(***************************************************************************)
(* z.abs = z.abs.op(...) with result v computed over width words: make     *)
(* reuses z's array when width <= cap and writes words 1..width there      *)
(* (words past width keep what they held), else fills a new array; norm   *)
(* then sets len to the number of significant words.                       *)
(***************************************************************************)
Write(p, width, v) ==
  LET z == ints[p]
      ws == Pad(Digits(v), width)
  IN IF width = 0
     THEN /\ ints' = [ints EXCEPT ![p].len = 0]
          /\ UNCHANGED arrays
     ELSE IF width <= Cap(z)
     THEN /\ arrays' = [arrays EXCEPT ![z.arr] =
                          [i \in DOMAIN @ |-> IF i <= width THEN ws[i] ELSE @[i]]]
          /\ ints' = [ints EXCEPT ![p] = [arr |-> z.arr, len |-> Len(Digits(v))]]
     ELSE /\ arrays' = Append(arrays, Pad(ws, NewCap(width)))
          /\ ints' = [ints EXCEPT ![p] = [arr |-> Len(arrays) + 1,
                                          len |-> Len(Digits(v))]]

\* Words nat.add writes for operands of m and n words: 0 when both are
\* zero, a copy of the other (z.set) when one is, else max(m, n) + 1.
AddWidth(m, n) ==
  IF m = 0 \/ n = 0 THEN IF m > n THEN m ELSE n
  ELSE (IF m > n THEN m ELSE n) + 1

Init == \E k \in Kinds :
  LET F == SetToSeq(FieldsOf(k))
      Idx(f) == CHOOSE i \in 1..Len(F) : F[i] = f
      Fields0 == FieldsOf(k)
  IN \E vals \in [Fields0 -> InitValues], slack \in [Fields0 -> 0..InitSlack[k]],
        unset \in (IF NilWeight THEN BOOLEAN ELSE {FALSE}),
        ts \in [1..(IF k = "Swap" THEN TargesLen ELSE 0) -> Addrs] :
       /\ kind = k
       /\ ints = [i \in 1..Len(F) |-> [arr |-> i, len |-> Len(Digits(vals[F[i]]))]]
       /\ arrays = [i \in 1..Len(F) |->
                      Pad(Digits(vals[F[i]]), Len(Digits(vals[F[i]])) + slack[F[i]])]
       /\ ptr = [h \in Holders |-> [f \in Fields0 |->
                   IF h = "dup" \/ (f \in ByPointerOf(k) /\ unset) THEN 0 ELSE Idx(f)]]
       /\ want = [h \in Holders |-> [f \in Fields0 |->
                   IF h = "dup" \/ (f \in ByPointerOf(k) /\ unset) THEN NilVal ELSE vals[f]]]
       /\ tslices = <<ts>>
       /\ targes = [h \in Holders |-> IF h = "orig" /\ k = "Swap" THEN 1 ELSE 0]
       /\ wantT = [h \in Holders |-> IF h = "orig" THEN ts ELSE <<>>]
       /\ copied = FALSE
       /\ writes = 0

\* The copy's by-value integers: field fs[i] of "dup" gets a new Int struct
\* holding the abs header of the original's field src[i] (x := *f; &x).
CopyInts(fs, src) ==
  LET Pos(f) == CHOOSE i \in 1..Len(fs) : fs[i] = f
  IN /\ ints' = ints \o [i \in 1..Len(fs) |-> ints[ptr["orig"][src[i]]]]
     /\ ptr' = [ptr EXCEPT !["dup"] =
                  [f \in Fields |-> IF f \in Range(fs) THEN Len(ints) + Pos(f) ELSE @[f]]]

\* The value each field of the copy should have: the original's, now.
WantCopy == [want EXCEPT !["dup"] = [f \in Fields |-> Val(ptr["orig"][f])]]

\* u.DeepCopy() for an Asset: total := *u.Total; Total: &total.
AssetDeepCopy ==
  /\ kind = "Asset" /\ ~copied
  /\ CopyInts(<<"Total">>, <<"Total">>)
  /\ want' = WantCopy
  /\ copied' = TRUE
  /\ UNCHANGED <<kind, arrays, targes, tslices, wantT, writes>>

(***************************************************************************)
(* t.DeepCopy() for a Ticket: height := *t.Height and value := *t.Value    *)
(* are new Int structs sharing the words; wt := new(big.Int) is a fresh    *)
(* zero Int, replaced by &*w, the original's own pointer, when the       *)
(* weight is set.                                                          *)
(***************************************************************************)
\* t.Weight(): the weight pointer as it is, nil (0) when never set.
Weight(h) == ptr[h]["weight"]

TicketDeepCopy ==
  LET w == Weight("orig")
  IN /\ kind = "Ticket" /\ ~copied
     /\ ints' = ints \o <<ints[ptr["orig"]["Height"]], ints[ptr["orig"]["Value"]],
                          [arr |-> 0, len |-> 0]>>
     /\ ptr' = [ptr EXCEPT !["dup"] = [Height |-> Len(ints) + 1, Value |-> Len(ints) + 2,
                                       weight |-> IF w # 0 THEN w ELSE Len(ints) + 3]]
     /\ want' = WantCopy
     /\ copied' = TRUE
     /\ UNCHANGED <<kind, arrays, targes, tslices, wantT, writes>>

(***************************************************************************)
(* s.DeepCopy() for a Swap: the four integers by value, and                *)
(* targets := make([]Address, len(s.Targes)); copy(targets, s.Targes).     *)
(***************************************************************************)
SwapInts == <<"MinFromAmount", "MinToAmount", "SwapSize", "Time">>

\* Mutant: Time left out of the literal (it stays nil).
SwapDeepCopyNoTime ==
  /\ kind = "Swap" /\ ~copied
  /\ CopyInts(<<"MinFromAmount", "MinToAmount", "SwapSize">>,
               <<"MinFromAmount", "MinToAmount", "SwapSize">>)
  /\ tslices' = Append(tslices, tslices[targes["orig"]])
  /\ targes' = [targes EXCEPT !["dup"] = Len(tslices) + 1]
  /\ want' = WantCopy
  /\ wantT' = [wantT EXCEPT !["dup"] = tslices[targes["orig"]]]
  /\ copied' = TRUE
  /\ UNCHANGED <<kind, arrays, writes>>

\* Mutant: Targes: s.Targes (the slice shared, not copied).
SwapDeepCopySharedTarges ==
  /\ kind = "Swap" /\ ~copied
  /\ CopyInts(SwapInts, SwapInts)
  /\ targes' = [targes EXCEPT !["dup"] = targes["orig"]]
  /\ want' = WantCopy
  /\ wantT' = [wantT EXCEPT !["dup"] = tslices[targes["orig"]]]
  /\ copied' = TRUE
  /\ UNCHANGED <<kind, arrays, tslices, writes>>

SwapDeepCopy ==
  /\ kind = "Swap" /\ ~copied
  /\ CopyInts(SwapInts, SwapInts)
  /\ tslices' = Append(tslices, tslices[targes["orig"]])
  /\ targes' = [targes EXCEPT !["dup"] = Len(tslices) + 1]
  /\ want' = WantCopy
  /\ wantT' = [wantT EXCEPT !["dup"] = tslices[targes["orig"]]]
  /\ copied' = TRUE
  /\ UNCHANGED <<kind, arrays, writes>>

(***************************************************************************)
(* The ledger changes an integer of the original or of the copy in place.  *)
(***************************************************************************)
Usable(h) == h = "orig" \/ copied

\* z.Add(z, y) with a fresh y.
Add(h, f, y) ==
  LET p == ptr[h][f]
  IN /\ Usable(h) /\ p # 0
     /\ Write(p, AddWidth(ints[p].len, Len(Digits(y))), Val(p) + y)
     /\ want' = [want EXCEPT ![h][f] = @ + y]
     /\ writes' = writes + 1
     /\ UNCHANGED <<kind, ptr, targes, tslices, copied, wantT>>

\* z.Sub(z, y) with y <= z: nat.sub writes len(z) words.
Sub(h, f, y) ==
  LET p == ptr[h][f]
  IN /\ Usable(h) /\ p # 0 /\ y <= Val(p)
     /\ Write(p, ints[p].len, Val(p) - y)
     /\ want' = [want EXCEPT ![h][f] = @ - y]
     /\ writes' = writes + 1
     /\ UNCHANGED <<kind, ptr, targes, tslices, copied, wantT>>

\* s.Targes[i] = a.
SetTarget(h, i, a) ==
  /\ Usable(h) /\ targes[h] # 0
  /\ tslices' = [tslices EXCEPT ![targes[h]][i] = a]
  /\ wantT' = [wantT EXCEPT ![h][i] = a]
  /\ writes' = writes + 1
  /\ UNCHANGED <<kind, ints, arrays, ptr, targes, copied, want>>

Next ==
  \/ AssetDeepCopy \/ TicketDeepCopy \/ SwapDeepCopy
  \/ \E h \in Holders, f \in Fields, y \in Operands : Add(h, f, y) \/ Sub(h, f, y)
  \/ \E h \in Holders, i \in 1..TargesLen, a \in Addrs : SetTarget(h, i, a)

Spec == Init /\ [][Next]_vars

\* Bounds the values and the number of writes.
StateBound ==
  /\ writes <= MaxWrites[kind]
  /\ \A p \in 1..Len(ints) : Val(p) <= MaxValue
  /\ \A h \in Holders, f \in Fields : want[h][f] \in NilVal..MaxValue

(***************************************************************************)
(* What later steps can read: each field's value, len and cap, which       *)
(* fields share an Int struct or a word array, the Targes each record      *)
(* sees and the history.  Arrays no field reaches are garbage, and words   *)
(* past every header's len are written before any header covers them      *)
(* (nat.make hands out z[:width] and the op writes all width words), so    *)
(* states that differ only there behave alike.  writes is left out too:   *)
(* only the bound reads it, and breadth-first search reaches every view    *)
(* first with the fewest writes.                                           *)
(***************************************************************************)
Refs == Holders \X Fields
Shape(r) ==
  LET p == ptr[r[1]][r[2]]
  IN IF p = 0 THEN <<>> ELSE <<Val(p), ints[p].len, Cap(ints[p])>>
PtrOf(r) == ptr[r[1]][r[2]]
ShareArray(r, q) ==
  /\ PtrOf(r) # 0 /\ PtrOf(q) # 0
  /\ ints[PtrOf(r)].arr # 0 /\ ints[PtrOf(r)].arr = ints[PtrOf(q)].arr
Sharing ==
  <<{rq \in Refs \X Refs : ShareArray(rq[1], rq[2])},
    {rq \in Refs \X Refs : PtrOf(rq[1]) # 0 /\ PtrOf(rq[1]) = PtrOf(rq[2])}>>
Reachable ==
  <<kind, [r \in Refs |-> Shape(r)], Sharing, want, copied, wantT,
    [h \in Holders |-> IF targes[h] = 0 THEN <<>> ELSE tslices[targes[h]]],
    targes["orig"] = targes["dup"]>>

(***************************************************************************)
(* Properties                                                              *)
(***************************************************************************)
\* Every header fits its array, and every by-value integer of a record in
\* use is non-nil (the code dereferences each of them).
TypeOK ==
  /\ ints \in Seq([arr: 0..Len(arrays), len: Nat])
  /\ \A p \in 1..Len(ints) : ints[p].len <= Cap(ints[p])
  /\ arrays \in Seq(Seq(0..(Radix - 1)))
  /\ ptr \in [Holders -> [Fields -> 0..Len(ints)]]
  /\ \A h \in Holders, f \in ByValue : Usable(h) => ptr[h][f] # 0
  /\ copied \in BOOLEAN

\* Spec 4.2, 4.3 and 5: the copy's integers are independent of the
\* original's: after any in-place arithmetic on either, each integer holds
\* exactly what the arithmetic done through that record gave it.
IntsIndependent ==
  \A h \in Holders, f \in Watched \cap Fields : Usable(h) => Val(ptr[h][f]) = want[h][f]

\* Writes to one record's Targes never show in the other's: Swap.DeepCopy
\* gives the copy its own backing array.
TargesIndependent ==
  \A h \in Holders : targes[h] # 0 => tslices[targes[h]] = wantT[h]

=============================================================================
