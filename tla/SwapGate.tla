------------------------------ MODULE SwapGate ------------------------------
(***************************************************************************)
(* The swap part of the native-operation validation gate of                *)
(* src/common/types.go: MakeSwapParam.Check, TakeSwapParam.Check and       *)
(* RecallSwapParam.Check, driven by the ledger that stores the Swap        *)
(* records they are checked against.                                       *)
(*                                                                         *)
(* The checks are pure predicates over a parameter, a block timestamp and  *)
(* (for take and recall) the stored Swap.  The ledger that fetches the     *)
(* swap, applies an accepted operation and keeps the remaining SwapSize is *)
(* outside the repository; it is the environment here and does what the   *)
(* spec (section 4.4) says it does: a make stores the offer, a take        *)
(* subtracts Size from SwapSize and deletes the swap when nothing is left, *)
(* a recall deletes it.  A rejected operation changes nothing, so it has   *)
(* no action: a failing check is a disabled action.                        *)
(*                                                                         *)
(* A *big.Int field is Nil or an integer; FromAssetID, ToAssetID, Owner,   *)
(* Targes and Time are read by no check and are left out; a Description is *)
(* its length.                                                             *)
(***************************************************************************)
EXTENDS Integers

CONSTANTS
  SwapIDs,    \* identifiers the ledger gives to made swaps (model values)
  MaxAmount,  \* largest amount or size a parameter carries
  MaxTime,    \* last block timestamp explored
  DescLens,   \* Description lengths offered to MakeSwap
  Nil         \* a nil *big.Int, and an absent swap in the ledger

ASSUME MaxAmount \in Nat \ {0} /\ MaxTime \in Nat /\ DescLens \subseteq Nat

VARIABLES
  now,      \* timestamp of the block the next operation is validated in
  swaps,    \* ledger: SwapID -> stored Swap, or Nil when absent
  status,   \* history: "None", "Open", "Filled" or "Recalled"
  offered,  \* history: SwapSize the swap was made with
  taken     \* history: sum of the sizes of the accepted takes

vars == <<now, swaps, status, offered, taken>>

Times   == 0..MaxTime
BigInts == {Nil} \cup 0..MaxAmount

\* p == nil || p.Cmp(Big0) <= 0 is the rejection; IsPos is its negation.
IsPos(x) == x # Nil /\ x > 0

MakeSwapParams ==
  [FromStartTime: Times, FromEndTime: Times, MinFromAmount: BigInts,
   ToStartTime: Times, ToEndTime: Times, MinToAmount: BigInts,
   SwapSize: BigInts, Description: DescLens]

(***************************************************************************)
(* The checks, each a conjunction of the negations of its early returns,   *)
(* in the order the code tests them (TLC evaluates /\ left to right, so a  *)
(* Nil is never multiplied, as in the code).                               *)
(***************************************************************************)
\* Mutant: the MinToAmount test left out of the first early return.
MakeSwapCheckNoMinTo(p, timestamp) ==
  /\ IsPos(p.MinFromAmount) /\ IsPos(p.SwapSize)
  /\ p.Description <= 1024
  /\ p.MinFromAmount * p.SwapSize > 0
  /\ p.FromStartTime <= p.FromEndTime
  /\ p.ToStartTime <= p.ToEndTime
  /\ p.FromEndTime > timestamp
  /\ p.ToEndTime > timestamp

MakeSwapCheck(p, timestamp) ==
  /\ IsPos(p.MinFromAmount) /\ IsPos(p.MinToAmount) /\ IsPos(p.SwapSize)
  /\ p.Description <= 1024
  /\ p.MinFromAmount * p.SwapSize > 0
  /\ p.FromStartTime <= p.FromEndTime
  /\ p.ToStartTime <= p.ToEndTime
  /\ p.FromEndTime > timestamp
  /\ p.ToEndTime > timestamp

RecallSwapCheck(swap) ==
  /\ IsPos(swap.MinFromAmount)
  /\ IsPos(swap.SwapSize)
  /\ swap.MinFromAmount * swap.SwapSize > 0

\* Mutant: the p.Size.Cmp(swap.SwapSize) > 0 bound left out.
TakeSwapCheckNoBound(size, swap, timestamp) ==
  /\ IsPos(size) /\ swap.SwapSize # Nil
  /\ IsPos(swap.MinFromAmount)
  /\ IsPos(swap.MinToAmount)
  /\ swap.MinFromAmount * size > 0
  /\ swap.MinToAmount * size > 0
  /\ swap.FromEndTime > timestamp
  /\ swap.ToEndTime > timestamp

TakeSwapCheck(size, swap, timestamp) ==
  /\ IsPos(size) /\ swap.SwapSize # Nil /\ size <= swap.SwapSize
  /\ IsPos(swap.MinFromAmount)
  /\ IsPos(swap.MinToAmount)
  /\ swap.MinFromAmount * size > 0
  /\ swap.MinToAmount * size > 0
  /\ swap.FromEndTime > timestamp
  /\ swap.ToEndTime > timestamp

(***************************************************************************)
(* Environment: the ledger and the chain clock.                            *)
(***************************************************************************)
\* Neither window has ended: the implicit "not Expired" of spec 4.4.
Live(swap, t) == t < swap.FromEndTime /\ t < swap.ToEndTime

Init ==
  /\ now = 0
  /\ swaps = [id \in SwapIDs |-> Nil]
  /\ status = [id \in SwapIDs |-> "None"]
  /\ offered = [id \in SwapIDs |-> 0]
  /\ taken = [id \in SwapIDs |-> 0]

\* A new block with a later timestamp.
Tick ==
  /\ now' = now + 1
  /\ UNCHANGED <<swaps, status, offered, taken>>

\* A MakeSwap transaction with a fresh swap id, stored if the check passes.
MakeSwap(id, p) ==
  /\ status[id] = "None"
  /\ MakeSwapCheck(p, now)
  /\ swaps' = [swaps EXCEPT ![id] = p]
  /\ status' = [status EXCEPT ![id] = "Open"]
  /\ offered' = [offered EXCEPT ![id] = p.SwapSize]
  /\ UNCHANGED <<now, taken>>

\* A TakeSwap of size units against the stored swap; the ledger lowers
\* SwapSize and deletes the swap once it reaches zero.
TakeSwap(id, size) ==
  /\ swaps[id] # Nil
  /\ TakeSwapCheck(size, swaps[id], now)
  /\ LET left == swaps[id].SwapSize - size
     IN /\ swaps' = [swaps EXCEPT ![id] =
                       IF left = 0 THEN Nil ELSE [@ EXCEPT !.SwapSize = left]]
        /\ status' = [status EXCEPT ![id] = IF left = 0 THEN "Filled" ELSE @]
  /\ taken' = [taken EXCEPT ![id] = @ + size]
  /\ UNCHANGED <<now, offered>>

\* A RecallSwap of a stored swap; the ledger deletes it and refunds the rest.
RecallSwap(id) ==
  /\ swaps[id] # Nil
  /\ RecallSwapCheck(swaps[id])
  /\ swaps' = [swaps EXCEPT ![id] = Nil]
  /\ status' = [status EXCEPT ![id] = "Recalled"]
  /\ UNCHANGED <<now, offered, taken>>

Next ==
  \/ Tick
  \/ \E id \in SwapIDs, p \in MakeSwapParams : MakeSwap(id, p)
  \/ \E id \in SwapIDs, size \in BigInts : TakeSwap(id, size)
  \/ \E id \in SwapIDs : RecallSwap(id)

Spec == Init /\ [][Next]_vars

\* Bounds the chain clock; the chain itself never stops producing blocks.
TimeBound == now <= MaxTime

(***************************************************************************)
(* Properties                                                              *)
(***************************************************************************)
TypeOK ==
  /\ now \in Nat
  /\ swaps \in [SwapIDs -> MakeSwapParams \cup {Nil}]
  /\ status \in [SwapIDs -> {"None", "Open", "Filled", "Recalled"}]
  /\ offered \in [SwapIDs -> Nat]
  /\ taken \in [SwapIDs -> Int]

\* Size is conserved over any sequence of takes: the sizes accepted by
\* TakeSwapParam.Check plus what the ledger still holds always equal the
\* SwapSize the swap was made with, an open swap still has a positive size,
\* and a filled one was taken exactly in full (no overfill by the Size vs
\* swap.SwapSize bound of TakeSwapParam.Check).
SizeConserved ==
  \A id \in SwapIDs :
    CASE status[id] = "Open" ->
           /\ swaps[id].SwapSize > 0
           /\ taken[id] + swaps[id].SwapSize = offered[id]
      [] status[id] = "Filled" -> taken[id] = offered[id]
      [] OTHER -> 0 <= taken[id] /\ taken[id] <= offered[id]

\* Every swap MakeSwapParam.Check lets into the ledger stays serviceable by
\* the other two checks: its owner can always recall it
\* (RecallSwapParam.Check passes, so the escrowed funds are never stuck) and,
\* while neither window has ended, a take of one unit passes
\* TakeSwapParam.Check, however many takes came before.
Serviceable ==
  \A id \in SwapIDs :
    swaps[id] # Nil =>
      /\ RecallSwapCheck(swaps[id])
      /\ Live(swaps[id], now) => TakeSwapCheck(1, swaps[id], now)

=============================================================================
