------------------------------- MODULE OpGate -------------------------------
(***************************************************************************)
(* The asset and value operations of the validation gate in                *)
(* src/common/types.go: GenAssetParam, SendAssetParam, TimeLockParam,      *)
(* AssetValueChangeParam and AssetValueChangeExParam .Check, and the       *)
(* Asset an accepted GenAsset becomes (ToAsset) and its DeepCopy, each     *)
(* compared with the rules spec sections 4.2 and 4.4 state.                *)
(*                                                                         *)
(* One transaction, chosen in Init, is validated in a block with a given   *)
(* timestamp; an accepted GenAsset is stored as an Asset and the ledger    *)
(* copies it.  The swap and ticket operations are SwapGate and BuyTicket.  *)
(* Strings are their lengths; a *big.Int is Nil or an integer; an address  *)
(* is Zero or not; AssetID and the other fields no check reads are left    *)
(* out.                                                                    *)
(***************************************************************************)
EXTENDS Integers

CONSTANTS
  Nil,         \* a nil *big.Int
  Totals,      \* values of GenAssetParam.Total offered
  Amounts,     \* values of the Value fields offered
  Lens,        \* string lengths offered (around the bounds 64, 128, 256, 1024)
  Decimals,    \* values of GenAssetParam.Decimals offered
  Times,       \* StartTime, EndTime and block timestamps offered
  Addrs        \* receiver addresses: "zero" and a non-zero one

VARIABLES
  timestamp,  \* block timestamp of the validating block
  op,         \* the transaction: [kind, p]
  verdict,    \* "none" before the check, then "ok" or "err"
  asset,      \* the Asset an accepted GenAsset became, or Nil
  copy        \* asset.DeepCopy(), or Nil before the ledger copies it

vars == <<timestamp, op, verdict, asset, copy>>

GenAssetParams ==
  [Name: Lens, Symbol: Lens, Decimals: Decimals, Total: Totals,
   CanChange: BOOLEAN, Description: Lens]
SendAssetParams == [To: Addrs, Value: Amounts]
TimeLockParams == [StartTime: Times, EndTime: Times, Value: Amounts]
AssetValueChangeParams == [Value: Amounts]
AssetValueChangeExParams == [Value: Amounts, TransacData: Lens]

Ops ==
  {[kind |-> "GenAsset", p |-> x] : x \in GenAssetParams}
  \cup {[kind |-> "SendAsset", p |-> x] : x \in SendAssetParams}
  \cup {[kind |-> "TimeLock", p |-> x] : x \in TimeLockParams}
  \cup {[kind |-> "AssetValueChange", p |-> x] : x \in AssetValueChangeParams}
  \cup {[kind |-> "AssetValueChangeEx", p |-> x] : x \in AssetValueChangeExParams}

\* Value == nil || Value.Cmp(Big0) <= 0 is the rejection; IsPos negates it.
IsPos(x) == x # Nil /\ x > 0

(***************************************************************************)
(* The checks: TRUE when Check returns nil.                                *)
(***************************************************************************)
GenAssetCheck(p) ==
  /\ ~(p.Name = 0 \/ p.Symbol = 0 \/ p.Total = Nil \/ p.Total < 0)
  /\ p.Decimals <= 18
  /\ p.Description <= 1024
  /\ p.Name <= 128
  /\ p.Symbol <= 64

SendAssetCheck(p) == IsPos(p.Value) /\ p.To # "zero"

\* Mutant: EndTime <= timestamp rejected (a lock ending now refused).
TimeLockCheckStrict(p, ts) ==
  /\ IsPos(p.Value)
  /\ p.StartTime <= p.EndTime
  /\ p.EndTime > ts

TimeLockCheck(p, ts) ==
  /\ IsPos(p.Value)
  /\ p.StartTime <= p.EndTime
  /\ p.EndTime >= ts

AssetValueChangeCheck(p) == IsPos(p.Value)

AssetValueChangeExCheck(p) == IsPos(p.Value) /\ p.TransacData <= 256

\* The gate: the carried parameter's Check, by operation kind.
GateCheck(o, ts) ==
  CASE o.kind = "GenAsset" -> GenAssetCheck(o.p)
    [] o.kind = "SendAsset" -> SendAssetCheck(o.p)
    [] o.kind = "TimeLock" -> TimeLockCheck(o.p, ts)
    [] o.kind = "AssetValueChange" -> AssetValueChangeCheck(o.p)
    [] o.kind = "AssetValueChangeEx" -> AssetValueChangeExCheck(o.p)

\* GenAssetParam.ToAsset: the fields carried over one to one.
ToAsset(p) == p

\* Asset.DeepCopy: every field but Description is copied, which is left "".
AssetDeepCopy(a) == [a EXCEPT !.Description = 0]

(***************************************************************************)
(* The rules of the spec, the reference the gate is compared with.         *)
(***************************************************************************)
SpecAccepts(o, ts) ==
  LET p == o.p IN
  CASE o.kind = "GenAsset" ->
         /\ p.Name > 0 /\ p.Symbol > 0 /\ p.Total # Nil /\ p.Total > 0
         /\ p.Decimals <= 18 /\ p.Description <= 1024
         /\ p.Name <= 128 /\ p.Symbol <= 64
    [] o.kind = "SendAsset" -> IsPos(p.Value) /\ p.To # "zero"
    [] o.kind = "TimeLock" ->
         IsPos(p.Value) /\ p.StartTime <= p.EndTime /\ p.EndTime >= ts
    [] o.kind = "AssetValueChange" -> IsPos(p.Value)
    [] o.kind = "AssetValueChangeEx" -> IsPos(p.Value) /\ p.TransacData <= 256

Init ==
  /\ timestamp \in Times
  /\ op \in Ops
  /\ verdict = "none"
  /\ asset = Nil
  /\ copy = Nil

\* The gate validates the transaction; the ledger stores an accepted
\* GenAsset as an Asset.
Validate ==
  /\ verdict = "none"
  /\ verdict' = IF GateCheck(op, timestamp) THEN "ok" ELSE "err"
  /\ asset' = IF op.kind = "GenAsset" /\ GateCheck(op, timestamp)
              THEN ToAsset(op.p) ELSE Nil
  /\ UNCHANGED <<timestamp, op, copy>>

\* The ledger copies the stored Asset.
CopyAsset ==
  /\ asset # Nil /\ copy = Nil
  /\ copy' = AssetDeepCopy(asset)
  /\ UNCHANGED <<timestamp, op, verdict, asset>>

Next == Validate \/ CopyAsset

Spec == Init /\ [][Next]_vars

(***************************************************************************)
(* Properties                                                              *)
(***************************************************************************)
\* The gate accepts exactly the operations the spec's rules accept, for
\* every kind: each length bound, the Decimals bound, a positive Value, a
\* non-zero receiver and the time-lock window ending no earlier than the
\* block, at each boundary.
GateMatchesSpec ==
  verdict # "none" => (verdict = "ok") = SpecAccepts(op, timestamp)

\* Spec 4.2: duplicating an Asset gives an Asset equal to it (with its own
\* Total); the copy the ledger makes holds every field of the stored one.
AssetCopyFaithful == copy # Nil => copy = asset

=============================================================================
