-------------------------------- MODULE Gate --------------------------------
(***************************************************************************)
(* The validation gate over every operation kind whose Check has no stored *)
(* record to read: the asset and value operations of OpGate and the ticket *)
(* purchase of BuyTicket, composed.  The ledger (outside the repository,   *)
(* spec 2) decodes one transaction, whose FSNCallParam envelope checks     *)
(* nothing (FSNCallParam.Check returns nil), and calls the Check of the    *)
(* parameter it carries with the block's timestamp.                        *)
(*                                                                         *)
(* Both components share the block timestamp and the verdict; a behaviour *)
(* validates either an asset or value operation (op) or a ticket purchase *)
(* (param), and the other component's variables hold their "none" values. *)
(***************************************************************************)
EXTENDS Integers

CONSTANTS
  Nil, Totals, Amounts, Lens, Decimals, Times, Addrs,    \* as in OpGate
  W, MinLife, FutureSlack, MinRemain, Timestamps, Adjusts \* as in BuyTicket

VARIABLES
  timestamp, verdict,   \* shared: the block timestamp and the outcome
  op, asset, copy,      \* OpGate's transaction and the Asset it becomes
  adjust, param         \* BuyTicket's slack and its [Start, End]

vars == <<timestamp, verdict, op, asset, copy, adjust, param>>

OG == INSTANCE OpGate
BT == INSTANCE BuyTicket

\* The values of the component a behaviour does not use.
NoOp == [kind |-> "none"]
NoTicket == [Start |-> -1, End |-> -1]

\* FSNCallParam.Check: the envelope accepts whatever it carries.
FSNCallParamCheck == TRUE

Init ==
  \/ OG!Init /\ adjust = 0 /\ param = NoTicket
  \/ BT!Init /\ op = NoOp /\ asset = Nil /\ copy = Nil

\* The ledger dispatches the transaction to the Check of its parameter.
AssetStep == op # NoOp /\ FSNCallParamCheck /\ OG!Next /\ UNCHANGED <<adjust, param>>
TicketStep == param # NoTicket /\ FSNCallParamCheck /\ BT!Next /\ UNCHANGED <<op, asset, copy>>

Next == AssetStep \/ TicketStep

Spec == Init /\ [][Next]_vars

(***************************************************************************)
(* Properties                                                              *)
(***************************************************************************)
\* The asset and value Checks accept exactly the operations the spec's
\* rules accept, at each length bound, the Decimals bound, a positive
\* Value, a non-zero receiver and a time-lock window ending at the block.
GateMatchesSpec == op # NoOp => OG!GateMatchesSpec

\* BuyTicketParam.Check at machine width accepts exactly the tickets the
\* spec's rule over the integers accepts: no uint64 wrap lets a ticket in
\* or keeps one out.
CheckMatchesSpec == param # NoTicket => BT!CheckMatchesSpec

=============================================================================
