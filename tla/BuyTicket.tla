------------------------------ MODULE BuyTicket -----------------------------
(***************************************************************************)
(* BuyTicketParam.Check of src/common/types.go, with its uint64 and int64  *)
(* arithmetic kept at machine width, against the rule spec section 4.3     *)
(* states over the integers.                                               *)
(*                                                                         *)
(* The word is W bits wide instead of 64, and the durations                *)
(* 30*24*3600, 3*3600 and 7*24*3600 are the constants MinLife, FutureSlack *)
(* and MinRemain; what the check computes depends only on their order and  *)
(* on how close to 2^W a sum can get, which the scaled values keep.        *)
(*                                                                         *)
(* The chain supplies a block timestamp (0 in a dry run, which skips the   *)
(* time-relative tests) and the slack adjust; every transaction carries a  *)
(* Start and an End.  The ledger's use of an accepted ticket is outside    *)
(* the repository.                                                         *)
(***************************************************************************)
EXTENDS Integers

CONSTANTS
  W,            \* word width in bits (64 in the code)
  MinLife,      \* 30*24*3600: shortest ticket lifetime
  FutureSlack,  \* 3*3600: how far past the block a ticket may start
  MinRemain,    \* 7*24*3600: how long past the block a ticket must last
  Timestamps,   \* block timestamps the check is called with
  Adjusts       \* values of the int64 slack adjust

Word == 2^W
U64  == 0..(Word - 1)

ASSUME /\ W \in Nat \ {0}
       /\ {MinLife, FutureSlack, MinRemain} \subseteq U64
       /\ Timestamps \subseteq U64
       /\ Adjusts \subseteq (-(Word \div 2))..(Word \div 2 - 1)

VARIABLES
  timestamp,  \* block timestamp of the validating block
  adjust,     \* slack the caller passes
  param,      \* the BuyTicketParam: [Start, End]
  verdict     \* "none" before the first call, then "ok" or "err"

vars == <<timestamp, adjust, param, verdict>>

Params == [Start: U64, End: U64]

\* Unsigned addition of two uint64 operands: the sum modulo 2^W.
AddU64(a, b) == (a + b) % Word

\* uint64(7*24*3600+adjust): the int64 sum wraps modulo 2^W and the
\* conversion reinterprets its bits, so the result is the sum modulo 2^W.
ToU64(x) == x % Word

\* Mutant: end <= start+30*24*3600 as the lifetime test (off by one).
BuyTicketCheckLifeOffByOne(p, ts, adj) ==
  /\ ~(p.End <= p.Start \/ p.End <= AddU64(p.Start, MinLife))
  /\ ts # 0 =>
       /\ ~(p.Start > AddU64(ts, FutureSlack))
       /\ ~(p.End < AddU64(ts, ToU64(MinRemain + adj)))

\* BuyTicketParam.Check: TRUE when it returns nil.
BuyTicketCheck(p, ts, adj) ==
  /\ ~(p.End <= p.Start \/ p.End < AddU64(p.Start, MinLife))
  /\ ts # 0 =>
       /\ ~(p.Start > AddU64(ts, FutureSlack))
       /\ ~(p.End < AddU64(ts, ToU64(MinRemain + adj)))

\* Spec 4.3 over the integers: the reference the check is compared with.
BuyTicketSpec(p, ts, adj) ==
  /\ p.Start < p.End
  /\ p.Start + MinLife <= p.End
  /\ ts # 0 =>
       /\ p.Start <= ts + FutureSlack
       /\ ts + MinRemain + adj <= p.End

\* A BuyTicket transaction waiting to be validated in a block.
Init ==
  /\ timestamp \in Timestamps
  /\ adjust \in Adjusts
  /\ param \in Params
  /\ verdict = "none"

\* The call of BuyTicketParam.Check; it returns, and the model stops there.
BuyTicket ==
  /\ verdict = "none"
  /\ verdict' = IF BuyTicketCheck(param, timestamp, adjust) THEN "ok" ELSE "err"
  /\ UNCHANGED <<timestamp, adjust, param>>

Next == BuyTicket

Spec == Init /\ [][Next]_vars

(***************************************************************************)
(* Properties                                                              *)
(***************************************************************************)
\* BuyTicketParam.Check accepts exactly the tickets the spec's rule accepts:
\* no uint64 wrap of start+30 days, timestamp+3 hours or
\* timestamp+uint64(7 days+adjust) lets a ticket in that lives less than 30
\* days, starts more than 3 hours ahead or ends before the block time plus
\* 7 days plus adjust, and none rejects a ticket the rule admits.
CheckMatchesSpec ==
  verdict # "none" =>
    (verdict = "ok") = BuyTicketSpec(param, timestamp, adjust)

=============================================================================
