---------------------------- MODULE MC_SwapGate ----------------------------
(* Model-checking instance of SwapGate.  The bounds are given in           *)
(* MC_SwapGate.cfg: one swap (swaps never interact: every check and every  *)
(* ledger update reads and writes one swap), amounts and sizes up to 2 so  *)
(* that a partial take and a full take both exist, block times 0..3 so     *)
(* that a swap can be made after the first block and outlive a block.     *)
EXTENDS SwapGate, TLC
=============================================================================
