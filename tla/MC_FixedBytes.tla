--------------------------- MODULE MC_FixedBytes ---------------------------
(* Model-checking instance of FixedBytes: a 3-byte Hash, inputs of 0 to 4  *)
(* bytes over {0, 1, 15} (radix 16), so that cropping, padding, leading zero bytes   *)
(* and a stale high byte all occur.                                        *)
EXTENDS FixedBytes
=============================================================================
