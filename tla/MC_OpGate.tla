----------------------------- MODULE MC_OpGate -----------------------------
(* Model-checking instances of OpGate: every string length on both sides  *)
(* of each bound, Decimals 18 and 19, values around zero, and three block *)
(* times so that a lock window can end before, at or after the block.     *)
EXTENDS OpGate

MC_Lens == {0, 1, 64, 65, 128, 129, 256, 257, 1024, 1025}
MC_Amounts == {Nil, -1, 0, 1}

\* GenAsset Totals without zero, where the code and the spec agree.
MC_Totals == {Nil, -1, 1}

\* GenAsset Totals with zero.
MC_TotalsWithZero == {0, 1}
=============================================================================
