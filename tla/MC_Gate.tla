------------------------------ MODULE MC_Gate ------------------------------
(* Model-checking instance of Gate: the asset operations with every string *)
(* length on both sides of each bound, Decimals 18 and 19, values around   *)
(* zero and three block times; the ticket purchase on a 6-bit word with    *)
(* the block timestamps of a running chain and three slack values.         *)
EXTENDS Gate

MC_Lens == {0, 1, 64, 65, 128, 129, 256, 257, 1024, 1025}
MC_Amounts == {Nil, -1, 0, 1}

\* GenAsset Totals without zero, where the code and the spec agree.
MC_Totals == {Nil, -1, 1}

\* Block timestamps far enough below 2^W that timestamp+3 hours+30 days
\* fits in the word, as today's Unix time is far below 2^64.
MC_ChainTimestamps == 1..(2^W - 1 - FutureSlack - MinLife)

\* Slack values small beside 7 days, negative, zero and positive.
MC_Adjusts == {-2, 0, 2}
=============================================================================
