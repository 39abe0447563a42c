---------------------------- MODULE MC_BuyTicket ----------------------------
(* Model-checking instances of BuyTicket on a 6-bit word.  The durations   *)
(* keep the code's order FutureSlack < MinRemain < MinLife.                *)
EXTENDS BuyTicket

\* Block timestamps of a running chain: far enough below 2^W that
\* timestamp+3 hours+30 days fits in the word, as today's Unix time is far
\* below 2^64.
MC_ChainTimestamps == 1..(Word - 1 - FutureSlack - MinLife)

\* A dry run: the caller passes timestamp 0.
MC_DryRunTimestamps == {0}

\* Slack values small beside 7 days, negative, zero and positive.
MC_Adjusts == {-2, 0, 2}
=============================================================================
