----------------------------- MODULE MC_BigCopy -----------------------------
(* Model-checking instance of BigCopy.  Words of Radix 2 with nat.make's   *)
(* spare 4 words: values up to 7 take up to three words, so an Add can     *)
(* grow an integer past its array or fit in its spare capacity, and a Sub  *)
(* can shrink it to fewer words, both of which decide whether a write      *)
(* lands in words a copy shares.  An Asset has one integer, so it gets     *)
(* spare capacity and a long run of writes; a Ticket or Swap has three or  *)
(* four, so each starts exactly full and gets two writes, enough for one   *)
(* write through each record after the copy.                               *)
EXTENDS BigCopy, TLC

MCInitSlack == [k \in {"Asset", "Ticket", "Swap"} |-> IF k = "Asset" THEN 1 ELSE 0]
MCMaxWrites == [k \in {"Asset", "Ticket", "Swap"} |-> IF k = "Asset" THEN 12 ELSE 2]
=============================================================================
