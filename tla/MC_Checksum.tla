---------------------------- MODULE MC_Checksum ----------------------------
(* Model-checking instance of Checksum: 2-byte addresses over the bytes    *)
(* 0x00, 0x0a and 0xb9, so a letter sits at an even and at an odd index    *)
(* and digits sit beside it; inputs of FixedBytes up to 3 bytes crop.      *)
(* MCKeccak stands for Keccak256: any function of the text will do for     *)
(* the properties, and this one gives the addresses every combination of  *)
(* high and low nibbles above and below 8.                                 *)
(* ParseBig256's limit is 4 bits; its texts are every prefix (none, 0x,  *)
(* 0X) with every sign (none, -, +) before a body that is empty, 7, 15 and *)
(* 16 (either side of the limit in decimal), 10 and 010 (16 in hex), f, F *)
(* (15 in hex, not decimal) or g, and two texts with a misplaced prefix.   *)
EXTENDS Checksum, TLC

MCKeccak(s) ==
  [j \in 1..N |-> (FoldLeft(LAMBDA acc, c : (acc * 31 + c) % 251, j, s) * 7) % 256]

MCBigTexts ==
  LET P == {<<>>, <<48, 120>>, <<48, 88>>}
      S == {<<>>, <<45>>, <<43>>}
      B == {<<>>, <<55>>, <<49, 53>>, <<49, 54>>, <<49, 48>>, <<48, 49, 48>>,
            <<102>>, <<70>>, <<103>>}
  IN {p \o x \o b : p \in P, x \in S, b \in B} \cup {<<45, 48, 120, 49>>, <<48, 120, 48, 120, 49>>}
=============================================================================
