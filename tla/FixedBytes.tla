----------------------------- MODULE FixedBytes -----------------------------
(***************************************************************************)
(* The fixed-length identifiers of src/common/types.go (Hash, N = 32;      *)
(* Address, N = 20, whose BytesToAddress, SetBytes and Scan are the same   *)
(* code with AddressLength) as a variable h of N bytes written by the      *)
(* constructors BytesToHash and BigToHash, by the pointer-receiver method  *)
(* SetBytes on an existing value, and by Scan from a database value.       *)
(*                                                                         *)
(* Bytes range over a small alphabet; a value read back is h.Big(), the    *)
(* bytes as an unsigned big-endian integer.                                *)
(***************************************************************************)
EXTENDS Integers, Sequences, SequencesExt

CONSTANTS
  N,         \* HashLength
  Radix,     \* values a byte can take (256; smaller keeps TLC's integers small)
  Bytes,     \* byte values the inputs use
  NotBytes   \* a database value that is not a []byte

ASSUME N \in Nat \ {0} /\ Bytes \subseteq 0..(Radix - 1) /\ 0 \in Bytes

VARIABLES
  h,      \* the Hash's N bytes
  call,   \* the last call: <<name, input>>
  err     \* whether the last call returned an error

vars == <<h, call, err>>

\* Inputs: byte slices up to one byte longer than a Hash.
Inputs == BoundedSeq(Bytes, N + 1)

\* Unsigned big-endian value of a byte sequence: new(big.Int).SetBytes(b).
BigOf(b) == FoldLeft(LAMBDA acc, x : acc * Radix + x, 0, b)

\* b.Bytes() of a non-negative big.Int: its big-endian bytes, no leading 0.
RECURSIVE BigBytes(_)
BigBytes(v) == IF v = 0 THEN <<>> ELSE Append(BigBytes(v \div Radix), v % Radix)

Zero == [i \in 1..N |-> 0]

\* Mutant: b cropped from the right (b[:HashLength]) when too long.
SetBytesCropRight(old, b) ==
  LET c == IF Len(b) > N THEN SubSeq(b, 1, N) ELSE b
  IN [i \in 1..N |-> IF i > N - Len(c) THEN c[i - (N - Len(c))] ELSE old[i]]

\* h.SetBytes(b): a too long b keeps its last N bytes; the bytes are copied
\* into the tail of h, and the bytes before them keep what h held.
SetBytes(old, b) ==
  LET c == IF Len(b) > N THEN SubSeq(b, Len(b) - N + 1, Len(b)) ELSE b
  IN [i \in 1..N |-> IF i > N - Len(c) THEN c[i - (N - Len(c))] ELSE old[i]]

Init ==
  /\ h = Zero
  /\ call = <<"none", <<>>>>
  /\ err = FALSE

\* h = BytesToHash(b): SetBytes on a fresh zero Hash.
BytesToHash(b) ==
  /\ h' = SetBytes(Zero, b)
  /\ call' = <<"BytesToHash", b>>
  /\ err' = FALSE

\* h = BigToHash(v): BytesToHash(v.Bytes()).
BigToHash(v) ==
  /\ h' = SetBytes(Zero, BigBytes(v))
  /\ call' = <<"BigToHash", BigBytes(v)>>
  /\ err' = FALSE

\* h.SetBytes(b) on the Hash as it is.
SetBytesOn(b) ==
  /\ h' = SetBytes(h, b)
  /\ call' = <<"SetBytes", b>>
  /\ err' = FALSE

\* Mutant: the length test left out, src stored as it is.
ScanNoLenCheck(src) ==
  /\ call' = <<"Scan", src>>
  /\ IF src = NotBytes
     THEN err' = TRUE /\ UNCHANGED h
     ELSE h' = src /\ err' = FALSE

\* h.Scan(src): a non-[]byte or a slice of another length is an error and
\* h is not written; otherwise the N bytes are copied.
Scan(src) ==
  /\ call' = <<"Scan", src>>
  /\ IF src = NotBytes \/ Len(src) # N
     THEN err' = TRUE /\ UNCHANGED h
     ELSE h' = src /\ err' = FALSE

Next ==
  \/ \E b \in Inputs : BytesToHash(b) \/ SetBytesOn(b) \/ Scan(b)
  \/ \E b \in Inputs : BigToHash(BigOf(b))
  \/ Scan(NotBytes)

Spec == Init /\ [][Next]_vars

(***************************************************************************)
(* Properties                                                              *)
(***************************************************************************)
TypeOK ==
  /\ h \in [1..N -> Bytes]
  /\ call \in {"none", "BytesToHash", "BigToHash", "SetBytes", "Scan"}
              \X (Inputs \cup {NotBytes})
  /\ err \in BOOLEAN

\* Spec 4.1 and 8: the constructors right-align their input, so the Hash
\* they build has the input's value modulo Radix^N (the last N bytes of a
\* longer input, zeros before a shorter one), and reading it back with
\* Bytes and building again gives the same Hash.  A Scan that succeeds
\* stores exactly its N bytes and one that fails leaves the Hash as it was.
ConstructorsExact ==
  [][/\ call'[1] \in {"BytesToHash", "BigToHash"} =>
          /\ BigOf(h') = BigOf(call'[2]) % (Radix^N)
          /\ SetBytes(Zero, h') = h'
     /\ call'[1] = "Scan" => IF err' THEN h' = h ELSE h' = call'[2]]_vars

\* The comment on SetBytes: "SetBytes sets the hash to the value of b"
\* (cropped from the left when longer), for a Hash that already holds bytes.
SetBytesExact ==
  [][call'[1] = "SetBytes" => BigOf(h') = BigOf(call'[2]) % (Radix^N)]_vars

=============================================================================
