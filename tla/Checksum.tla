------------------------------ MODULE Checksum ------------------------------
(***************************************************************************)
(* Address text in src/common/types.go: the EIP-55 checksum display        *)
(* Address.Hex, the validity test IsHexAddress, HexToAddress, and the      *)
(* MixedcaseAddress wrapper that keeps the text a user gave beside the     *)
(* address it denotes (its constructors, UnmarshalJSON, MarshalJSON and    *)
(* ValidChecksum).                                                         *)
(*                                                                         *)
(* It composes with FixedBytes: h is the Address the program holds, set by *)
(* the byte constructors of that module and by HexToAddress, and wrapped   *)
(* by NewMixedcaseAddress.  call and err are shared: the last call of      *)
(* either part and whether it failed.  It composes with ParseBig too, the  *)
(* other text the code parses (a quantity): parsed is its result, and a    *)
(* parse leaves the address state alone.                                   *)
(*                                                                         *)
(* A string is a sequence of ASCII codes, so the code's byte arithmetic    *)
(* on characters (result[i] > '9', result[i] -= 32) is kept as it is.      *)
(* Keccak256 is an uninterpreted operator; only its first N bytes are read.*)
(* FromHex, hasHexPrefix, isHex and hexutil's fixed-length decoding are    *)
(* not in src/ and are written from spec 4.1.                              *)
(***************************************************************************)
EXTENDS Integers, Sequences, SequencesExt

CONSTANTS
  N, Radix, Bytes, NotBytes,   \* as in FixedBytes (N = AddressLength)
  Keccak(_),                   \* sha3.NewKeccak256 over a string: its bytes
  Bits, BigTexts,              \* as in ParseBig
  HashN                        \* HashLength

VARIABLES h, call, err, ma,  \* ma: the MixedcaseAddress [addr, original]
          parsed,            \* as in ParseBig
          hh                 \* the Hash the program holds

FB == INSTANCE FixedBytes
PB == INSTANCE ParseBig
FH == INSTANCE FixedBytes WITH N <- HashN, h <- hh

vars == <<h, call, err, ma, parsed, hh>>

\* ASCII codes of the characters the code tests.
C0 == 48
C9 == 57
Cx == 120
CX == 88
Prefix0x == <<C0, Cx>>
IsHexChar(c) == c \in (48..57) \cup (65..70) \cup (97..102)

\* hex.EncodeToString: two lowercase hex digits per byte.
HexDigit(n) == IF n < 10 THEN C0 + n ELSE 87 + n
EncodeToString(b) ==
  FoldLeft(LAMBDA acc, x : acc \o <<HexDigit(x \div 16), HexDigit(x % 16)>>, <<>>, b)

\* The nibble of hash that decides the case of character i (1-based):
\* hash[i/2] >> 4 for an even 0-based index, hash[i/2] & 0xf for an odd one.
HashNibble(hash, i) ==
  LET hb == hash[(i - 1) \div 2 + 1]
  IN IF (i - 1) % 2 = 0 THEN hb \div 16 ELSE hb % 16

\* Mutant: every character with a high nibble is raised, digits included
\* (the result[i] > '9' test dropped).
HexCaseDigits(a) ==
  LET unchecksummed == EncodeToString(a)
      hash == Keccak(unchecksummed)
  IN Prefix0x \o [i \in 1..Len(unchecksummed) |->
                    IF HashNibble(hash, i) > 7 THEN unchecksummed[i] - 32
                    ELSE unchecksummed[i]]

\* a.Hex(): a letter is upper-cased when its hash nibble is above 7.
Hex(a) ==
  LET unchecksummed == EncodeToString(a)
      hash == Keccak(unchecksummed)
  IN Prefix0x \o [i \in 1..Len(unchecksummed) |->
                    IF unchecksummed[i] > C9 /\ HashNibble(hash, i) > 7
                    THEN unchecksummed[i] - 32 ELSE unchecksummed[i]]

\* hasHexPrefix and isHex (spec 4.1: an optional 0x or 0X, then hex digits).
hasHexPrefix(s) == Len(s) >= 2 /\ s[1] = C0 /\ s[2] \in {Cx, CX}
isHex(s) == Len(s) % 2 = 0 /\ \A i \in 1..Len(s) : IsHexChar(s[i])
StripPrefix(s) == IF hasHexPrefix(s) THEN SubSeq(s, 3, Len(s)) ELSE s

IsHexAddress(s) == Len(StripPrefix(s)) = 2 * N /\ isHex(StripPrefix(s))

\* FromHex: strip the prefix, pad an odd length with a leading 0, and decode
\* pairs of digits (hex.DecodeString keeps the bytes before a bad pair).
Nibble(c) == CASE c \in 48..57 -> c - 48 [] c \in 65..70 -> c - 55 [] OTHER -> c - 87
RECURSIVE DecodePairs(_)
DecodePairs(t) ==
  IF Len(t) < 2 \/ ~IsHexChar(t[1]) \/ ~IsHexChar(t[2]) THEN <<>>
  ELSE <<16 * Nibble(t[1]) + Nibble(t[2])>> \o DecodePairs(SubSeq(t, 3, Len(t)))
FromHex(s) ==
  LET t == StripPrefix(s) IN DecodePairs(IF Len(t) % 2 = 1 THEN <<C0>> \o t ELSE t)

BytesToAddress(b) == FB!SetBytes(FB!Zero, b)
HexToAddress(s) == BytesToAddress(FromHex(s))

\* hexutil.UnmarshalFixedText into n bytes, the prefix required: 0x or 0X,
\* then exactly 2n hex digits; otherwise an error and nothing written.
FixedTextOK(s, n) ==
  hasHexPrefix(s) /\ Len(s) = 2 * n + 2 /\ \A i \in 3..Len(s) : IsHexChar(s[i])

\* hexutil.UnmarshalFixedJSON first requires a JSON string (isString: two
\* characters or more, a quote at each end), then reads what is inside.
CQuote == 34
IsQuoted(s) == Len(s) >= 2 /\ s[1] = CQuote /\ s[Len(s)] = CQuote
Unquote(s) == SubSeq(s, 2, Len(s) - 1)

\* hexutil.UnmarshalFixedUnprefixedText: the same with the prefix optional.
UnprefixedTextOK(s, n) == Len(StripPrefix(s)) = 2 * n /\ isHex(StripPrefix(s))

\* Mutant: hexutil.Bytes's MarshalText without its "0x".
MarshalTextNoPrefix(b) == EncodeToString(b)

\* a.MarshalText(): hexutil.Bytes(a[:]).MarshalText(), "0x" and lowercase hex.
MarshalText(b) == Prefix0x \o EncodeToString(b)

\* h.MarshalText() of a Hash: the same call on h[:].
HashMarshalText(b) == MarshalText(b)

\* UnprefixedAddress and UnprefixedHash MarshalText: hex.EncodeToString.
UnprefixedMarshalText(b) == EncodeToString(b)
UnprefixedHashMarshalText(b) == EncodeToString(b)

ValidChecksum(m) == m.original = Hex(m.addr)

\* Mutant: the prefix test dropped, two characters always cut.
MarshalJSONStripAlways(m) == Prefix0x \o SubSeq(m.original, 3, Len(m.original))

\* ma.MarshalJSON(): "0x" and the original without its 0x or 0X prefix.
MarshalJSON(m) ==
  IF Len(m.original) >= 2 /\ m.original[1] = C0 /\ m.original[2] \in {Cx, CX}
  THEN Prefix0x \o SubSeq(m.original, 3, Len(m.original))
  ELSE Prefix0x \o m.original

(***************************************************************************)
(* The texts users give: for each address its lowercase digits, all upper  *)
(* case, its checksum casing and that casing with one letter flipped, each *)
(* with no prefix, 0x or 0X; and a text one digit short and one with a     *)
(* non-hex digit.                                                          *)
(***************************************************************************)
Addresses == [1..N -> Bytes]
FlipCase(c) == IF c \in 97..102 THEN c - 32 ELSE IF c \in 65..70 THEN c + 32 ELSE c
Casings(a) ==
  LET l == EncodeToString(a)
      k == SubSeq(Hex(a), 3, Len(Hex(a)))
      letters == {i \in 1..Len(k) : k[i] > C9}
      flip == IF letters = {} THEN k
              ELSE [k EXCEPT ![CHOOSE i \in letters : \A j \in letters : i <= j] = FlipCase(@)]
  IN {l, [i \in 1..Len(l) |-> FlipCase(l[i])], k, flip}
Texts ==
  {p \o t : p \in {<<>>, Prefix0x, <<C0, CX>>}, t \in UNION {Casings(a) : a \in Addresses}}
  \cup UNION {{Prefix0x \o SubSeq(EncodeToString(a), 2, 2 * N),
               Prefix0x \o [EncodeToString(a) EXCEPT ![2 * N] = 103]} : a \in Addresses}

\* The texts given to the UnmarshalText methods of a type n bytes wide:
\* the all-equal values over the least and the greatest byte of Bytes, in
\* lower and in upper case, with each prefix; a text one byte short and
\* one of odd length, with the prefix; and one with a character outside
\* the hex digits.
UnmarshalTexts(n) ==
  LET v == {[i \in 1..n |-> b] : b \in {Min(Bytes), Max(Bytes)}}
      l == {EncodeToString(x) : x \in v}
      u == {[i \in 1..Len(t) |-> FlipCase(t[i])] : t \in l}
      z == EncodeToString([i \in 1..n |-> Min(Bytes)])
  IN {p \o t : p \in {<<>>, Prefix0x, <<C0, CX>>}, t \in l \cup u}
     \cup {Prefix0x \o SubSeq(z, 3, 2 * n), Prefix0x \o SubSeq(z, 2, 2 * n),
           Prefix0x \o [z EXCEPT ![1] = 103]}

\* The JSON values given to UnmarshalJSON: a valid text and one a digit
\* short, each quoted, and the valid text without its quotes.
JSONTexts(n) ==
  LET t == Prefix0x \o EncodeToString([i \in 1..n |-> Max(Bytes)])
  IN {<<CQuote>> \o x \o <<CQuote>> : x \in {t, SubSeq(t, 1, 2 * n + 1)}} \cup {t}

Init ==
  /\ FB!Init
  /\ ma = [addr |-> FB!Zero, original |-> <<>>]
  /\ PB!Init
  /\ hh = FH!Zero

\* The byte constructors of Address are those of FixedBytes on N bytes:
\* BytesToAddress and BigToAddress build on a zero Address, and the
\* methods SetBytes and Scan are Hash's code with AddressLength (the call
\* names are FixedBytes', which ConstructorsExact reads).
BytesToAddressOn(b) == FB!BytesToHash(b)
BigToAddressOn(v) == FB!BigToHash(v)
AddressSetBytes(b) == FB!SetBytesOn(b)
AddressScan(src) == FB!Scan(src)

\* h = HexToAddress(s).
HexToAddressOn(s) ==
  /\ h' = HexToAddress(s)
  /\ call' = <<"HexToAddress", s>>
  /\ err' = FALSE
  /\ UNCHANGED ma

\* ma = NewMixedcaseAddress(h).
NewMixedcaseAddress ==
  /\ ma' = [addr |-> h, original |-> Hex(h)]
  /\ call' = <<"NewMixedcaseAddress", h>>
  /\ err' = FALSE
  /\ UNCHANGED h

\* Mutant: the IsHexAddress test dropped.
NewMixedcaseAddressFromStringUnchecked(s) ==
  /\ ma' = [addr |-> BytesToAddress(FromHex(s)), original |-> s]
  /\ call' = <<"NewMixedcaseAddressFromString", s>>
  /\ err' = FALSE
  /\ UNCHANGED h

\* ma, err = NewMixedcaseAddressFromString(s): a text IsHexAddress refuses
\* is an error and the caller's ma keeps its value.
NewMixedcaseAddressFromString(s) ==
  /\ call' = <<"NewMixedcaseAddressFromString", s>>
  /\ IF IsHexAddress(s)
     THEN ma' = [addr |-> BytesToAddress(FromHex(s)), original |-> s] /\ err' = FALSE
     ELSE err' = TRUE /\ UNCHANGED ma
  /\ UNCHANGED h

\* ma.UnmarshalJSON(s) for the JSON string s: the address is decoded into
\* ma.addr first, and only when that succeeds is original set to s.
UnmarshalJSON(s) ==
  /\ call' = <<"UnmarshalJSON", s>>
  /\ IF FixedTextOK(s, N)
     THEN ma' = [addr |-> DecodePairs(SubSeq(s, 3, Len(s))), original |-> s] /\ err' = FALSE
     ELSE err' = TRUE /\ UNCHANGED ma
  /\ UNCHANGED h

\* The wrapper is saved as JSON and read back.
ReloadJSON == UnmarshalJSON(MarshalJSON(ma))

\* Mutant: the address copied into the head of the hash, not its tail.
AddressHashHead ==
  /\ hh' = [i \in 1..HashN |-> IF i <= N THEN h[i] ELSE 0]
  /\ call' = <<"Address.Hash", h>>
  /\ err' = FALSE
  /\ UNCHANGED <<h, ma>>

\* hh = h.Hash(): BytesToHash(a[:]), the address left-padded with zeros.
AddressHash ==
  /\ hh' = FH!SetBytes(FH!Zero, h)
  /\ call' = <<"Address.Hash", h>>
  /\ err' = FALSE
  /\ UNCHANGED <<h, ma>>

\* h.UnmarshalText(s): hexutil.UnmarshalFixedText("Address", s, a[:]).
AddressUnmarshalText(s) ==
  /\ call' = <<"Address.UnmarshalText", s>>
  /\ IF FixedTextOK(s, N)
     THEN h' = DecodePairs(SubSeq(s, 3, Len(s))) /\ err' = FALSE
     ELSE err' = TRUE /\ UNCHANGED h
  /\ UNCHANGED <<ma, hh>>

\* h.UnmarshalJSON(s): hexutil.UnmarshalFixedJSON(addressT, s, a[:]).
AddressUnmarshalJSON(s) ==
  /\ call' = <<"Address.UnmarshalJSON", s>>
  /\ IF IsQuoted(s) /\ FixedTextOK(Unquote(s), N)
     THEN h' = DecodePairs(SubSeq(Unquote(s), 3, Len(s) - 2)) /\ err' = FALSE
     ELSE err' = TRUE /\ UNCHANGED h
  /\ UNCHANGED <<ma, hh>>

\* (*UnprefixedAddress)(&h).UnmarshalText(s): the prefix is optional.
UnprefixedAddressUnmarshalText(s) ==
  /\ call' = <<"UnprefixedAddress.UnmarshalText", s>>
  /\ IF UnprefixedTextOK(s, N)
     THEN h' = DecodePairs(StripPrefix(s)) /\ err' = FALSE
     ELSE err' = TRUE /\ UNCHANGED h
  /\ UNCHANGED <<ma, hh>>

\* hh.UnmarshalText(s): hexutil.UnmarshalFixedText("Hash", s, h[:]).
HashUnmarshalText(s) ==
  /\ call' = <<"Hash.UnmarshalText", s>>
  /\ IF FixedTextOK(s, HashN)
     THEN hh' = DecodePairs(SubSeq(s, 3, Len(s))) /\ err' = FALSE
     ELSE err' = TRUE /\ UNCHANGED hh
  /\ UNCHANGED <<h, ma>>

\* hh.UnmarshalJSON(s): hexutil.UnmarshalFixedJSON(hashT, s, h[:]).
HashUnmarshalJSON(s) ==
  /\ call' = <<"Hash.UnmarshalJSON", s>>
  /\ IF IsQuoted(s) /\ FixedTextOK(Unquote(s), HashN)
     THEN hh' = DecodePairs(SubSeq(Unquote(s), 3, Len(s) - 2)) /\ err' = FALSE
     ELSE err' = TRUE /\ UNCHANGED hh
  /\ UNCHANGED <<h, ma>>

\* (*UnprefixedHash)(&hh).UnmarshalText(s): the prefix is optional.
UnprefixedHashUnmarshalText(s) ==
  /\ call' = <<"UnprefixedHash.UnmarshalText", s>>
  /\ IF UnprefixedTextOK(s, HashN)
     THEN hh' = DecodePairs(StripPrefix(s)) /\ err' = FALSE
     ELSE err' = TRUE /\ UNCHANGED hh
  /\ UNCHANGED <<h, ma>>

Next ==
  \/ /\ \/ /\ \/ \E b \in FB!Inputs :
                 \/ BytesToAddressOn(b) \/ AddressSetBytes(b) \/ AddressScan(b)
                 \/ BigToAddressOn(FB!BigOf(b))
              \/ AddressScan(NotBytes)
           /\ UNCHANGED ma
        \/ NewMixedcaseAddress \/ ReloadJSON
        \/ \E s \in Texts :
             HexToAddressOn(s) \/ NewMixedcaseAddressFromString(s) \/ UnmarshalJSON(s)
     /\ UNCHANGED <<parsed, hh>>
  \/ /\ \/ AddressHash
        \/ \E s \in UnmarshalTexts(N) :
             AddressUnmarshalText(s) \/ UnprefixedAddressUnmarshalText(s)
        \/ \E s \in UnmarshalTexts(HashN) :
             HashUnmarshalText(s) \/ UnprefixedHashUnmarshalText(s)
        \/ \E s \in JSONTexts(N) : AddressUnmarshalJSON(s)
        \/ \E s \in JSONTexts(HashN) : HashUnmarshalJSON(s)
     /\ UNCHANGED parsed
  \/ PB!Next /\ UNCHANGED <<h, ma, hh>>

Spec == Init /\ [][Next]_vars

\* States differ for later steps only in h and ma: no action reads call,
\* err, parsed or hh, which only the properties read (the action
\* properties on every step TLC takes).  The name of the last call is kept
\* apart for the calls that change only what the view drops or that write
\* h from a text, so that each reaches states of its own.
TextCalls == {"ParseBig256", "Address.Hash", "Address.UnmarshalText",
              "UnprefixedAddress.UnmarshalText", "Hash.UnmarshalText",
              "UnprefixedHash.UnmarshalText", "Address.UnmarshalJSON",
              "Hash.UnmarshalJSON"}
Reachable == <<h, ma, IF call[1] \in TextCalls THEN call[1] ELSE "">>

(***************************************************************************)
(* Properties                                                              *)
(***************************************************************************)
TypeOK ==
  /\ h \in [1..N -> 0..(Radix - 1)]
  /\ ma \in [addr : [1..N -> 0..(Radix - 1)], original : Seq(0..127)]
  /\ err \in BOOLEAN
  /\ parsed \in -(2 ^ Bits - 1)..(2 ^ Bits - 1)
  /\ hh \in [1..HashN -> 0..(Radix - 1)]

\* Spec 4.1: the byte constructors and Scan of FixedBytes, on the Address.
ConstructorsExact == FB!ConstructorsExact

\* Spec 4.1 and its round-trip law: for the address the program holds (h
\* reaches every address), Hex gives 0x and 2N digits that IsHexAddress
\* accepts and HexToAddress decodes back to the address, whose lower-case
\* form is hex.EncodeToString's, and in which a character is upper case
\* exactly when it is a letter a-f whose nibble of Keccak of the
\* lower-case text is above 7.
ChecksumEncoding ==
  LET x == Hex(h)
      l == EncodeToString(h)
  IN /\ IsHexAddress(x) /\ HexToAddress(x) = h
     /\ SubSeq(x, 1, 2) = Prefix0x
     /\ \A i \in 1..2 * N :
          /\ x[i + 2] \in {l[i], l[i] - 32}
          /\ (x[i + 2] \in 65..70 <=> l[i] \in 97..102 /\ HashNibble(Keccak(l), i) >= 8)

\* Spec 4.1 (the wrapper keeps the user's text beside its address): after
\* any sequence of constructors, failed calls and JSON reloads, ma holds a
\* text IsHexAddress accepts (or none yet) and that text denotes ma.addr.
OriginalDenotesAddr ==
  /\ ma.original # <<>> => IsHexAddress(ma.original)
  /\ HexToAddress(ma.original) = ma.addr

\* MarshalJSON "marshals the original value": what it writes is a text
\* UnmarshalJSON accepts and decodes to the same address, and a text with a
\* valid checksum is written unchanged, so it stays valid when read back.
JSONRoundTrip ==
  ma.original # <<>> =>
    LET out == MarshalJSON(ma)
    IN /\ FixedTextOK(out, N)
       /\ DecodePairs(SubSeq(out, 3, Len(out))) = ma.addr
       /\ ValidChecksum(ma) => out = ma.original

\* ParseBig256 answers ok exactly for the empty text and a signed numeral
\* in the base its 0x/0X prefix selects whose magnitude is below 2^Bits,
\* and returns that numeral's value.
ParseBig256Exact == PB!ParseBig256Exact

\* Spec 4.1 (Address.Hash left-pads with zeros): the Hash of the held
\* address has the same Big value, and BytesToAddress of it, which keeps
\* its last AddressLength bytes, gives the address back.
AddressHashExact ==
  [][call'[1] = "Address.Hash" =>
       /\ FH!BigOf(hh') = FB!BigOf(h')
       /\ BytesToAddress(hh') = h']_vars

\* Spec 4.1: "Text/JSON marshal: emits canonical hex (mixed-case for
\* Address, lowercase for Hash)": the text Address.MarshalText writes for
\* the held address, which encoding/json also writes, is its checksum
\* display Hex.
MarshalTextChecksummed == MarshalText(h) = Hex(h)

\* What a fixed-length hex reader into n bytes does with the text s: it
\* accepts exactly 2n hex digits of either case after a 0x or 0X prefix
\* (optional when prefix is FALSE), and then holds the value whose writer
\* gives back those digits in lower case behind pre; otherwise it fails
\* and the value it writes into keeps its old contents.
ReadsBack(s, prefix, n, old, new, Write(_), pre) ==
  LET body == PB!Body(s)
      lower == [i \in 1..Len(body) |-> IF body[i] \in 65..70 THEN body[i] + 32 ELSE body[i]]
      ok == /\ prefix => PB!HasPrefix0x(s)
            /\ Len(body) = 2 * n
            /\ \A i \in 1..Len(body) : body[i] \in PB!Digits(16)
  IN /\ err' = ~ok
     /\ ~ok => new = old
     /\ ok => Write(new) = pre \o lower

\* Spec 4.1 (the text forms of Hash and Address): each UnmarshalText of
\* Address, UnprefixedAddress, Hash and UnprefixedHash accepts exactly the
\* texts hexutil's fixed-length rules allow, leaves the value alone on
\* failure, and on success holds the value that the same type's
\* MarshalText writes back as the text's digits (with "0x" for the
\* prefixed types, none for the unprefixed ones); UnmarshalJSON of Address
\* and Hash does the same with what is inside a JSON string, and refuses
\* any other JSON value.
TextCodecsExact ==
  [][LET c == call'[1]
         s == call'[2]
     IN /\ c = "Address.UnmarshalText" =>
             ReadsBack(s, TRUE, N, h, h', MarshalText, Prefix0x)
        /\ c = "UnprefixedAddress.UnmarshalText" =>
             ReadsBack(s, FALSE, N, h, h', UnprefixedMarshalText, <<>>)
        /\ c = "Hash.UnmarshalText" =>
             ReadsBack(s, TRUE, HashN, hh, hh', HashMarshalText, Prefix0x)
        /\ c = "UnprefixedHash.UnmarshalText" =>
             ReadsBack(s, FALSE, HashN, hh, hh', UnprefixedHashMarshalText, <<>>)
        /\ c = "Address.UnmarshalJSON" =>
             IF IsQuoted(s) THEN ReadsBack(Unquote(s), TRUE, N, h, h', MarshalText, Prefix0x)
             ELSE err' /\ h' = h
        /\ c = "Hash.UnmarshalJSON" =>
             IF IsQuoted(s) THEN ReadsBack(Unquote(s), TRUE, HashN, hh, hh', HashMarshalText, Prefix0x)
             ELSE err' /\ hh' = hh]_vars

=============================================================================
