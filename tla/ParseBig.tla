------------------------------ MODULE ParseBig ------------------------------
(***************************************************************************)
(* ParseBig256 of src/common/types.go: a text in decimal, or in            *)
(* hexadecimal after a 0x or 0X prefix, parsed with big.Int.SetString and *)
(* refused when its magnitude needs more than 256 bits.                    *)
(*                                                                         *)
(* The 256-bit limit is the constant Bits (scaled down, so that TLC's      *)
(* integers hold every value on either side of it).  A text is a sequence  *)
(* of ASCII codes.  SetString with an explicit base is math/big's, not in  *)
(* src/: an optional + or -, then one or more digits of the base           *)
(* (letters of either case for 16) and nothing after them; on failure it   *)
(* returns nil and false.                                                  *)
(*                                                                         *)
(* call and err are shared with the modules that compose this one: the    *)
(* last call and whether it failed (ParseBig256's ok is ~err).             *)
(***************************************************************************)
EXTENDS Integers, Sequences, SequencesExt

CONSTANTS
  Bits,      \* the bit limit ParseBig256 enforces (256 in the code)
  BigTexts   \* the texts given to ParseBig256

VARIABLES
  parsed,  \* the *big.Int ParseBig256 returned, 0 when it returned nil
  call, err

CPlus  == 43
CMinus == 45

\* The value of an ASCII digit in math/big's scanner (0-9, then a-z and
\* A-Z from 10); anything else is above every base.
DigitValue(c) ==
  CASE c \in 48..57  -> c - 48
    [] c \in 97..122 -> c - 87
    [] c \in 65..90  -> c - 55
    [] OTHER         -> 99

\* x.BitLen(): the bits of |x|.
RECURSIVE BitLen(_)
BitLen(x) == IF x = 0 THEN 0 ELSE IF x < 0 THEN BitLen(-x) ELSE 1 + BitLen(x \div 2)

\* new(big.Int).SetString(t, base) for base 10 or 16, as [ok, val].
SetString(t, base) ==
  LET d   == IF Len(t) > 0 /\ t[1] \in {CPlus, CMinus} THEN Tail(t) ELSE t
      mag == FoldLeft(LAMBDA acc, c : acc * base + DigitValue(c), 0, d)
  IN IF Len(d) > 0 /\ \A i \in 1..Len(d) : DigitValue(d[i]) < base
     THEN [ok |-> TRUE, val |-> IF t[1] = CMinus THEN -mag ELSE mag]
     ELSE [ok |-> FALSE, val |-> 0]

HasPrefix0x(s) == Len(s) >= 2 /\ s[1] = 48 /\ s[2] \in {88, 120}

\* Mutant: BitLen() >= 256 refused, one bit short.
ParseBig256OneBitShort(s) ==
  IF s = <<>> THEN [ok |-> TRUE, val |-> 0]
  ELSE LET r == IF HasPrefix0x(s) THEN SetString(SubSeq(s, 3, Len(s)), 16)
                ELSE SetString(s, 10)
       IN IF r.ok /\ BitLen(r.val) >= Bits THEN [ok |-> FALSE, val |-> 0] ELSE r

\* ParseBig256(s): "" is zero; 0x or 0X selects base 16 for the rest, else
\* base 10; a result of more than Bits bits is nil and false.
ParseBig256(s) ==
  IF s = <<>> THEN [ok |-> TRUE, val |-> 0]
  ELSE LET r == IF HasPrefix0x(s) THEN SetString(SubSeq(s, 3, Len(s)), 16)
                ELSE SetString(s, 10)
       IN IF r.ok /\ BitLen(r.val) > Bits THEN [ok |-> FALSE, val |-> 0] ELSE r

Init ==
  /\ parsed = 0
  /\ call = <<"none", <<>>>>
  /\ err = FALSE

\* v, ok := ParseBig256(s).
ParseBig256On(s) ==
  /\ parsed' = ParseBig256(s).val
  /\ err' = ~ParseBig256(s).ok
  /\ call' = <<"ParseBig256", s>>

Next == \E s \in BigTexts : ParseBig256On(s)

Spec == Init /\ [][Next]_<<parsed, call, err>>

(***************************************************************************)
(* The reference: what the function's comment says it parses, with the    *)
(* sign SetString takes.  A numeral is one or more digits of the base; its *)
(* value is the positional sum, independent of the scanner's Horner loop.  *)
(***************************************************************************)
Digits(base) == IF base = 10 THEN 48..57 ELSE (48..57) \cup (65..70) \cup (97..102)
Numeral(t, base) == Len(t) > 0 /\ \A i \in 1..Len(t) : t[i] \in Digits(base)
Positional(t, base) ==
  FoldFunction(LAMBDA x, y : x + y, 0, [i \in DOMAIN t |-> DigitValue(t[i]) * base ^ (Len(t) - i)])

\* The text after the prefix, the base it is read in, and its sign.
Body(s) == IF HasPrefix0x(s) THEN SubSeq(s, 3, Len(s)) ELSE s
Base(s) == IF HasPrefix0x(s) THEN 16 ELSE 10
Unsigned(s) ==
  IF Len(Body(s)) > 0 /\ Body(s)[1] \in {CPlus, CMinus} THEN Tail(Body(s)) ELSE Body(s)

\* Whether s denotes an integer of at most Bits bits, and that integer.
Denotes(s) ==
  \/ s = <<>>
  \/ /\ Numeral(Unsigned(s), Base(s))
     /\ Positional(Unsigned(s), Base(s)) < 2 ^ Bits
ValueOf(s) ==
  IF s = <<>> THEN 0
  ELSE IF Body(s)[1] = CMinus THEN -Positional(Unsigned(s), Base(s))
  ELSE Positional(Unsigned(s), Base(s))

(***************************************************************************)
(* Properties                                                              *)
(***************************************************************************)
\* Every ParseBig256 call answers ok exactly for the empty text and a
\* (signed) numeral in the base its prefix selects whose magnitude is below
\* 2^Bits, and then returns that numeral's value: the 0X prefix, the empty
\* body after a prefix, leading zeros and the values on both sides of the
\* bit limit included.
ParseBig256Exact ==
  [][call'[1] = "ParseBig256" =>
       /\ (~err' <=> Denotes(call'[2]))
       /\ (~err' => parsed' = ValueOf(call'[2]))]_<<parsed, call, err>>

====
