# TLA+ models of `src/common/types.go`

This directory models the types package of the Fusion (efsn) node, which is
`src/common/types.go`. It covers the following:

- the fixed-length identifiers `Hash` and `Address`;
- the parameter records of the native operations and their `Check` gates;
- the `Asset`, `Ticket`, `TicketSlice` and `Swap` records, with their copy
  and collection methods.

Each module comes with TLC configurations that check it. The ledger that
calls these functions (state database, block processing) is not in the
repository. Where a model needs it, it is the environment, written from the
spec (`spec.md`) and marked `spec_modelled` in `PROJECT.json`.

## The system and how its parts interact

| Part | Code | State it touches | Interaction |
|---|---|---|---|
| Hash / Address | `BytesToHash`, `BigToHash`, `SetBytes`, `Scan`, `Big`, `Address.Hash`, the `MarshalText`/`UnmarshalText`/`UnmarshalJSON` of `Hash`, `Address` and their `Unprefixed` forms (l. 47-157, Address 160-283) | a fixed array of bytes | Every ID of the other parts (`AssetID`, `SwapID`, `Ticket.ID`) is a `Hash`. |
| Operation gate | the `*Param.Check` methods (l. 827-988) | none (pure predicates) | The ledger calls one per transaction with the block timestamp. Swap checks also read the stored `Swap`. |
| Asset | `ToAsset`, `Asset.DeepCopy` (l. 577-611) | `Asset` record, `*big.Int Total` | An accepted GenAsset becomes an Asset, and the ledger copies it. |
| Tickets | `Ticket`, `Ticket.DeepCopy`, `TicketSlice.Add/Delete/DeepCopy/Get`, `ToMap` (not modelled), `Len/Less/Swap`, the `TicketStructSlice` conversions, `SetWeight` (l. 646-768) | slice header, backing array, `*big.Int` fields | The ledger keeps one slice, reassigns it after each call, sorts it and takes deep copies of it. |
| Quantity text | `ParseBig256` (l. 407-424) | none (a pure function) | Parses a decimal or `0x` hex quantity with a 256-bit limit. Nothing in this file calls it. |
| Swaps | `Swap`, `Swap.DeepCopy` (l. 771-812) | `Swap` record, its `Targes` slice | These are stored by the ledger after MakeSwap and read by TakeSwap and RecallSwap. |

The copies matter because the ledger later changes a stored record's
integers in place (`z.Add(z, y)`, `z.Sub(z, y)`). Whether that write reaches
a copy depends on what the copy shares: the `*big.Int` pointer, or only the
word array under it.

Some behaviours are hard to test:

- **uint64/int64 wrap-around** in `BuyTicketParam.Check`.
- **Boundaries of time windows**: a timestamp equal to an end time.
- **Sequences of partial takes** against one swap.
- **Go slice aliasing**:
  - `append` into spare capacity;
  - `append(s[:i], s[i+1:]...)` shifting in place;
  - struct copies that share `*big.Int` pointers.
- **Stale bytes** left by `SetBytes` on a non-zero value.

## Modules

### `FixedBytes`: Hash and Address

- **State:** `h` holds N bytes, `call` is the last call, and `err` is its error.
- **Actions:**
  - `BytesToHash` (l. 52-56);
  - `BigToHash` (l. 60, where `BigBytes` is `b.Bytes()`);
  - `SetBytesOn`, which is `h.SetBytes(b)` on the current value (l. 110-116);
  - `Scan` (l. 128-138, with a non-`[]byte` source as the model value `NotBytes`).
- **Helpers:**
  - The operator `SetBytes` is lines 110-116: crop from the left, then copy into the tail.
  - `BigOf` is `Hash.Big` (l. 70), a fold over the bytes.
- **Address:** the Address functions are the same code with `AddressLength`, so the module's `N` stands for either length.

### `Checksum`: address text, composed with `FixedBytes`

- **Composition:** `FB == INSTANCE FixedBytes` shares `h`, `call` and `err`. `h` is the Address the program holds. `BytesToAddressOn` (165-169), `BigToAddressOn` (173), `AddressSetBytes` (232-237) and `AddressScan` (255-265) are FixedBytes' actions on it, since the code is Hash's with `AddressLength`. They leave the wrapper unchanged. `call` and `err` record the last call of any part.
- **The Hash beside the Address:** `FH == INSTANCE FixedBytes WITH N <- HashN, h <- hh` is a second FixedBytes of width `HashN`. Its bytes `hh` are the Hash the program holds. `AddressHash` is `a.Hash()` (195): `BytesToHash(a[:])`, which pads the address on the left.
- **Strings:** a string is a sequence of ASCII codes, so `result[i] > '9'` and `result[i] -= 32` are kept as the code writes them. `EncodeToString` is `hex.EncodeToString`.
- **Keccak256:** the constant operator `Keccak(_)`. The MC module gives a mixing function under which the nine addresses get every combination of nibbles above and below 8.
- **Operators:**
  - `Hex` (l. 198-217), with `HashNibble` for `hash[i/2] >> 4` or `& 0xf` (205-210);
  - `IsHexAddress` (181-186) and `HexToAddress` (177);
  - `ValidChecksum` (336-338) and `MarshalJSON` (315-320).
- **Written from spec 4.1** (not under `src/`):
  - `FromHex`, `hasHexPrefix` and `isHex`;
  - `FixedTextOK(s, n)`, hexutil's `UnmarshalFixedText` into n bytes, with the prefix required;
  - `UnprefixedTextOK(s, n)`, `UnmarshalFixedUnprefixedText`, with the prefix optional;
  - `IsQuoted` and `Unquote`, the JSON-string test of `UnmarshalFixedJSON`.
- **Writers:** `MarshalText` (240-242) and `HashMarshalText` (104-106) write `0x` and lowercase hex. `UnprefixedMarshalText` (281-283) and `UnprefixedHashMarshalText` (154-156) write the hex alone.
- **State:** `ma` is the `MixedcaseAddress` `[addr, original]`, starting as Go's zero value.
- **Actions:**
  - `HexToAddressOn` sets `h` from a text.
  - `NewMixedcaseAddress` (293-295) wraps `h`.
  - `NewMixedcaseAddressFromString` (298-304) leaves `ma` unchanged on a text `IsHexAddress` refuses.
  - `UnmarshalJSON` (307-312) sets `original` only when the decode succeeded.
  - `ReloadJSON` is a save and load: `UnmarshalJSON(MarshalJSON(ma))`.
  - The readers of `h` and `hh`:
    - `AddressUnmarshalText` (245-247) and `UnprefixedAddressUnmarshalText` (276-278);
    - `HashUnmarshalText` (94-96) and `UnprefixedHashUnmarshalText` (149-151);
    - `AddressUnmarshalJSON` (250-252) and `HashUnmarshalJSON` (99-101).
  - Each reader writes only after the whole text has passed. A failure leaves the value unchanged.
- **Inputs (`Texts`):** for every address:
  - its lowercase, all-uppercase and checksum casings, and the checksum casing with one letter flipped;
  - each of these with no prefix, `0x` or `0X`;
  - a text one digit short, and one with a `g`.
- **Inputs of the readers:**
  - `UnmarshalTexts(n)` has the all-equal values over the least and greatest byte, in lower and upper case, with each prefix. It adds, with the prefix, a text one byte short, one of odd length, and one with a `g`.
  - `JSONTexts(n)` has a valid text and one a digit short, both quoted, and the valid text without quotes.
- **Composition with `ParseBig`:** `PB == INSTANCE ParseBig` shares `call` and `err` and adds `parsed`. A parse leaves `h` and `ma` unchanged, and the address actions leave `parsed` unchanged.
- **VIEW `Reachable`:** `h`, `ma`, and the name of the last call when that call is in `TextCalls`.
  - No action reads `call`, `err`, `parsed` or `hh`; only properties read them.
  - `TextCalls` holds the calls that change only what the view drops, and the readers that write `h` from a text. Keeping their names gives each of these calls states of its own.
  - The action properties are checked on every step TLC takes, including steps into a state already seen.

### `ParseBig`: `ParseBig256`

- **Operator `ParseBig256`** (l. 409-424):
  - the empty text gives 0 and true;
  - `0x` or `0X` (`HasPrefix0x`, l. 416) selects `SetString(s[2:], 16)`, and anything else `SetString(s, 10)`;
  - a result with `BitLen() > Bits` is nil and false. `Bits` stands for 256.
- **Written from math/big** (not under `src/`):
  - `SetString` with an explicit base takes an optional `+` or `-`, then one or more digits of the base (letters in either case for 16), and nothing after them;
  - `BitLen` counts the bits of the magnitude;
  - `DigitValue` gives the scanner's digit values.
- **State and action:** `parsed` is the returned integer (0 for nil), and `err` is `!ok`. `ParseBig256On(s)` is one call.
- **Reference:** `Denotes` and `ValueOf` read the text as the function's comment describes it: a signed numeral of the base, valued by a positional sum, not by the scanner's Horner loop.

### `BuyTicket`: ticket purchase gate

- **What it models:** `BuyTicketParam.Check` (l. 876-893) at a word width of W bits, where `AddU64` and `ToU64` are the wrapping `+` and the `uint64(...)` conversion.
- **Reference:** `BuyTicketSpec` is the rule of spec 4.3 over the integers.
- **Constants:** the 30-day, 3-hour and 7-day constants are scaled down to `MinLife`, `FutureSlack` and `MinRemain`. What the check does depends only on how these compare and on how close a sum gets to 2^W.
- **Behaviour:** one transaction is chosen in `Init` and validated once.

### `OpGate`: asset and value gates

- **What it models:** the checks of GenAsset (l. 831-849), SendAsset (851-859), TimeLock (861-874), AssetValueChange (895-900) and AssetValueChangeEx (902-910). It also models `ToAsset` (577-586) and `Asset.DeepCopy` (600-611).
- **Abstractions:**
  - a string is its length;
  - an address is zero or not;
  - a `*big.Int` is `Nil` or an integer.
- **Actions:**
  - `Validate` dispatches the transaction to its check and stores an accepted GenAsset as an Asset.
  - `CopyAsset` is the ledger duplicating it.
- **Reference:** `SpecAccepts` holds the rules of spec 4.2 and 4.4.

### `Gate`: the two one-shot gates, composed

- **Composition:** `OG == INSTANCE OpGate` and `BT == INSTANCE BuyTicket` share the block `timestamp` and the `verdict`.
- **Init:** a behaviour validates either an asset or value operation (`op`) or a ticket purchase (`param`). The other component's variables hold `NoOp` or `NoTicket`.
- **Actions:** `AssetStep` and `TicketStep` are the ledger's dispatch (spec 2, `spec_modelled`). They pass the transaction through the envelope's `FSNCallParamCheck`, which is `FSNCallParam.Check` (l. 827-829) and returns nil. They then take a step of the component that owns the transaction.
- **Properties:** `GateMatchesSpec` and `CheckMatchesSpec` are the components' properties, restricted to the behaviours of each component.
- **Configs:** the run `gate` uses `MC_Gate.cfg`. The violation runs of each component still use `MC_OpGate` and `MC_BuyTicket`.

### `SwapGate`: swap gates and the swap ledger

- **What it models:** `MakeSwapParam.Check`, `RecallSwapParam.Check` and `TakeSwapParam.Check` (l. 912-988). The conjuncts keep the order of the code's early returns.
- **Ledger (spec 4.4):**
  - `MakeSwap` stores the swap;
  - `TakeSwap` lowers `SwapSize` and deletes the swap at 0;
  - `RecallSwap` deletes it;
  - `Tick` advances the block timestamp.
- **History variables:** `status`, `offered` and `taken` record what happened, for the properties.

### `TicketCollection`: abstract specification

- **What it is:** what a ticket collection promises (spec 4.3), as a sequence of ticket values.
  - `Add` appends a new ID.
  - `Delete` removes the first ticket with the ID and keeps the order of the rest.
  - Setting a field changes that ticket only.
  - `Get` finds a ticket by ID and changes nothing.
  - `Sort` orders the tickets by ID, an unsigned integer (`SortSeq`).
- **`op`:** names the ID the last call was about, so that a refinement ties each concrete call to its abstract one.

### `TicketSlice`: the slice at memory level

- **State:**
  - `cells` is a heap of `big.Int` values.
  - `arrays` holds the backing arrays of Ticket slots, whose `Value` and `Weight` are pointers into `cells`.
  - `live` and `snap` are slice headers `[arr, len, cap]`.
- **Actions:**
  - `Add` (l. 755-758) is `append` into spare capacity or into a new array of twice the capacity. A Ticket is 96 bytes, so Go's growth is exact doubling.
  - `Delete` (760-768) shifts in place.
  - `DeepCopy` (735-744) makes a new array of capacity `len` with the structs copied.
  - `SetWeight` (676-678) replaces the pointer.
  - `SetValueInPlace` is the ledger writing a stored ticket's Value through its pointer. Spec 5 says copies must survive this.
  - `ConvertCopy` (693-711) is `ToTicketStructSlice().ToTicketSlice()`: two arrays of capacity `len`, the second kept, the struct pointers unchanged.
  - `SortLive` is `sort.Sort` on the live slice through `Len`, `Less` and `Swap` (713-725). For at most 12 elements Go runs insertion sort, written as the recursive `Sift` and `InsertionSort`. `Less` parses `ID.Hex()` with `SetString(_, 0)`, which gives the Hash's unsigned value, so an ID is that integer.
  - `GetSetWeight` (746-753) is `SetWeight` through the pointer `Get` returns. That pointer is `&t` of the range loop's copy, so the slot keeps its old weight, and the refinement maps the step to the abstract `Get`, which changes nothing.
- **Refinement:** `Deref` reads a header through its pointers. `INSTANCE TicketCollection WITH tickets <- Deref(live), op <- lastOp` is the refinement.
- **VIEW `Reachable`:** it drops unreachable arrays and cells and the history variable `lastOp`, which no step reads.

### `BigCopy`: deep copies at the level of `math/big`

- **State:**
  - `ints` holds the `big.Int` structs, each an `abs` header `[arr, len]`.
  - `arrays` holds the word arrays, least significant word first; an array's length is its capacity.
  - `ptr` maps the original (`orig`) and the copy (`dup`) to a pointer for each integer field.
  - `tslices` and `targes` hold the Swap's `Targes` arrays.
  - `kind` is the record a behaviour copies, chosen in `Init`.
  - `want` and `wantT` are history: what the arithmetic done through each record gave it.
- **Copy actions:**
  - `AssetDeepCopy` (600-611), `TicketDeepCopy` (656-673, reading the weight through `Weight`, 681-683) and `SwapDeepCopy` (788-812).
  - `CopyInts` is `x := *f; &x`: a new struct holding the original's header, so the two share words.
  - Ticket's weight is the original's pointer (`&*w` is `w`), or a fresh zero Int when it is nil.
  - Swap's Targes go into a new array, as `make` + `copy` do.
- **Ledger actions** (spec 5, `spec_modelled`): `Add`, `Sub` and `SetTarget` change an integer or a target of either record in place.
- **`math/big` helpers:** `Write`, `AddWidth`, `NewCap`, `Digits` and `WordsVal` model `nat.make`, `nat.add`, `nat.sub` and `nat.norm`:
  - a result reuses `z`'s array when it fits its capacity, and otherwise gets a new array with 4 spare words;
  - `add` writes max+1 words, or copies the other operand when one is zero;
  - `sub` writes len(z) words;
  - `norm` trims leading zero words.

  These are the standard library, not this repository, so they have no entry in the map.
- **VIEW `Reachable`:** it keeps what later steps can read (each field's value, len and cap, which fields share a struct or an array, the Targes, the history) and drops garbage arrays and the `writes` counter.

## Runs

| Run | Checks | Shows |
|---|---|---|
| `swapgate` | TypeOK, SizeConserved, Serviceable | Over every make, partial take, recall and tick, the checks keep size conserved. Every stored swap stays recallable and takeable while live. |
| `buyticket_dryrun` (violation) | CheckMatchesSpec | With timestamp 0 only the lifetime test runs, and `start+30 days` wraps. Start 44 and End 45 (W = 6) is accepted. |
| `ticketslice` | TypeOK, SnapshotShapeStable, LiveRefines | The live slice refines `TicketCollection` through growth, shared-array shifts, in-place sorting and pointer replacement. A DeepCopy or a `TicketStructSlice` round trip keeps its own IDs, order and weights. |
| `ticketslice_alias` (violation) | SnapshotIndependent | The ledger copies with DeepCopy alone (`DeepCopyNext` of `MC_TicketSlice`, every call but the `TicketStructSlice` round trip). After Add, DeepCopy (l. 735-744) and an in-place Value write, the copy shows the new Value: DeepCopy shares the `*big.Int` pointers. The round trip (l. 693-711) shares them in the same way. |
| `address` | TypeOK, ChecksumEncoding, OriginalDenotesAddr, JSONRoundTrip, ConstructorsExact, ParseBig256Exact, AddressHashExact, TextCodecsExact | Over every interleaving of the byte constructors, Scan, HexToAddress, the text readers, the wrapper's constructors, UnmarshalJSON and reloads: the constructors right-align and crop, and a failed Scan writes nothing. `Address.Hash` pads the address into the tail of the Hash, which keeps its `Big` value and crops back to the address. Each of the six text and JSON readers of Address, Hash and their unprefixed forms accepts exactly hexutil's texts (prefix required or optional, length, digits of either case, a JSON string). A reader that succeeds holds the value its type's `MarshalText` writes back as the text's digits in lower case. `Hex(h)` is the EIP-55 casing, accepted by `IsHexAddress` and decoded back to `h`. The wrapper's text always denotes its address. `MarshalJSON` writes a text that reads back to the same address, and a valid checksum text unchanged. Every `ParseBig256` call answers exactly as the reference does, on both sides of the bit limit, with `0X`, an empty body, signs and misplaced prefixes. |
| `address_marshaltext` (violation) | MarshalTextChecksummed | Spec 4.1 says an Address marshals to its mixed-case checksum text. `Address.MarshalText` (l. 240-242) writes lowercase through `hexutil.Bytes`, and `encoding/json` uses it. After one `BytesToAddress` to 0x000a, `Hex` upper-cases the `a` (under the stand-in Keccak), while `MarshalText` writes `0x000a`. |
| `fixedbytes_setbytes` (violation) | SetBytesExact | `SetBytes(<<>>)` on a non-zero Hash keeps the old bytes, contrary to its comment. |
| `gate` | GateMatchesSpec, CheckMatchesSpec | Every asset and value check matches the spec at each length bound (64/128/256/1024 ±1), Decimals 18/19, value -1/0/1/nil, zero receiver and `EndTime = timestamp`. With a real block timestamp, the BuyTicket check at machine width accepts exactly the spec's tickets for every Start, End and adjust in {-2, 0, 2}. 1,117,008 states, about 11 s. |
| `opgate_totalzero` (violation) | GateMatchesSpec | GenAsset with Total 0 is accepted, while spec 4.2 and 8 reject it. |
| `opgate_assetcopy` (violation) | AssetCopyFaithful | `Asset.DeepCopy` leaves out Description. |
| `bigcopy` | TypeOK, TargesIndependent | For each record kind, whatever in-place arithmetic came before, DeepCopy leaves every by-value integer of the copy non-nil. A Swap copy gets its own Targes, so a target written in one never shows in the other. |
| `bigcopy_alias` (violation) | IntsIndependent | Copy an Asset with Total 1, then `Sub(1)` the original in place: the write fits the shared word, and the copy reads 0 (and is left non-normalized). Ticket and Swap integers share words the same way, and a Ticket's weight is the very same pointer. |

Each property of a passing run has a mutant in `PROJECT.json`. A mutant is a plausible bug in the mapped code, for example:

- a dropped size bound;
- a `<` for `<=`;
- a missing guard;
- the receiver returned as its own copy.

TLC finds each property violated when its mutant replaces the code.

## Bounds and why they suffice

- **SwapGate:**
  - One swap ID, because no check or ledger step reads two swaps.
  - Amounts 0..2 plus nil, so a partial take (1 of 2) and a full take both exist.
  - Times 0..3, so a swap can be made, partly taken and then expire.
  - Description lengths 1024 and 1025.
- **BuyTicket:**
  - W = 6 with MinLife 20, FutureSlack 2 and MinRemain 6.
  - These keep the real order MinLife > MinRemain > FutureSlack.
  - `start + MinLife` (l. 879) reaches past 2^W, so the lifetime test wraps as the 64-bit one does; run `buyticket_dryrun` shows it.
  - The timestamps of run `gate` stay below 2^W - FutureSlack - MinLife and `adjust` stays above -MinRemain, so the sums at l. 884 and l. 888 never wrap. A wrap there would need a block timestamp or an `adjust` no chain produces.
  - All 4096 (Start, End) pairs are checked.
- **OpGate:** every bound of the code appears with its neighbour on each side.
- **Gate:** the OpGate and BuyTicket bounds above, side by side. The two parts share no input but the timestamp, so their sum is the union of the two state spaces.
- **TicketSlice:**
  - Three IDs (the integers 1-3, so `Less` orders them) and two values. Three tickets make insertion sort move an element by two places.
  - Four array allocations are enough for one growth from cap 1 to 2 to 4 plus a DeepCopy.
  - Three cell allocations: three tickets, or two tickets and a weight pointer replaced. In-place Value writes allocate nothing, so they reach full three-ticket slices. A fourth cell multiplies the states by seven (161,000, about 2.5 minutes) and was checked once by hand with the same result.
  - About 21,600 distinct states.
- **BigCopy:**
  - Words of radix 2 and values up to 7, so an integer has zero to three words.
  - Initial values 1 and 5 (one and three words) and operands 1 and 2, so an Add can fit the array, fit its spare capacity or need a new array, and a Sub can shrink an integer.
  - An Asset starts with up to one spare word and gets up to 12 writes.
  - A Ticket or a Swap has three or four integers, so it starts exactly full and gets two writes. That is one write through each record after the copy, which is what the aliasing needs.
  - A Swap has one target and two addresses.
  - A ticket's weight is set (`NilWeight = FALSE`). `Ticket.Weight()` (l. 681-683) only returns the field, so a ticket whose weight was never set has a nil weight, and its copy gets a fresh 0 (l. 660). The spec asks for independent storage, not that nil stays nil, so no run checks it; the hazard at l. 660 records it.
- **Checksum (run `address`):**
  - N = 2 bytes of radix 256 over {0x00, 0x0a, 0xb9}.
  - Each address has a letter at an even index, a letter at an odd index and digits.
  - FixedBytes inputs of up to 3 bytes, so cropping happens.
  - `ParseBig256` is given 83 texts, with `Bits = 4`:
    - every prefix (none, `0x`, `0X`) with every sign (none, `-`, `+`);
    - before a body of: nothing, `7`, `15`, `16`, `10`, `010`, `f`, `F` or `g`;
    - plus `-0x1` and `0x0x1`.
  - The bodies sit on both sides of the limit in each base: 15 and 16 in decimal, `f` and `10` in hex.
  - The Hash is `HashN = 3` bytes, one more than the Address, so `Address.Hash` pads and `BytesToAddress` of a Hash crops.
  - The readers get the all-zero and all-0xb9 values, in lower and upper case, with each prefix, plus one text each that is too short, of odd length, or has a bad digit. The JSON readers get a quoted valid text, a quoted short text and an unquoted one. Every outcome of `checkText` and the length and digit tests of hexutil is reached, for both widths.
  - 7,236 distinct states, about a minute.
- **FixedBytes (run `fixedbytes_setbytes`):**
  - N = 3 bytes with radix 16, because TLC's integers are 32-bit.
  - Inputs run up to N+1 bytes, so cropping happens.
  - Byte values are {0, 1, 15}: zero, low and high.

## Fairness

No liveness property is checked and no fairness is assumed. Every action is:

- a transaction a user may or may not send;
- a block the chain may or may not produce;
- a call the ledger makes when it chooses.

Nothing in this code obliges any of them to happen.

## Not modelled, and why

- **`MixedcaseAddress.String`, `Original` and `Address`:** these only read the wrapper.
- **`Address.SetBytes`'s comment** says a too long input panics. The code (l. 233-235) crops it from the left, as Hash's does, and the model follows the code. No caller in the file depends on a panic, so this is not checked as a finding.
- **Address's text form is lowercase:** spec 4.1 says an Address marshals to mixed-case hex, and the code writes lowercase. This is a finding of the run `address_marshaltext`. The model writes what the code writes, and `TextCodecsExact` pins that form.
- **The prefix across the text types:** `UnprefixedAddress`/`UnprefixedHash` write no `0x`, and `Address`/`Hash.UnmarshalText` refuse a text without it. A value written by the unprefixed type cannot be read back by the prefixed one, though the reverse works. `TextCodecsExact` pins both readers' exact languages, and the hazard at l. 277 records the asymmetry.
- **Checksum and the prefix:**
  - `ValidChecksum` compares with `Hex`, which always writes `0x`.
  - A checksum-cased text given with no prefix or with `0X` is therefore reported invalid.
  - After a JSON save and load, the same text becomes valid, because `MarshalJSON` writes `0x`.
  - The model reaches this. Spec 4.1 does not say whether the prefix is part of the "case", so no property states it. It is listed as a hazard at l. 316.
- **Signed quantities:** `ParseBig256("-1")` returns -1 and true, because `SetString` takes a sign. Spec section 2 calls quantities non-negative. The file has no caller that could refuse the result, so this is a hazard (l. 418), not a finding.
- **Duplicate IDs:** `Add` does not refuse an ID already present. The model keeps the ledger's uniqueness rule (spec 4.3) as a guard of `Add`. `ToMap` (l. 727-733) keeps the last slot with an ID while `Get` finds the first, so they disagree only on duplicates; `ToMap` changes no state and is not modelled, and the hazard at l. 730 records the disagreement.
- **Pure I/O or constants:**
  - `ToBytes` (rlp, an external encoder);
  - `Asset.MarshalJSON`, which only formats;
  - `Format`, `String` and `TerminalString`;
  - `Generate` (a test helper);
  - `KeyValue`, `TicketPrice`, the reserved addresses, the storage keys and the `AutoBuyTicketChan` declaration.

## Plan for later work

1. **`Swap.DeepCopy` on a swap with a nil `Time`:** the copy dereferences `Time` (l. 792), which `MakeSwapParam.Check` never tests. `BigCopy` could let that field start nil, as `NilWeight` does for a ticket (hazard at l. 792).
2. **The reserved key addresses** (l. 354-357) need a 20-byte address, beyond the address run's width.
