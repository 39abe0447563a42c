CONSTANTS
  N = 2
  Radix = 256
  Bytes = {0, 10, 185}
  NotBytes = NotBytes
  Keccak <- MCKeccak
  Bits = 4
  BigTexts <- MCBigTexts
  HashN = 3
INIT Init
NEXT Next
VIEW Reachable
INVARIANT TypeOK
INVARIANT ChecksumEncoding
INVARIANT OriginalDenotesAddr
INVARIANT JSONRoundTrip
PROPERTY ConstructorsExact
PROPERTY ParseBig256Exact
PROPERTY AddressHashExact
PROPERTY TextCodecsExact
