CONSTANTS
  N = 3
  Radix = 16
  Bytes = {0, 1, 15}
  NotBytes = NotBytes
INIT Init
NEXT Next
PROPERTY SetBytesExact
