\* strtol with a long of 5 bits: -16..15.  Characters: blank - 0 1 7 a x
CONSTANTS
  FileBuffer = 6
  StringBytes = {65, 97, 200}
  StringLen = 3
  BufferSize = 4
  NumberBytes = {32, 45, 48, 49, 55, 97, 120}
  NumberLen = 5
  Bases = {0, 8, 10, 16}
  LongBits = 5
  LineChars = {32, 9, 97, 98}
  Delims = {32, 9}
  LineLen = 5
  BootSize = 8
  MainSize = 16
  Requests = {1, 4}
  MaxLive = 3
  WordBits = 8
  significandBits = 2
  exponentBits = 4
  IntBits = 8
  MaxScale = 12
SPECIFICATION Spec
INVARIANTS
  PrintfFollowsC
  TextFollowsC
  HeapSound
  IntegersExact
  FloatsRound
PROPERTIES
  KeepsStorePromise
CHECK_DEADLOCK FALSE
