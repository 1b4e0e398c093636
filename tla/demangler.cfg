CONSTANTS
  Texts = {"a", "b"}
  MaxLen = 4
  MemoryIds = {1, 2, 3, 4, 5, 6, 7, 8}
  Digits = {"0", "1", "f"}
SPECIFICATION DemanglerSpec
INVARIANTS
  NamesTheEntity
  VectorsSound
PROPERTIES
  AreLists
CHECK_DEADLOCK FALSE
