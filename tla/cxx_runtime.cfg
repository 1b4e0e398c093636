CONSTANTS
  Objects = {e1, e2, e3}
  Types = {T, U}
  MaxDepth = 3
  MaxPtrs = 2
  Handlers = {f, g}
  MaxThrown = 1
  MaxCalls = 1
  Threads = {t1, t2, t3}
  Encodings = {1, 3}
  MaxIp = 11
  ExTypes = {7, 9, 11}
SPECIFICATION RuntimeSpec
SYMMETRY Symmetry
INVARIANTS
  ObjectsAccounted
  CatchesNest
  LandsInnermost
  BuiltOnceBeforeUse
  TypesFollowCpp
  TablesGiveTheHandler
PROPERTIES
  HandlerOfTheThrow
CHECK_DEADLOCK FALSE
