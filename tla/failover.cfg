CONSTANTS
  Entry = {"a", "b"}
  Static <- StaticDef
  Request = {r1, r2}
  r1 = r1
  r2 = r2
  MaxAttempts = 2
  CursorSize = 3
  MaxFlips = 1
SPECIFICATION FairSpec
INVARIANTS TypeOK NoneMeansNone GoneHeldByHolders FailoverMovesOn EveryEndCounted
PROPERTY RequestEnds
CHECK_DEADLOCK FALSE
