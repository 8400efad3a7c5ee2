SPECIFICATION Spec
CONSTANTS
  NumItems = 3
  OffsetFeb31 = 9
  Keys <- MCKeys
  Places = {p, q}
  NoPlace = NoPlace
  Ops = {"search", "insert", "delete"}
  Covers = {FALSE}
  HeadSize = 1
  LoadSizes = {}
INVARIANTS TypeOK PoolSafe NoLeak FreeSlotsFit
PROPERTIES IsKeyMap EveryCallEnds
CHECK_DEADLOCK FALSE
