SPECIFICATION Spec
CONSTANTS
  NumItems = 3
  OffsetFeb31 = 9
  Keys <- MCKeys3
  Places = {p, q}
  NoPlace = NoPlace
  Ops = {"search", "insert", "delete"}
  Covers = {TRUE, FALSE}
  HeadSize = 1
  LoadSizes = {}
INVARIANTS PoolSafe
PROPERTIES IsKeyMap DropsOnlyBelow
CHECK_DEADLOCK FALSE
