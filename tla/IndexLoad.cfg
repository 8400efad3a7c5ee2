SPECIFICATION Spec
CONSTANTS
  NumItems = 4
  OffsetFeb31 = 9
  Keys <- MCKeys
  Places = {p}
  NoPlace = NoPlace
  Ops = {"search", "insert", "load"}
  Covers = {FALSE}
  HeadSize = 2
  LoadSizes = {1, 2}
PROPERTIES IsKeyMap EveryCallEnds
CHECK_DEADLOCK FALSE
