SPECIFICATION EngineSpec
CONSTANTS
  NumItems = 3
  OffsetFeb31 = 9
  Keys <- MCKeys3
  Places <- MCPlaces
  NoPlace = NoPlace
  Ops = {"insert", "delete", "load"}
  Covers = {FALSE}
  HeadSize = 3
  LoadSizes = {3}
  Values = {v1, v2}
  NoValue = NoValue
  MaxData = 3
  Crashes = "idle"
  Fails = FALSE
  Losses = {{}}
PROPERTIES OpenRestores
CHECK_DEADLOCK FALSE
