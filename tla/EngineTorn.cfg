SPECIFICATION EngineSpec
CONSTANTS
  NumItems = 3
  OffsetFeb31 = 9
  Keys <- MCKeys3
  Places <- MCPlaces
  NoPlace = NoPlace
  Ops = {"insert", "load"}
  Covers = {FALSE}
  HeadSize = 1
  LoadSizes = {1}
  Values = {v1, v2}
  NoValue = NoValue
  MaxData = 3
  Crashes = "any"
  Fails = FALSE
  Losses = {{}}
PROPERTIES OpenChecks
CHECK_DEADLOCK FALSE
