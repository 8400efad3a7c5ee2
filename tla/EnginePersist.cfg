SPECIFICATION EngineSpec
CONSTANTS
  NumItems = 3
  OffsetFeb31 = 9
  Keys <- MCKeys2
  Places <- MCPlaces
  NoPlace = NoPlace
  Ops = {"insert", "load"}
  Covers = {TRUE, FALSE}
  HeadSize = 3
  LoadSizes = {3}
  Values = {v1, v2}
  NoValue = NoValue
  MaxData = 3
  Crashes = "any"
  Fails = TRUE
  Losses = {{}, {"horizon"}}
INVARIANTS EngineTypeOK HoleOrOwn NoOverlap
PROPERTIES IsCabinet
CHECK_DEADLOCK FALSE
