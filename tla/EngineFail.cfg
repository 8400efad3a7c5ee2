SPECIFICATION EngineSpec
CONSTANTS
  NumItems = 3
  OffsetFeb31 = 9
  Keys <- MCKeys2
  Places <- MCPlaces
  NoPlace = NoPlace
  Ops = {"insert", "delete"}
  Covers = {FALSE}
  HeadSize = 1
  LoadSizes = {}
  Values = {v1}
  NoValue = NoValue
  MaxData = 3
  Crashes = "any"
  Fails = TRUE
  Losses = {{}, {"slots"}, {"horizon"}}
PROPERTIES IsCabinet SolidTold
CHECK_DEADLOCK FALSE
