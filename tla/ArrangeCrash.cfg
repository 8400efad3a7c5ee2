SPECIFICATION ArrangeSpec
CONSTANTS
  NumItems = 2
  OffsetFeb31 = 9
  Keys <- MCKeys2
  Places <- MCPlaces
  NoPlace = NoPlace
  Ops = {"insert", "load"}
  Covers = {TRUE, FALSE}
  HeadSize = 3
  LoadSizes = {3}
  Values = {v1}
  NoValue = NoValue
  MaxData = 3
  Crashes = "any"
  Fails = FALSE
  Losses = {{}}
INVARIANTS RecordMatches
PROPERTIES OldOrNew
CHECK_DEADLOCK FALSE
