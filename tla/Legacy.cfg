SPECIFICATION Spec
CONSTANTS
  Signs <- MCSigns4
  Values = {v1}
  PoolSize = 3
  HeadSize = 1
  FreeRoom = 2
  Junk = Junk
  MaxData = 3
  MaxOpens = 3
INVARIANTS LegacyTypeOK PoolApart ShowsOwn
PROPERTIES IsCabinet HaltsOnlyFull
CONSTRAINT NotBehind
CHECK_DEADLOCK FALSE
