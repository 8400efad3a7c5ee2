SPECIFICATION Spec
CONSTANTS
  QueueSize = 2
  Timeout = 0
  Workers = {w1}
  Conns = {c1, c2, c3}
  NoConn = NoConn
  Fds = {1, 2}
  MaxTime = 1
  HangUps = {c1}
  Resets = {c2}
INVARIANTS TypeOK JobHasMessage StoredWasSent NotForgotten
PROPERTIES ExitsOnlyFull LostOnlyToTime SleepOnlyWhenIdle 
CHECK_DEADLOCK FALSE
