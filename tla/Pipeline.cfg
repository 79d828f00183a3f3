CONSTANTS
  c1 = c1  c2 = c2  w1 = w1  w2 = w2
  Captures <- Devices
  Workers <- Threads
  Modes <- AllModes
  PoolSize = 2  QueueSize = 1  AlertQueue = 1
SPECIFICATION FairSpec
INVARIANTS NothingLost EndsClean
PROPERTY ShutdownEnds
CHECK_DEADLOCK FALSE
