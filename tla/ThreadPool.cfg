SPECIFICATION FairSpec
CONSTANTS
  Thread = {t1, t2, t3}
  MinThreads = 1
  MaxThreads = 2
  QueueFactor = 1
  MaxItems = 5
  MayBlock = TRUE
  None = None
INVARIANTS PoolBounds AliveListed NothingAbandoned
PROPERTY QueueDrains
CHECK_DEADLOCK FALSE
