SPECIFICATION MCSpec
CONSTANTS
  w1 = w1
  w2 = w2
  p1 = p1
  p2 = p2
  Nobody = nobody
  Owner = p1
  Child = w1
  NoThread = nobody
  Workers <- MCWorkers
  Producers <- MCProducers
  Waiters <- MCWorkers
  Counters <- MCProducers
  maxQueueSize_ = 2
  MaxTasks = 3
  Items = 3
  AsyncLines = 10
INVARIANTS QueuesAreFifo LinesAccountedFor LatchIsExact ObjectOutlivesUse
PROPERTIES NoWakeupIsLost LinesReachDisk
CHECK_DEADLOCK FALSE
