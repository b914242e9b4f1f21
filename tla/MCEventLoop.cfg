CONSTANTS
  Threads = {o, a}
  LoopThread = loop
  Owner = o
  Tasks = {f, g, h}
  EventfdMax = 2
SPECIFICATION MCSpec
INVARIANTS NoLostWakeup PointerIsGood
PROPERTIES FifoExactlyOnce LoopResponds StartAndJoinReturn
CHECK_DEADLOCK FALSE
