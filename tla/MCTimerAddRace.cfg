CONSTANTS
  Threads = {a}
  Addrs = {1, 2}
  Delays = {0, 2}
  Intervals = {0, 2}
  MaxSeq = 2
  MaxTime = 4
SPECIFICATION Spec
INVARIANTS AddTimerReadsLiveTimer
CHECK_DEADLOCK FALSE
