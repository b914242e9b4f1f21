CONSTANTS
  Threads = {a}
  Addrs = {1, 2}
  Delays = {0, 2}
  Intervals = {0, 2}
  MaxSeq = 2
  MaxTime = 4
SPECIFICATION Spec
INVARIANTS SetsAgree TimerfdArmed FiringDiscipline
PROPERTIES CancelIsExact
CHECK_DEADLOCK FALSE
