CONSTANTS
  kInitRetryDelayMs = 1
  kMaxRetryDelayMs = 3
  retry_ = TRUE
  MaxConnects = 1
  MaxQueue = 3
SPECIFICATION FairSpec
INVARIANTS OneAttempt 
PROPERTIES StopIsFinal ConnectsInTheEnd
