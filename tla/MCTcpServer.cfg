SPECIFICATION FairSpec
CONSTANTS
  MaxThreads = 3
  MaxCalls = 6
  MaxClients = 6
  MaxFds = 3
INVARIANTS Balanced ConnectionsBalance
PROPERTIES ClientsComeAndGo
CHECK_DEADLOCK FALSE
