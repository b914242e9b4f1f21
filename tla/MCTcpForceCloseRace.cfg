CONSTANTS
  Uses <- RacyUses
  MaxSends = 2
  MaxQueue = 2
  MsgLen = 2
  HighWaterMark = 3
SPECIFICATION Spec
INVARIANTS DownThenDestroyedOnce
