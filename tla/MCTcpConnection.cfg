CONSTANTS
  Uses <- SafeUses
  MaxSends = 2
  MaxQueue = 2
  MsgLen = 2
  HighWaterMark = 3
SPECIFICATION FairSpec
INVARIANTS DownThenDestroyedOnce ConnectionAssertionsHold StreamInOrder
PROPERTIES ClosesAreCarriedOut
