SPECIFICATION Spec
CONSTANTS
  Lines <- SomeLines
  MaxLines = 3
  Callbacks = {"default", "user"}
INVARIANT HttpAssertionsHold
CHECK_DEADLOCK FALSE
