SPECIFICATION MCSpec
CONSTANTS
  Callers = {c1, c2}
  Kinds = {"good", "NO_METHOD"}
  MaxCalls = 3
  MaxConns = 2
  MaxLines = 5
  MaxFrames = 3
  Modules = {"proc", "sys"}
  Commands = {"pid", "stat"}
  Builtin <- MCBuiltin
  MaxAdds = 3
INVARIANTS CallsMatch AnswersInOrder RemovedIsQuiet
PROPERTIES CallsAreAnswered WhoWaitsIsAnswered ImplementsStream
CHECK_DEADLOCK FALSE
