SPECIFICATION MCSpec
CONSTANTS
  Base = 4
  kCheapPrepend = 2
  kInitialSize = 2
  ExtraSize = 2
  Data <- MCData
  Lens = {1, 2}
  Ints <- MCInts
  Widths = {1, 2}
  MaxSize = 6
  LastYear = 2300
  MaxItems = 3
  MaxLines = 4
  MaxTime = 5
INVARIANTS LinesAreRight NumbersReadBack TimesReadBack FilesAreRight
PROPERTIES IsByteQueue ImplementsCalendar
CHECK_DEADLOCK FALSE
