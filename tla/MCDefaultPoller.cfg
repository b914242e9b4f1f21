CONSTANTS
  a = a
  b = b
  c = c
  d = d
  Channels = {a, b, c, d}
  FdOf <- MCFdOf
SPECIFICATION Spec
INVARIANTS ViewsAgree
PROPERTIES ImplementsPoller
