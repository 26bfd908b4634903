CONSTANTS
  a = a
  b = b
  s = s
  f = f
  g = g
  h = h
  Dirs = {a, b, s}
  Files = {f, g}
  None = none
  Above <- MCAbove
  Place <- MCPlace
  In <- MCIn
  NbChunks = 2
  MaxCalls = 2
  MaxChanges = 1
  MaxErrors = 1
SPECIFICATION FairSpec
CHECK_DEADLOCK FALSE
INVARIANTS
  TypeOK
  ListedOnce
  NotForgotten
  QuietIsUpToDate
PROPERTIES
  Settles
