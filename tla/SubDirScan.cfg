CONSTANTS
  a = a
  b = b
  s = s
  f = f
  g = g
  h = h
  Dirs = {a, s}
  Files = {f, h}
  None = none
  Above <- DeepAbove
  Place <- DeepPlace
  In <- DeepIn
  NbChunks = 1
  MaxCalls = 1
  MaxChanges = 0
  MaxErrors = 0
SPECIFICATION Spec
CHECK_DEADLOCK FALSE
INVARIANT SubDirectoriesAreScanned
