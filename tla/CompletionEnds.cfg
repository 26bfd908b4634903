SPECIFICATION FairSpec
CONSTANTS
  NbChunks = 2
  Size = 1
  MaxFiles = 1
  MaxFaults = 0
PROPERTY CompletionEnds
CHECK_DEADLOCK FALSE
