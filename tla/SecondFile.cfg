SPECIFICATION Spec
CONSTANTS
  NbChunks = 1
  Size = 2
  MaxFiles = 2
  MaxFaults = 1
INVARIANT OneFilePerName
CHECK_DEADLOCK FALSE
