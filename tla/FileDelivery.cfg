SPECIFICATION FairSpec
CONSTANTS
  NbChunks = 2
  Size = 2
  MaxFiles = 4
  MaxFaults = 3
INVARIANTS TypeOK DownloadedIsHeld FinishedIsWhole WriterHasHandle
PROPERTY Delivers
CHECK_DEADLOCK FALSE
