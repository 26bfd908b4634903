CONSTANTS
  p1 = p1
  p2 = p2
  t1 = t1
  t2 = t2
  None = none
  NbFiles = 1
  NbChunks = 1
  FileOf <- MCOne
  Peers <- MCPeers
  Source <- MCSources
  Threads <- MCThreads
  NumberOfDownloader = 2
  MaxSlots = 3
SPECIFICATION FairSpec
INVARIANTS
  OccupiedIsDownloading
  RunningNotOvercounted
PROPERTY StopTerminates
