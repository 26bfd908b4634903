CONSTANTS
  p1 = p1
  p2 = p2
  t1 = t1
  t2 = t2
  None = none
  NbFiles = 1
  NbChunks = 2
  FileOf <- MCOneFile
  Peers <- MCPeers
  Source <- MCSources
  Threads <- MCThreads
  NumberOfDownloader = 2
  MaxSlots = 1
SPECIFICATION Spec
INVARIANTS
  TypeOK
  OneChunkPerPeer
  OccupiedIsDownloading
  LinksCover
