CONSTANTS
  d1 = d1
  d2 = d2
  d3 = d3
  p1 = p1
  p2 = p2
  Dirs <- MCDirs
  Peers <- MCPeers
  Source <- MCSource
  Empty <- MCEmpty
  MaxRetries = 1
SPECIFICATION Spec
INVARIANTS
  TypeOK
  NoIdlePeer
  NotFoundIsRetried
  AskingIsLegitimate
