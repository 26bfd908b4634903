CONSTANTS
  f1 = f1
  f2 = f2
  p1 = p1
  p2 = p2
  Files <- MCFiles
  Peers <- MCOnePeer
  Source <- MCSameSource
  NbChunk <- MCTwoOne
  MaxRetries = 1
  MaxCopies = 2
SPECIFICATION Spec
INVARIANTS
  TypeOK
  OneRequestPerPeer
  GettingIsAsking
  IdleAsksNothing
  ListedHasTimer
