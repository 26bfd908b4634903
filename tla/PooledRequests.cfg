CONSTANTS
  r1 = r1
  r2 = r2
  Requests <- MCRequests
  None = none
  MaxIdle = 1
  NbHashes = 2
  NbPieces = 2
  PerBuffer = 2
  MaxSockets = 2
  MaxFailures = 1
  MaxGivenUp = 1
SPECIFICATION Spec
CHECK_DEADLOCK FALSE
INVARIANTS
  TypeOK
  SocketIsNotShared
  AnswersMatch
  IdleOwesNothing
SYMMETRY MCSymmetry
