CONSTANTS
  f1 = f1
  f2 = f2
  f3 = f3
  dir = dir
  sub = sub
  none = none
  NoDir = none
  Downloads <- MCTree
  Dirs <- MCDirs
  Parent <- MCParent
  Entry <- MCEntry
  MaxNamed = 2
SPECIFICATION Spec
INVARIANTS
  TypeOK
  ScanFindsAll
  ChildrenReplaceDirectory
  MoveIsDocumented
  RemoveIsExact
