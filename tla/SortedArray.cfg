CONSTANTS
  NbValues = 10
  Values <- MCValues
  Orders = {3, 5}
SPECIFICATION Spec
INVARIANTS
  TypeOK
  StoredSizesExact
  IndexesAgree
  IterationFinds
PROPERTY ImplementsList
