SPECIFICATION ListSpec
CONSTANTS
  Node = {n1, n2, n3}
  List = {l1, l2}
  ListNull = ListNull
  ConcatEmpty = TRUE
INVARIANTS
  MoveAssumption
