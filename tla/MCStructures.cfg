SPECIFICATION MCSpec
CONSTANTS
  Block = {b1, b2, b3}
  Null = Null
  Requests = {0, 3}
  ElemSizes = {1}
  PageSize = 8
  BlockHeader = 2
  ElemHeader = 1
  Node = {1, 2, 3, 4}
  List = {l1, l2}
  ListNull = ListNull
  ConcatEmpty = FALSE
  Key <- MCKey
  DictKey = {1, 2, 3, 4}
  PatNibbles <- MCNibbles
  PatCanon <- MCCanon
  PatFan = 3
  QNode = {1, 2, 3}
  QAnchor = 4
  QData = {1, 2}
  Ix = {1, 2}
  IxValue = {1, 2}
  IxBase = 2
  IxPointer = 2
  IxMaxCount = 3
INVARIANTS
  TypeOK
  HeapInv
  MutexReleased
  MemoryReturned
  RepresentsSeq
  SortsList
  DictSorted
  DictIteration
  PatExact
  PatIteration
  QueueExact
  IndexExact
PROPERTIES
  AllocSucceeds
  ImplementsAbs
SYMMETRY MCSymmetry
