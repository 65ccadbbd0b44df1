SPECIFICATION Spec
CONSTANTS
  Query = {q1, q2}
  Request = {r1, r2, r3}
  Null = Null
  Id = {i0, i1, i2, i3}
  Zero = i0
  NsCount = 1
  Retries = 2
  InitialTimeout = 1
  AR_TTL = 2
  MaxTime = 3
  LastLookup = 1
  MayFail = FALSE
  MayRestart = TRUE
INVARIANTS
  OneRequestPerQuery
  IdsUnique
  AnswerIsForQuery
SYMMETRY Symmetry
CHECK_DEADLOCK FALSE
