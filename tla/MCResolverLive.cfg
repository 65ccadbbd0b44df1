SPECIFICATION FairSpec
CONSTANTS
  Query = {q1}
  Request = {r1, r2}
  Null = Null
  Id = {i0, i1, i2}
  Zero = i0
  NsCount = 2
  Retries = 2
  InitialTimeout = 1
  AR_TTL = 2
  MaxTime = 12
  LastLookup = 0
  MayFail = TRUE
  MayRestart = FALSE
PROPERTIES
  SentIfPossible
  LookupsEnd
CHECK_DEADLOCK FALSE
