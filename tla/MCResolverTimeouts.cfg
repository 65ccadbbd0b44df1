SPECIFICATION Spec
CONSTANTS
  Query = {q1}
  Request = {r1, r2}
  Null = Null
  Id = {i0, i1, i2}
  Zero = i0
  NsCount = 1
  Retries = 3
  InitialTimeout = 1
  AR_TTL = 6
  MaxTime = 12
  LastLookup = 1
  MayFail = FALSE
  MayRestart = FALSE
INVARIANTS
  TimeoutsHonoured
CHECK_DEADLOCK FALSE
