SPECIFICATION Spec
CONSTANTS
  Timer = {t1, t2}
  Pollable = {}
  Null = Null
  When = {1, 2}
  Millis = 1
  IntLimit = 8
  DefaultTimeout = 2
  Timeouts = {0, 2}
  MaxTime = 2
  Destroys = {"outside", "other"}
  InstantCallbacks = FALSE
INVARIANT
  NextTimerExact
