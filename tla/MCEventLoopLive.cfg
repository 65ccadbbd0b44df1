SPECIFICATION FairSpec
CONSTANTS
  Timer = {t1, t2}
  Pollable = {p1}
  Null = Null
  When = {1, 2}
  Millis = 2
  IntLimit = 8
  DefaultTimeout = 4
  Timeouts = {0}
  MaxTime = 2
  Destroys = {"other"}
  InstantCallbacks = TRUE
INVARIANTS
  NextTimerExact
PROPERTIES
  TimersFire
