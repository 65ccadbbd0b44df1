SPECIFICATION MCSpec
CONSTANTS
  Timer = {t1, t2}
  Pollable = {p1, p2}
  Null = Null
  When = {0, 1, 2}
  Millis = 2
  IntLimit = 4
  DefaultTimeout = 3
  Timeouts <- MCTimeouts
  MaxTime = 2
  Destroys = {"outside", "other", "held"}
  InstantCallbacks = FALSE
INVARIANTS
  DeadlineCovers
  PassHoldsLiveTimers
  PollablesReaped
PROPERTIES
  NeverOversleeps
  NoCallbackAfterDestroy
  BreakStops
