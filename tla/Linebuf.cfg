SPECIFICATION FairSpec
CONSTANTS
  MaxBufLen = 3
  EndlLen = 1
  Sends = {"text", "delim"}
  MaxIn = 4
  MaxOut = 4
INVARIANTS
  LinebufExact
PROPERTIES
  ShutdownAfterFlush
  LinebufLive
