SPECIFICATION Spec
CONSTANTS
  MaxBufLen = 4
  EndlLen = 1
  Sends = {"text", "delim"}
  MaxIn = 0
  MaxOut = 4
INVARIANTS
  SentInOrder
