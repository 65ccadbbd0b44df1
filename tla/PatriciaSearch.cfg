SPECIFICATION PatSpec
CONSTANTS
  PatNibbles <- MCNibbles
  PatCanon <- MCCanon
  PatFan = 3
INVARIANTS
  PatSearchFails
CHECK_DEADLOCK FALSE
