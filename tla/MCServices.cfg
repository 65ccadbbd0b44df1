SPECIFICATION MCSpec
CONSTANTS
  Service = {"object", "metadata", "hook", "json", "vio", "backend", "helper"}
  Obj = {o1, o2}
  ObjHandler = {"h1", "h2"}
  ObjMsg <- MCMsg
  ObjDesc <- MCDesc
  ObjKey = {k1}
  ObjMaxRefs = 2
  ObjDepth = 2
  HookName = {"a", "A"}
  HookCanon <- MCHookCanon
  HookFunc = {"f", "g"}
  HookItem = {1, 2, 3}
  HookDepth = 2
  JMaxNodes = 10
  JMaxFree = 6
  JMaxHeld = 2
  JMaxMade = 2
  JChar = {"{", "}", "[", "]", ",", "1"}
  JText <- MCText
  VObj = {v1, v2}
  VFd = {1, 2}
  VConn = {1, 2}
  VCtx = {1}
  BkPollable = {p1, p2}
  BkNull = BkNull
  BkKind = {"poll", "select", "kqueue", "ports", "qnx", "winsock"}
  BkSlots = 2
  HpHelper = {h1, h2}
  HpParent = HpParent
  HpFd = {0, 1, 2, 3, 4, 5, 6}
INVARIANTS
  ObjLifetime
  HookCallsEach
  JsonRefs
  JsonExact
  JsonRoundTrip
  VioOwnership
  BackendWatches
  WalkHoldsPollables
  HelperEnds
PROPERTIES
  VioLost
SYMMETRY MCSymmetry
