SPECIFICATION ReplaySpec
CONSTANTS
  KeyId = {root, agent}
  Key = {rootkey, k1, k2}
  RootId = root
  RootKey = rootkey
  Claim = {c1, c2}
  MaxTime = 1
  None = None
  TraceId = {t1, t2}
  Orisha = {esu, ogun}
  Op <- MCOp
  StartState <- MCStartState
  Bits = 2
  MaxSteps = 1
  MaxSigned = 1
  MaxRuns = 1
  MaxCalls = 6
  Apart = TRUE
SYMMETRY Symmetry
INVARIANTS
  TokenIsGenuine
  SignedIsRecorded
  GenuineVerifies
  PromotionIsHonest
CHECK_DEADLOCK FALSE
