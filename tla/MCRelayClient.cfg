SPECIFICATION FairSpec
CONSTANTS
  Event = {e1, e2}
  AuthId = auth
  MaxCalls = 3
  MaxDrops = 1
  MaxNoise = 1
INVARIANTS
  VerifiedIsServed
  NotServedIsTrue
  AuthIsReal
PROPERTIES
  CallEnds
CHECK_DEADLOCK FALSE
