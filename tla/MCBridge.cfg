SPECIFICATION BridgesSpec
CONSTANTS
  Task = {t1, t2}
  Request <- MCRequest
  Poller = {canaries}
  CanaryOnly = {canaries}
  Key = {k1, k2}
  Absent = Absent
  Torn = Torn
  MaxTime = 2
  MaxReceipts = 2
  MaxCrashes = 1
  SeverityWord <- MCSeverityWord
  KindWord <- MCKindWord
  MaxVerdicts = 2
INVARIANTS
  OneIdentity
  AcknowledgedPersists
  MissesOnlyLate
  VerdictsAgree
PROPERTIES
  EveryRequestEnds
