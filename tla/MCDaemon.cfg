SPECIFICATION FairSpec
CONSTANTS
  Anomaly <- MCAnomaly
  Rules <- MCRules
  Detail = {"x"}
  Capacity = 5
  AutoEnforce = TRUE
  HumanApproval <- MCHumanApproval
  MaxNotices = 1
  MayCancel = TRUE
  Scope = {"branch unknown"}
  Orisha = {"yemoja", "esu"}
  Trace = {t1}
  t1 = t1
  DefaultMemory = m0
  MaxTime = 2
  Modulus = 4
  MaxQueue = 4
  Absent = Absent
INVARIANTS
  ExactlyOnce
  QuarantinesAreCaused
PROPERTIES
  DeliversOnce
  HandledEventually
CHECK_DEADLOCK FALSE
