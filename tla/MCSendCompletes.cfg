SPECIFICATION FairSpec
CONSTANTS
  Anomaly <- MCEnforcedAnomaly
  Rules <- NoRules
  Detail = {"x"}
  Capacity = 2
  AutoEnforce = TRUE
  HumanApproval <- DefaultHumanApproval
  MaxNotices = 0
  MayCancel = FALSE
  Scope = {"branch unknown"}
  Orisha = {"yemoja", "esu"}
  Trace = {t1}
  t1 = t1
  DefaultMemory = m0
  MaxTime = 1
  Modulus = 2
  MaxQueue = 4
  Absent = Absent
PROPERTY
  SendCompletes
CHECK_DEADLOCK FALSE
