SPECIFICATION Spec
CONSTANTS
  Memory = {m1, m2}
  Scope = {s1, s2}
  Reason = {r1}
  o1 = o1
  o2 = o2
  Orisha = {o1, o2}
  t1 = t1
  Trace = {t1}
  ConditionSets <- MCTerms
  MaxTime = 2
  Modulus = 4
  MaxQueue = 2
  Absent = Absent
INVARIANTS
  NoStaleBlock
  
PROPERTY
  ReleaseIsEarned
CHECK_DEADLOCK FALSE
