SPECIFICATION StewardFairSpec
CONSTANTS
  Diag <- MCDiag
  Threshold = 1
  Capacity = 2
  Reader = {r1, r2}
  MaxKeys = 2
  Refused = {"harm"}
  Receipt = {1, 2}
  MaxLines = 3
INVARIANTS
  StewardTypeOK
  RefusedLeavesNoTrace
  TakenOnce
  VerifiedIsSigned
PROPERTY
  EligibleIsRepaired
CHECK_DEADLOCK FALSE
