SPECIFICATION Spec
CONSTANTS
  Node = {1, 2, 3}
  Key = {k}
  Value = {v, w}
  Element = {e}
  Delta = {1, 2}
  MaxStamp = 1
  MaxUpdates = 3
  MaxCopies = 2
  Mixes <- MCMixes
  Absent = Absent
INVARIANTS
  HiveHoldsLatest
  ElementsExact
  CounterExact
  ClockTellsKnowledge
