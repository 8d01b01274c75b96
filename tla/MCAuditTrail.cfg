SPECIFICATION TrailSpec
CONSTANTS
  Holder = {p, q}
  GenesisState = {g1, g2}
  Intent = {i, harm}
  RefusedIntent = {harm}
  Observed <- MCObserved
  MaxEvents = 2
  MaxLength = 3
  MaxCommits = 3
  None = None
SYMMETRY Symmetry
INVARIANTS
  TrailTypeOK
  TipTellsHistory
  RootsTellPast
  CompensationIsWarranted
