SPECIFICATION Spec
CONSTANTS
  Orisha <- MCOrisha
  Rank <- MCRank
  Registered = {"esu", "obatala"}
  Strategies <- MCStrategies
  DefaultStrategy <- MCDefaultStrategy
  Threshold = 70
  Conflict <- MCConflict
  MaxConflicts = 2
INVARIANTS
  OutcomeIsBacked
CHECK_DEADLOCK FALSE
