SPECIFICATION MCSpec
CONSTANTS
  Callsigns = {"c1", "c2"}
  Answers = {"bare", "fails"}
  BatchSize = 1
  BatchInterval = 1
  PersistInterval = 1
  RetryAfter = 4
  MaxRound = 2
  Icaos = {"i1"}
  Traffic <- MCHeard
  PairTimeout = 1
  ReduceInterval = 2
  MaxPositions = 2
  MaxChan = 1
INVARIANTS
  PairsAreNear
PROPERTIES
  AskedSparingly
  LearnedSurvives
  RequestsAreMet
  ReduceIsCurrent
