SPECIFICATION Spec
CONSTANTS
  Callsigns = {"c1"}
  Answers = {"bare", "fails"}
  BatchSize = 1
  BatchInterval = 1
  PersistInterval = 1
  RetryAfter = 3
  MaxRound = 2
  Icaos = {"i1"}
  Traffic <- MCBlocked
  PairTimeout = 1
  ReduceInterval = 2
  MaxPositions = 2
  MaxChan = 1
INVARIANTS
  PairedInTime
