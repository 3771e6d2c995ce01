SPECIFICATION Spec
CONSTANTS
  Candidate <- MCCandidate
  Epsilon = 2
  SwapWindow = 3
  Infinity <- MCInfinity
  NoPin = NoPin
  Catalogs <- MCCatalogs
  Queries <- MCQueries
  Categorical <- MCCategorical
  Lexical <- MCLexical
  Semantic <- MCSemantic
  Passing <- MCPassing
  Named <- MCNamed
  NameKey <- MCNameKey
  Blank = Blank
  FarAway = 50
  MaxReloads = 1
  CandidateLimit = 4
  ResultLimit = 2
  MaxNameMatches = 2
CHECK_DEADLOCK FALSE
INVARIANTS
  ShownOnce
  FreedSlotsBackfilled
  ShownLocationNearBest
