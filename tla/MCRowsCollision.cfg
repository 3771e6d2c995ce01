SPECIFICATION MCSpec
CONSTANTS
  MaxOpen = 4
  MaxRecords = 3
  Tokens <- MCTokens
  MaxTokens = 3
  Lexicon <- MCLexicon
  NoCategory = NoCategory
  Records <- MCRecords
  Null = Null
  UUIDs = {"a", "b"}
  Padded <- MCPadded
  Lowered <- MCLowered
  Florida <- MCFlorida
  Seed <- MCSeed
  Archetypes <- MCArchetypes
  Means <- MCMeans
  Words <- MCWords
  Chars <- MCChars
  levenshtein <- MCLevenshtein
  Names <- MCNames
  Days = 2
  HourLen = 2
  Hours <- MCHours
  NULL = NULL
  Pool <- MCPool
  Requests <- MCRequests
  Lim = 2
  OverFetch = 2
  MaxRows = 6
  SimThreshold = 3
CHECK_DEADLOCK FALSE
INVARIANT
  LastCategorySurfaces
