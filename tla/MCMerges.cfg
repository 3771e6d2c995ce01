SPECIFICATION SliceStableSpec
CONSTANTS
  Candidate <- MCCandidate
  Epsilon = 2
  SwapWindow = 3
  Infinity <- MCInfinity
  NoPin = NoPin
  Lists <- MCLists
  BlockSize = 20
CHECK_DEADLOCK FALSE
INVARIANT
  HigherScoreFirst
