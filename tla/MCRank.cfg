SPECIFICATION MCSpec
CONSTANTS
  Candidate <- MCCandidate
  Inputs <- MCInputs
  Pins <- MCPins
  Epsilon = 2
  SwapWindow = 3
  Infinity <- MCInfinity
  NoPin = NoPin
  Limit = 3
  Lists <- MCLists
  BlockSize = 2
  Configs <- MCConfigs
  Newcomers <- MCNewcomers
  Better <- MCBetter
  Log1p <- MCLog1p
  Exp <- MCExp
  Null = Null
CHECK_DEADLOCK FALSE
INVARIANTS
  NoOvertakingBeyondEpsilon
  NeighboursOrdered
  NothingLostOrDuplicated
  NewBusinessesDePinned
  RunComputesRanking
  NeighboursOrderedAfterMerges
  PinShownOnTop
PROPERTY
  GrowthNeverHurts
