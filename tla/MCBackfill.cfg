SPECIFICATION Spec
CONSTANTS
  Id <- MCId
  Version <- MCVersion
  Texts <- MCTexts
  Blank <- MCBlank
  Rejected <- MCRejected
  Feeds <- MCFeeds
  Tables <- MCTables
  Limits = {0, 1, 3}
  BatchSize = 2
  MaxLoads = 2
  MaxPasses = 2
  Absent = Absent
  Null = Null
CHECK_DEADLOCK FALSE
INVARIANTS
  OwnVectors
  RowsThereAreEmbedded
  NoGapInKeyOrder
  QuietPassRefreshes
PROPERTIES
  PassEnds
