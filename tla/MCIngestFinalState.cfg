SPECIFICATION Spec
CONSTANTS
  Id <- MCId
  Version <- MCVersion
  Feeds <- MCFeeds
  Tables <- MCTables
  MaxRuns = 2
  Absent = Absent
  Null = Null
  CopyBatchSize = 2
  CopyChannelBuffer = 2
CHECK_DEADLOCK FALSE
INVARIANT
  FinalStateFromFile
