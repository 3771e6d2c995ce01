SPECIFICATION MCSpec
CONSTANTS
  Empty = Empty
  Texts = {Empty, s, su, sushi}
  Short = {Empty, s}
  MaxChanges = 4
  MaxRequests = 5
  MaxInflight = 2
  Benches <- MCBenches
  Failed = Failed
  Snapshots <- MCSnapshots
  IndexBatch = 2
  MaxPolls = 1
  MaxIndexRuns = 2
  Settings = Settings
CHECK_DEADLOCK FALSE
INVARIANTS
  NoStaleOutcome
  OneSearchAtATime
  NoSendOnClosed
  RowsMeasureTheirArm
  VerdictEarned
  IndexedAsRead
PROPERTIES
  EventuallySettles
  WindowEnds
