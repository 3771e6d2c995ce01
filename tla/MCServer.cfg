SPECIFICATION Spec
CONSTANTS
  Requests = {r1, r2, r3}
  Pipelines = {p1, p2}
  MaxConns = 1
  None = None
CHECK_DEADLOCK FALSE
INVARIANTS
  PipelinesConserved
  ResourcesOutliveService
  CleanExitCutsNothing
PROPERTIES
  SignalStops
  WaitersServed
