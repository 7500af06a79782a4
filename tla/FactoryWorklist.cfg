SPECIFICATION FairSpec
CONSTANTS
  Targets = {1, 2}
  Gates <- MCGates
  NumConditions = 2
  Obstacles <- MCObstacles
  AuthorStatuses = {"queued", "grid", "parked", "shelved"}
  Providers = {"mock", "cli"}
  LiveEditing = FALSE
  NoObstacle = NoObstacle
  NoFile = NoFile
  Torn = Torn
INVARIANTS
  TypeOK
  WorksOnlyUndecided
  CardedHasWholeCard
PROPERTIES
  RunDrainsQueue
  DispatchEnds
  ImplementsWorklist
CHECK_DEADLOCK FALSE
