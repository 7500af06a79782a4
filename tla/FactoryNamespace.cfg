SPECIFICATION Spec
CONSTANTS
  Targets = {1, 2}
  Gates <- MCGates
  NumConditions = 2
  Obstacles <- NoObstacles
  AuthorStatuses = {"queued", "grid", "parked", "shelved"}
  Providers = {"cli"}
  LiveEditing = FALSE
  NoObstacle = NoObstacle
  NoFile = NoFile
  Torn = Torn
INVARIANTS
  BlockedIsAboutTarget
CHECK_DEADLOCK FALSE
