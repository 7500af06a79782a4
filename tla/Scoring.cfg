SPECIFICATION Spec
CONSTANTS
  Segments = {"v1", "v2", "host", "api", "x", "y", "{id}"}
  Schemed = {"host"}
  Bare = {}
  Fold <- MCFold
  Versions <- MCVersions
  VersionSegs = {"v1", "v2"}
  Canon <- MCCanon
  NoVersion = "no version"
  Missing = "omitted"
  Methods = {"GET", "POST"}
  Styles <- MCStyles
  Unknown = "unknown"
  NotDeclared = NotDeclared
  Tasks <- MCTasks
  Responses <- MCResponses
  Failure = Failure
INVARIANTS
  MatchIsMaximum
  CreditIsDeserved
  KeyScoresFull
  SilenceEarnsNothing
  LabelledByMatch
  LabelIsEarned
CHECK_DEADLOCK FALSE
