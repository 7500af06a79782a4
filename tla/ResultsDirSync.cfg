SPECIFICATION DirSpec
CONSTANTS
  Tasks = {1, 2}
  MaxN = 1
  Models = {"m"}
  MockModel = "mock-model"
  Answers <- MCAnswers
  KeyAnswer = "key"
  NoBlock = "prose"
  Scores <- MCScores
  Unparseable = "unparseable"
  Editions = {1, 2}
  Verdict <- MCVerdict
  TasksOf <- MCTasksOf
  Floor = 2
  NoFile = NoFile
  Torn = Torn
  Invocations <- DirInvocations
  MaxAttempts = 1
  DefaultModel = "m"
INVARIANTS
  SyncKeepsEvidence
  RebuildReconciles
  RebuiltStaysCurrent
PROPERTIES
  SyncedAgree
CHECK_DEADLOCK FALSE
