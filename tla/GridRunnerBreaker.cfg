SPECIFICATION Spec
CONSTANTS
  Tasks = {1}
  MaxN = 3
  Models = {"m"}
  MockModel = "mock-model"
  Answers <- MCAnswers
  KeyAnswer = "key"
  NoBlock = "prose"
  Scores <- MCScores
  Unparseable = "unparseable"
  Editions = {1}
  Verdict <- MCVerdict1
  TasksOf <- MCTasksOf1
  Floor = 2
  NoFile = NoFile
  Torn = Torn
  Invocations <- BreakerInvocations
  MaxAttempts = 2
INVARIANTS
PROPERTIES
  BreakerStopsSpend
  StoppedMeansTripped
CHECK_DEADLOCK FALSE
