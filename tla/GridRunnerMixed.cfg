SPECIFICATION FairSpec
CONSTANTS
  Tasks = {1, 2}
  MaxN = 1
  Models = {"m"}
  MockModel = "mock-model"
  Answers <- MCAnswers
  KeyAnswer = "key"
  NoBlock = "prose"
  Scores <- MCScores
  Unparseable = "unparseable"
  Editions = {1, 2}
  Verdict <- MCVerdict
  TasksOf <- MCTasksOf
  Floor = 2
  NoFile = NoFile
  Torn = Torn
  Invocations <- MixedInvocations
  MaxAttempts = 3
INVARIANTS
  TypeOK
  ProvenancePure
  UndisciplinedIsFresh
PROPERTIES
  OnlySkippedIsMissing
  ReportIsArchived
  PaidWorkIsKept
  CommandEnds
CHECK_DEADLOCK FALSE
