CONSTANTS
  TaskKind = "review"
  Backend = "container"
  Verdicts = TRUE
  MaxRetries = 1
  Reported <- ReviewReports
  ExitCodes = {0, 2}
  Flaky = {"preflight", "head", "finish", "verdict", "comment", "conclude"}
  MaxHead = 2
SPECIFICATION Spec
INVARIANTS
  PushWithholds
  OpenCheckExplained
  RowAndCheckAgree
PROPERTIES
  ImplementsExecutor
