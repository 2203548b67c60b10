CONSTANTS
  TaskKind = "review"
  Backend = "host"
  Verdicts = TRUE
  MaxRetries = 0
  Reported <- ReviewReports
  ExitCodes = {0, 2}
  Flaky = {}
  MaxHead = 2
SPECIFICATION Spec
INVARIANTS
  VerdictOnReviewedHead
