CONSTANTS
  TaskKind = "fix"
  Backend = "host"
  Verdicts = FALSE
  MaxRetries = 1
  Reported <- EveryReport
  ExitCodes = {0, 1, 2, 3}
  Flaky = {"provision", "token", "launch", "open", "comment", "remove"}
  MaxHead = 1
SPECIFICATION FairSpec
INVARIANTS
  NoPrBehindFailure
  CheckoutRemoved
  NoStraySession
  SpawnBudget
PROPERTIES
  ExecutorReturns
