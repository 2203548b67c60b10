CONSTANTS
  Delivery <- MCDelivery
  Task <- MCTask
  Installation = {"i"}
  PR = {"no pr"}
  Event <- MCEvent
  Source <- MCSource
  MaxAttempts = 2
  Cap <- MCCap
  Repo = {"o/a-b", "o/a.b", "o/c"}
  RepoOrder <- MCRepoOrder
  OwnerOf <- MCOwnerOf
  Sanitized <- MCSanitized
  Day = 3
  Configs <- MCConfigs
  Installations <- MCInstallations
  RepoOf <- MCRepoOf
  Home = "o/a-b"
  Branches <- MCBranches
  Main <- MCMain
  Protected <- MCProtected
  Commit = {"h", "k", "u"}
  Author <- MCAuthor
  Tips <- MCTips
  Pushes <- MCPushes
  PageOfCommits = 2
  LastMinute = 1
  Asked = {a1, a2}
  MaxFaults = 1
  MaxTrouble = 2
SYMMETRY Askers
SPECIFICATION Spec
INVARIANTS
  WithinPolicy
  ReportAddsUp
  TidyAfterQuietRun
  SlotsServed
PROPERTIES
  LossesAreRaces
CHECK_DEADLOCK FALSE
