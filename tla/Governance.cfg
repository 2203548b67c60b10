CONSTANTS
  Session <- MCSession
  SessionOf <- MCSessionOf
  Installation = {"acme", "other"}
  Repo = {"app", "lib"}
  MemoryOn = {"app", "lib"}
  ApprovalOn = {"app"}
  Reports <- MCReports
  Files = {"main"}
  MinSeverity = {2}
  LiveTokens = {"live"}
  Api <- MCApi
  Bearer = {"root", "ten", "wide", "stranger"}
  RevocableKey <- MCRevocableKey
  MaxRequests = 1
  MaxRuns = 2
  MaxFaults = 1
SPECIFICATION Spec
INVARIANTS
  RevocationsHold
  UntrustedNeverWrites
  TenantBoundary
  GateIsHonest
