CONSTANTS
  Delivery <- MCDelivery
  Task <- MCTask
  Installation <- MCInstallation
  PR = {"pr"}
  Event <- MCEvent
  Source <- MCSource
  MaxAttempts = 1
  Cap <- MCCap
  TierPerDay <- MCTierPerDay
  Handler = {h1, h2}
  Account = {"org"}
  OwnerOf <- MCOwnerOf
  Class <- MCClass
  Change <- MCChange
  Purchaser <- MCPurchaser
  RequirePlan = TRUE
  Listed = {"acme"}
  Executors = 1
  Explicit <- MCExplicit
  MaxRequests = 3
  MaxFaults = 1
SYMMETRY Handlers
SPECIFICATION Spec
INVARIANTS
  AdmittedOnPlan
  NoLostTransition
  NothingOfTheDeparted
  QuotaOvershoot
CHECK_DEADLOCK FALSE
