CONSTANTS
  Delivery <- MCDelivery
  Task <- MCTask
  Installation = {"acme", "other"}
  PR = {"pr"}
  Event <- MCEvent
  Source <- MCSource
  MaxAttempts = 2
  Cap <- MCCap
SPECIFICATION StoreSpec
INVARIANTS
  TaskCounts
