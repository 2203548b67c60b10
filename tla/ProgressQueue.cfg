CONSTANTS
  Delivery = {"issue", "cancel", "slot", "ping"}
  Task = {"i", "c", "g"}
  Installation = {"acme", "globex"}
  PR = {"pr"}
  Event <- ContendersEvent
  Source <- ContendersSource
  MaxAttempts = 2
  Cap <- MCCap
  Concurrency = 2
SPECIFICATION LoopSpec
PROPERTIES
  NoLostWakeup
  Drains
