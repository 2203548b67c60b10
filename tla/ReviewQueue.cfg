CONSTANTS
  Delivery = {"push", "rerun", "review"}
  Task = {"p", "r", "m"}
  Installation = {"acme", "globex"}
  PR = {"pr"}
  Event <- ReviewsEvent
  Source <- ReviewsSource
  MaxAttempts = 2
  Cap <- MCCap
  Concurrency = 2
SPECIFICATION Spec
INVARIANTS
  TypeOK
  ExecutorOwnsRow
  AuditTrail
  DriveByNeverDisplaces
PROPERTIES
  TerminalIsFinal
