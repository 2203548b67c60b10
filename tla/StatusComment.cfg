CONSTANTS
  Writer = {"review", "reply", "fix"}
  PageSize = 4
  MaxThread = 6
SPECIFICATION Spec
INVARIANTS
  StacksNothing
CHECK_DEADLOCK FALSE
