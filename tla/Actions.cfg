CONSTANTS
  UserLabels = {"u"}
  Initial <- MCInitial
  Toggled = {"INBOX"}
  Apis = {"server", "demo"}
  Visited = {"trash"}
  MaxCalls = 2
  MaxEvents = 1
SPECIFICATION Spec
CHECK_DEADLOCK FALSE
INVARIANTS OptimisticHolds SettledAgrees DemoAgrees
