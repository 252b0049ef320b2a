SPECIFICATION FairSpec
CONSTANTS
  MaxRuns = 1
  Versions <- OneManual
  Trigger = "ACCESS_GRANTED"
  Workers = {w1}
  Clients = {c1}
  FaultKinds = {"crash", "broker"}
  MaxFaults = 1
  MaxOps = 3
CHECK_DEADLOCK FALSE
PROPERTIES PendingLeaves RunningLeaves ResolvedLeaves
