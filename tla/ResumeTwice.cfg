SPECIFICATION Spec
CONSTANTS
  MaxRuns = 1
  Versions <- TwoManual
  Trigger = "ACCESS_GRANTED"
  Workers = {w1, w2}
  Clients = {c1}
  FaultKinds = {}
  MaxFaults = 0
  MaxOps = 3
CHECK_DEADLOCK FALSE
PROPERTY ResumeOnlyResolved
