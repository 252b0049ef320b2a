SPECIFICATION Spec
CONSTANTS
  MaxRuns = 3
  Versions <- Linear
  Trigger = "ACCESS_GRANTED"
  Workers = {w1}
  Clients = {c1}
  FaultKinds = {}
  MaxFaults = 0
  MaxOps = 3
CHECK_DEADLOCK FALSE
PROPERTY NoDoubleProvision
