SPECIFICATION Spec
CONSTANTS
  MaxRuns = 2
  Versions <- Versioned
  Trigger = "ACCESS_GRANTED"
  Workers = {w1, w2}
  Clients = {c1}
  FaultKinds = {"crash", "broker"}
  MaxFaults = 1
  MaxOps = 2
SYMMETRY Symm
CHECK_DEADLOCK FALSE
INVARIANTS UniqueRows
PROPERTIES NoRepeatInRun
