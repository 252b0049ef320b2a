SPECIFICATION Spec
CONSTANTS
  MaxRuns = 1
  Versions <- Paused
  Trigger = "ACCESS_REVOKED"
  Workers = {w1, w2}
  Clients = {c1}
  FaultKinds = {"throw", "stall"}
  MaxFaults = 2
  MaxOps = 1
SYMMETRY Symm
CHECK_DEADLOCK FALSE
INVARIANTS TypeOK CursorsKnown
