SPECIFICATION Spec
CONSTANTS
  MaxRuns = 2
  MaxSteps = 2
  CallSets <- Writes
  Slots = {s1, s2}
  Clients = {c1, c2}
  Sweeper = sweeper
  FaultKinds = {"crash", "broker"}
  MaxEvents = 3
  MaxFaults = 1
ACTION_CONSTRAINTS LastRunUndisturbed LastSubmitAlone
SYMMETRY Symm
CHECK_DEADLOCK FALSE
INVARIANTS TypeOK OneDriver EveryCallAnswered
PROPERTIES WritesOnce ImplementsAssistant
