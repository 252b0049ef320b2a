SPECIFICATION FairSpec
CONSTANTS
  MaxRuns = 1
  MaxSteps = 2
  CallSets <- FormOrWrite
  Slots = {s1}
  Clients = {c1}
  Sweeper = sweeper
  FaultKinds = {"crash", "broker", "throw", "disallow"}
  MaxEvents = 3
  MaxFaults = 2
CHECK_DEADLOCK FALSE
PROPERTIES NothingHangs
