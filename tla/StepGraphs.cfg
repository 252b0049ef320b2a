SPECIFICATION Spec
CONSTANTS
  Graphs <- MixedGraphs
CHECK_DEADLOCK FALSE
INVARIANTS VerdictRight NoStepTwice
