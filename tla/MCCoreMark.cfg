CONSTANTS
  Runs <- MCRuns
  Freq = 200
  TickMod = 15900
  MaxIterations = 2
SPECIFICATION Spec
INVARIANTS TypeOK DataRestored MemoryApart KnownCrcs RunsLongEnough
PROPERTIES SortsStable
CHECK_DEADLOCK FALSE
