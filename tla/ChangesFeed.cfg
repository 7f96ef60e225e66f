SPECIFICATION Spec
CONSTANTS
  Packages = {p1}
  Pipeline = Pipeline
  Hand = Hand
  Retention = 1
  MaxClock = 3
  MaxRuns = 2
  MaxData = 1
INVARIANT TypeOK
INVARIANT NothingMissed
CHECK_DEADLOCK FALSE
