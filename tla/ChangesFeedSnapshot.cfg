SPECIFICATION Spec
CONSTANTS
  Packages = {p1}
  Pipeline = Pipeline
  Hand = Hand
  Retention = 1
  MaxClock = 2
  MaxRuns = 2
  MaxData = 1
PROPERTY DeletedWereGone
CHECK_DEADLOCK FALSE
