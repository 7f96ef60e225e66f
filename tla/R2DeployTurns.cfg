SPECIFICATION TurnsSpec
CONSTANTS
  p1 = p1
  pipeline = pipeline
  op = op
  Packages = {p1}
  Kinds = {"main", "dev"}
  Pipeline = pipeline
  Operators = {op}
  Retain = 1
  MaxBuilds = 3
  MaxData = 1
  Status = "any"
  Faults = TRUE
  SweepFails = FALSE
INVARIANT TypeOK
INVARIANT CurrentComplete
PROPERTY HashClearedOnlyWhenGone
PROPERTY GoneInTheEnd
CHECK_DEADLOCK FALSE
