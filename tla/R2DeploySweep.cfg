SPECIFICATION TurnsSpec
CONSTANTS
  p1 = p1
  pipeline = pipeline
  op = op
  Packages = {p1}
  Kinds = {"main", "dev"}
  Pipeline = pipeline
  Operators = {op}
  Retain = 1
  MaxBuilds = 3
  MaxData = 1
  Status = "any"
  Faults = TRUE
  SweepFails = TRUE
PROPERTY HashClearedOnlyWhenGone
CHECK_DEADLOCK FALSE
