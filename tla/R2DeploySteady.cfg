SPECIFICATION SteadySpec
CONSTANTS
  p1 = p1
  p2 = p2
  pipeline = pipeline
  Packages = {p1, p2}
  Kinds = {"main"}
  Pipeline = pipeline
  Operators = {}
  Retain = 1
  MaxBuilds = 4
  MaxData = 3
  Status = "calm"
  Faults = TRUE
  SweepFails = FALSE
INVARIANT ServedFresh
INVARIANT OrphansKnown
CHECK_DEADLOCK FALSE
SYMMETRY Symmetry
