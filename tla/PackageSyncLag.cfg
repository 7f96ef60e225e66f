SPECIFICATION Spec
CONSTANTS
  p1 = p1
  p2 = p2
  Packages = {p1, p2}
  Themes = {p2}
  BatchSize = 2
  MaxMoves = 2
  Lag = {p1, p2}
  Paced = {p1, p2}
  Closures = {}
  Permanent = {}
INVARIANT TypeOK
INVARIANT NoStrandedRelease
