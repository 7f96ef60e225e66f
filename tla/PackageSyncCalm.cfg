SPECIFICATION CalmSpec
CONSTANTS
  p1 = p1
  t1 = t1
  Packages = {p1, t1}
  Themes = {t1}
  BatchSize = 1
  MaxMoves = 4
  Lag = {t1}
  Paced = {t1}
  Closures = {p1}
  Permanent = {p1}
INVARIANT NoStrandedRelease
PROPERTY RevisionPassesOnlyDirtyRows
PROPERTY Converges
