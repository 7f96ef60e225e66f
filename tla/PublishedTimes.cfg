SPECIFICATION Spec
CONSTANTS
  Theme = FALSE
  Listings <- MCListings
  Commits <- MCCommits
  Chunk = 1
  Window = 1
  MaxClock = 3
  MaxCommits = 3
INVARIANT TypeOK
INVARIANT ServedTimesCover
INVARIANT HashCurrent
INVARIANT CurrentIsHighest
PROPERTY TimesOnlyForward
PROPERTY VersionsSettle
CHECK_DEADLOCK FALSE
