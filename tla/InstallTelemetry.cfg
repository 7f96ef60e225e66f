SPECIFICATION LiveSpec
CONSTANTS
  Packages = {p1}
  NoPackage = NoPackage
  Clients = {c1}
  Timer = Timer
  Operator = Operator
  Bucket = 1
  Window = 1
  Retention = 2
  ManualAt = {1, 3}
  MaxClock = 4
  MaxInstalls = 2
INVARIANT TypeOK
INVARIANT NothingSkipped
INVARIANT LastInstalledCovers
PROPERTY TotalsOnlyGrow
PROPERTY CountsInstalls
PROPERTY CountsInTheEnd
