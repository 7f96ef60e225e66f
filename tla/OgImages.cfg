SPECIFICATION LiveSpec
CONSTANTS
  Packages = {p1, p2}
  NoPackage = NoPackage
  Workers = {w1, w2}
  Buffer = 1
  Totals <- MCTotals
INVARIANT TypeOK
INVARIANT ImageCurrent
PROPERTY RunsEnd
PROPERTY ImagesInTheEnd
