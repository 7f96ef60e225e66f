SPECIFICATION Spec
CONSTANTS
  v1 = v1
  NoVendor = none
  Plugins = {p1, p2, p3, p4}
  Vendors = {v1}
  Author <- OneVendor
  Checkers = {a1}
  Window = 1
  Threshold = 2
  MaxClock = 4
INVARIANT AdjacentShareNothing
SYMMETRY Symmetry
