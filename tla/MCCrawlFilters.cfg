SPECIFICATION UntiedSpec
CONSTANTS
  k1 = k1
  k2 = k2
  k3 = k3
  Key = {k1, k2, k3}
  Width = 16
  DEFAULT_LIMIT = 2
  Absent = Absent
  Nothing = Nothing
  MaxTime = 4
  MaxLosses = 0
  Crawls <- FilteredCrawls
CHECK_DEADLOCK FALSE
SYMMETRY MCSymmetry
INVARIANTS
  FilterIsKept
