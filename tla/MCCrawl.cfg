SPECIFICATION FairSpec
CONSTANTS
  k1 = k1
  k2 = k2
  k3 = k3
  Key = {k1, k2, k3}
  Width = 16
  DEFAULT_LIMIT = 2
  Absent = Absent
  Nothing = Nothing
  MaxTime = 4
  MaxLosses = 1
  Crawls <- MCCrawls
CHECK_DEADLOCK FALSE
INVARIANTS
  TypeOK
  CrawlIsComplete
  NothingTwice
  CarefulCrawlIsComplete
PROPERTIES
  CrawlEnds
  LinksAdvance
