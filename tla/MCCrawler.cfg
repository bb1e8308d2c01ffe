SPECIFICATION FairSpec
CONSTANTS
  s = s
  a = a
  b = b
  c = c
  d = d
  e = e
  Outside = Outside
  Pages <- MCPages
  Start = s
  Sites <- MCSites
  MaxDepth = 2
  MaxPages = 4
  MaxFaults = 1
INVARIANTS CrawlComplete
PROPERTY SitemapDrains
