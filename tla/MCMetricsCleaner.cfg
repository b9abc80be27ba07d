CONSTANTS
  Targets = {t1, t2}
  Scrapes = {s1, s2}
  MaxJobs = 1
  MaxProbes = 1
SPECIFICATION FairSpec
INVARIANTS
  TypeOK
  SeriesAccounted
PROPERTIES
  MarkedIsDeleted
  ImplementsDeletion
