CONSTANTS
  Targets = {t1}
  Scrapes = {s1}
  MaxJobs = 1
  MaxProbes = 1
SPECIFICATION Spec
PROPERTIES
  ActiveKeepsSeries
