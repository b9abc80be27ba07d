CONSTANTS
  Targets = {t1}
  Handlers = {handler, watchPeers}
  Grouped = {watchPeers}
  Workers = {w1, w2}
  EventsCap = 1
  QueueSize = 1
  MaxLeaving = 2
SPECIFICATION FairSpec
INVARIANTS
  TypeOK
PROPERTIES
  NothingStartsLate
  OnlyStragglersPanic
  SigtermEnds
\* The process ends.
CHECK_DEADLOCK FALSE
