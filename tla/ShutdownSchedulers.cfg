CONSTANTS
  Targets = {t1}
  Handlers = {handler, watchPeers}
  Grouped = {watchPeers}
  Workers = {w1}
  EventsCap = 1
  QueueSize = 1
  MaxLeaving = 2
SPECIFICATION Spec
INVARIANTS
  JobsClosedAfterSchedulers
\* The process ends.
CHECK_DEADLOCK FALSE
