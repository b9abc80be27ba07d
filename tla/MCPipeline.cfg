CONSTANTS
  Targets = {"t1", "t2"}
  Deployments <- MCDeployments
  Unset = Unset
  DefaultWorkers = 2
  DefaultQueueSize = 1
  DefaultTimeout = 5
  DefaultInterval = 2
  MaxWorkers = 2
  MaxTicks = 2
SPECIFICATION FairSpec
INVARIANTS
  TypeOK
  TokensHeld
  SignalsAgree
  VerdictFits
  NoFalseTimeout
PROPERTIES
  QueueMoves
  ImplementsAttempts
\* The attempts are bounded.
CHECK_DEADLOCK FALSE
