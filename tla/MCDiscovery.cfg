CONSTANTS
  Pods <- MCPods
  Addresses = {"a1", "a2"}
  NoPod = NoPod
  vnodesPerPeer = 1
  hash <- MCHash
  SliceKeys = {"s1", "s2"}
  Options = {"verify", "skip"}
  DynamicOptions = "verify"
  NoTarget = NoTarget
  selfPodIP = "p1"
  EventsCap = 1
  SliceHandlers = {slice}
  StaticHandlers = {static}
  PeerHandlers = {peer}
  Endpoints = {"e1"}
  Routes = {"default", "tcp"}
  DefaultRoute = "default"
  address <- MCAddress
  Services = {"svc"}
  serviceOf <- MCServiceOf
  StaticKeys = {"c1", "c2"}
  NoObject = NoObject
  Invalid = Invalid
  MaxChanges = 3
  MaxOthers = 1
SPECIFICATION FairSpec
INVARIANTS
  TypeOK
  NoPhantoms
  StaticFollowsObjects
  SchedulersFollowObjects
PROPERTIES
  StaticSurvivesSlices
  DiscoveryConverges
\* The objects stop changing.
CHECK_DEADLOCK FALSE
