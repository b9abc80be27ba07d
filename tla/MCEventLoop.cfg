CONSTANTS
  Pods <- MCPods
  Addresses = {"a2"}
  NoPod = NoPod
  vnodesPerPeer = 1
  hash <- MCHash
  SliceKeys = {"s1", "s2"}
  Options = {"verify"}
  DynamicOptions = "verify"
  NoTarget = NoTarget
  selfPodIP = "p1"
  EventsCap = 1
  SliceHandlers = {slice}
  StaticHandlers = {static}
  PeerHandlers = {peer, watch}
SPECIFICATION LoopFairSpec
INVARIANTS LoopTypeOK SchedulersFollowRegistry RunningIsOwned ActiveIsOwned
PROPERTIES RemovalStopsScheduler ImplementsDeletion
