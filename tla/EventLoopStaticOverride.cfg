CONSTANTS
  Pods <- MCPods
  Addresses = {"a1"}
  NoPod = NoPod
  vnodesPerPeer = 1
  hash <- MCHash
  SliceKeys = {"s1"}
  Options = {"verify", "skip"}
  DynamicOptions = "verify"
  NoTarget = NoTarget
  selfPodIP = "p1"
  EventsCap = 1
  SliceHandlers = {slice}
  StaticHandlers = {static}
  PeerHandlers = {}
SPECIFICATION LoopSpec
INVARIANTS
  SchedulerProbesEntry
