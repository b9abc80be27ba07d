CONSTANTS
  Pods <- MCPods
  Addresses = {"a2"}
  NoPod = NoPod
  vnodesPerPeer = 1
  hash <- MCHash
  SliceKeys = {"s1"}
  Options = {"verify"}
  DynamicOptions = "verify"
  NoTarget = NoTarget
  selfPodIP = "p1"
  EventsCap = 1
  SliceHandlers = {slice}
  StaticHandlers = {}
  PeerHandlers = {peer}
SPECIFICATION LoopSpec
INVARIANTS
  NoLeakedScheduler
