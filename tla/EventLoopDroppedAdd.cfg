CONSTANTS
  Pods <- MCPods
  Addresses = {"a1", "a2"}
  NoPod = NoPod
  vnodesPerPeer = 1
  hash <- MCHash
  SliceKeys = {"s1"}
  Options = {"verify"}
  DynamicOptions = "verify"
  NoTarget = NoTarget
  selfPodIP = "p1"
  EventsCap = 1
  SliceHandlers = {slice}
  StaticHandlers = {}
  PeerHandlers = {}
SPECIFICATION LoopSpec
INVARIANTS
  ActiveIsProbed
