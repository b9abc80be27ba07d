CONSTANTS
  Pods <- MCPods
  Addresses <- MCAddresses
  NoPod = NoPod
  vnodesPerPeer = 2
  hash <- MCHash
  PeerLists <- MCPeerLists
SPECIFICATION Spec
INVARIANTS
  TypeOK
  ScanIsRendezvous
  TiesGoToFirst
  ExactlyOneOwner
  MinimalChurn
\* Every call returns: the model stops when the three replicas have decided.
CHECK_DEADLOCK FALSE
