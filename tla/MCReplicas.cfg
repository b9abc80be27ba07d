CONSTANTS
  Pods <- MCPods
  Addresses <- MCAddresses
  NoPod = NoPod
  vnodesPerPeer = 1
  hash <- MCHash
  MaxFaults = 2
SPECIFICATION FairSpec
INVARIANTS
  TypeOK
  QuietIsCurrent
  NoDoubleProbing
  NoTargetForgotten
PROPERTIES
  RebalancingSettles
