------------------------------ MODULE Sharding ------------------------------
(***************************************************************************)
(* Target ownership (pkg/prober/sharding.go): rendezvous hashing with      *)
(* virtual nodes.  A pod owns a target when, among all the peers, one of   *)
(* its virtual nodes has the highest hash for that target.                 *)
(*                                                                         *)
(* The 64-bit FNV-1a hash is an arbitrary function of (target, pod, virtual*)
(* node): nothing below depends on which one.  This module says what the   *)
(* evaluation returns; ShardingScan is the loop that computes it.          *)
(***************************************************************************)
EXTENDS Naturals

CONSTANTS
  Addresses,      \* target addresses
  Pods,           \* IPs of the prober replicas
  NoPod,          \* POD_IP is unset: the empty string
  vnodesPerPeer,  \* virtual nodes of each peer (100 in the code)
  hash            \* hashTargetPodAndVNode, as a function

VNodes == 0 .. vnodesPerPeer - 1

ASSUME ShardingAssumption ==
  /\ vnodesPerPeer \in Nat \ {0}
  /\ hash \in [Addresses \X Pods \X VNodes -> Nat]
  /\ NoPod \notin Pods

\* Pod has the highest hash for target among the virtual nodes of peers.
HighestHash(target, pod, peers) ==
  /\ pod \in peers
  /\ \E v \in VNodes : \A p \in peers, w \in VNodes :
        hash[<<target, p, w>>] <= hash[<<target, pod, v>>]

\* A replica that does not know its own IP, or that has seen no peer yet,
\* owns every target.
evalShardingOwner(target, selfPodIP, peers) ==
  \/ selfPodIP = NoPod
  \/ peers = {}
  \/ HighestHash(target, selfPodIP, peers)

\* No two pods collide on target.
NoTies(target) ==
  \A p, q \in Pods : p # q =>
    \A v, w \in VNodes : hash[<<target, p, v>>] # hash[<<target, q, w>>]
=============================================================================
