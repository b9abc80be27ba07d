---------------------------- MODULE ShardingScan ----------------------------
(***************************************************************************)
(* evalShardingOwner (pkg/prober/sharding.go), the loop.  Every replica    *)
(* scans its own peer list for the same target.  The lists come from       *)
(* iterating an informer's store, a Go map, so two replicas with the same  *)
(* peers have them in different orders; and while the replicas learn of a  *)
(* scaling event they have different peers.                                *)
(***************************************************************************)
EXTENDS Sharding, Sequences

CONSTANT PeerLists      \* the peer lists a replica may hold

ASSUME PeerListsAssumption == PeerLists \subseteq Seq(Pods)

VARIABLES
  target,         \* the target every replica evaluates
  peers,          \* peers[r]: clusterPodIPs of replica r
  selfPodIP,      \* selfPodIP[r]: POD_IP of replica r, possibly unset
  pc,             \* pc[r]: "scan" in the loop, "done" after the return
  i, v,           \* loop indices of replica r (i is 1-based here)
  highestHash,    \* the highest hash seen by replica r
  selectedPod,    \* the pod it belongs to, NoPod for the empty string
  isOwner         \* what the call returned

vars == <<target, peers, selfPodIP, pc, i, v, highestHash, selectedPod, isOwner>>

PeerSet(r) == {peers[r][n] : n \in 1 .. Len(peers[r])}

\* The early return: without an identity or without peers a replica owns all.
OwnsEverything(self, list) == self = NoPod \/ Len(list) = 0

Init ==
  /\ target \in Addresses
  /\ peers \in [Pods -> PeerLists]
  /\ selfPodIP \in {f \in [Pods -> Pods \cup {NoPod}] :
                      \A r \in Pods : f[r] \in {r, NoPod}}
  /\ pc = [r \in Pods |->
             IF OwnsEverything(selfPodIP[r], peers[r]) THEN "done" ELSE "scan"]
  /\ isOwner = [r \in Pods |-> OwnsEverything(selfPodIP[r], peers[r])]
  /\ i = [r \in Pods |-> 1]
  /\ v = [r \in Pods |-> 0]
  /\ highestHash = [r \in Pods |-> 0]
  /\ selectedPod = [r \in Pods |-> NoPod]

\* Mutants of TakesHash: without the first-iteration test a peer whose hashes
\* are all 0 is never selected; with a maximum per peer the last peer wins.
TakesHash_NoFirstTest(r, h) == h > highestHash[r]
TakesHash_PerPeer(r, h) == v[r] = 0 \/ h > highestHash[r]

\* Mutant of TakesHash: a tie goes to the last peer of the list.
TakesHash_LastOfTie(r, h) == h >= highestHash[r]

\* The test in the loop body.  The first virtual node of the first peer is
\* always taken: highestHash starts at 0, which is also a hash.
TakesHash(r, h) == (i[r] = 1 /\ v[r] = 0) \/ h > highestHash[r]

\* Mutant of LastVNode: the inner loop runs once too often.
LastVNode_OffByOne(r) == v[r] = vnodesPerPeer

\* The inner loop ends after this iteration.
LastVNode(r) == v[r] + 1 = vnodesPerPeer

\* One iteration of the inner loop.
Examine(r) ==
  /\ pc[r] = "scan"
  /\ i[r] <= Len(peers[r])
  /\ LET pod == peers[r][i[r]]
         h   == hash[<<target, pod, v[r]>>]
     IN /\ highestHash' = [highestHash EXCEPT ![r] = IF TakesHash(r, h) THEN h ELSE @]
        /\ selectedPod' = [selectedPod EXCEPT ![r] = IF TakesHash(r, h) THEN pod ELSE @]
        /\ v' = [v EXCEPT ![r] = IF LastVNode(r) THEN 0 ELSE @ + 1]
        /\ i' = [i EXCEPT ![r] = IF LastVNode(r) THEN @ + 1 ELSE @]
  /\ UNCHANGED <<target, peers, selfPodIP, pc, isOwner>>

Finished(r) == i[r] = Len(peers[r]) + 1

\* The loop is over: compare the selected pod with this replica.
Return(r) ==
  /\ pc[r] = "scan"
  /\ Finished(r)
  /\ pc' = [pc EXCEPT ![r] = "done"]
  /\ isOwner' = [isOwner EXCEPT ![r] = selectedPod[r] = selfPodIP[r]]
  /\ UNCHANGED <<target, peers, selfPodIP, i, v, highestHash, selectedPod>>

Next == \E r \in Pods : Examine(r) \/ Return(r)

Spec == Init /\ [][Next]_vars

-----------------------------------------------------------------------------
\* Type invariant.
TypeOK ==
  /\ target \in Addresses
  /\ peers \in [Pods -> PeerLists]
  /\ selfPodIP \in [Pods -> Pods \cup {NoPod}]
  /\ \A r \in Pods : selfPodIP[r] \in {r, NoPod}
  /\ pc \in [Pods -> {"scan", "done"}]
  /\ i \in [Pods -> Nat \ {0}]
  /\ v \in [Pods -> VNodes]
  /\ highestHash \in [Pods -> Nat]
  /\ selectedPod \in [Pods -> Pods \cup {NoPod}]
  /\ isOwner \in [Pods -> BOOLEAN]

\* What the loop returns is the declarative ownership test over the set of
\* peers: neither the order of the list nor a repeated peer matters.
ScanIsRendezvous ==
  NoTies(target) =>
    \A r \in Pods : pc[r] = "done" =>
      (isOwner[r] <=> evalShardingOwner(target, selfPodIP[r], PeerSet(r)))

\* The places of r's list whose peer has the highest hash: several when the
\* hashes of two pods tie, or when a peer is repeated.
Winners(r) ==
  {n \in 1 .. Len(peers[r]) : HighestHash(target, peers[r][n], PeerSet(r))}

\* Strict > at sharding.go:72: of the peers whose hashes tie the first in the
\* list is selected, so the outcome depends on the list and not on the replica.
TiesGoToFirst ==
  \A r \in Pods :
    pc[r] = "done" /\ ~OwnsEverything(selfPodIP[r], peers[r]) =>
      \E n \in Winners(r) :
        /\ \A m \in Winners(r) : n <= m
        /\ selectedPod[r] = peers[r][n]
        /\ isOwner[r] <=> selfPodIP[r] = peers[r][n]

\* All the replicas of a view know their IP, hold that view and have decided.
Settled(view) ==
  /\ view # {}
  /\ \A r \in view : pc[r] = "done" /\ selfPodIP[r] = r /\ PeerSet(r) = view

\* "Only the pod with the highest hash value assumes exclusive responsibility"
\* (ARCHITECTURE.md): replicas that agree on the peers elect exactly one owner,
\* whatever the order in which each one lists them if no hashes tie, and
\* whatever ties if they list them in one order.
ExactlyOneOwner ==
  \A view \in SUBSET Pods :
    /\ Settled(view)
    /\ NoTies(target) \/ \A r, s \in view : peers[r] = peers[s]
    => \E r \in view : isOwner[r] /\ \A s \in view : isOwner[s] => s = r

\* ADR 0008, minimal target churn: when a pod joins, a target either stays
\* with the pod the smaller view selects or moves to the new pod.
MinimalChurn ==
  NoTies(target) =>
    \A r, s, new \in Pods :
      (/\ pc[r] = "done" /\ selfPodIP[r] = r /\ PeerSet(r) # {}
       /\ pc[s] = "done" /\ selfPodIP[s] = s
       /\ new \notin PeerSet(r) /\ PeerSet(s) = PeerSet(r) \cup {new})
      => selectedPod[s] \in {selectedPod[r], new}
=============================================================================
