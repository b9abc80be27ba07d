------------------------- MODULE ShardingScanProofs -------------------------
(***************************************************************************)
(* Proofs about ShardingScan, for any pods, peer lists, number of virtual  *)
(* nodes and hash function.                                                *)
(***************************************************************************)
EXTENDS ShardingScan, TLAPS

-----------------------------------------------------------------------------
(* Rendezvous hashing.                                                     *)

\* Without ties, two pods that both have the highest hash are the same.
LEMMA HighestHashUnique ==
  ASSUME NEW t \in Addresses, NEW view \in SUBSET Pods,
         NEW p, NEW q, NoTies(t), HighestHash(t, p, view), HighestHash(t, q, view)
  PROVE  p = q
<1>1. PICK a \in VNodes : \A s \in view, w \in VNodes : hash[<<t, s, w>>] <= hash[<<t, p, a>>]
  BY DEF HighestHash
<1>2. PICK b \in VNodes : \A s \in view, w \in VNodes : hash[<<t, s, w>>] <= hash[<<t, q, b>>]
  BY DEF HighestHash
<1>3. p \in view /\ q \in view
  BY DEF HighestHash
<1>4. hash[<<t, p, a>>] \in Nat /\ hash[<<t, q, b>>] \in Nat
  BY <1>3, ShardingAssumption
<1>5. hash[<<t, p, a>>] = hash[<<t, q, b>>]
  BY <1>1, <1>2, <1>3, <1>4
<1>6. QED BY <1>3, <1>5 DEF NoTies

\* A pod that has the highest hash in a view has it in every smaller view it
\* belongs to.
LEMMA HighestHashMonotone ==
  ASSUME NEW t, NEW view, NEW smaller \in SUBSET view, NEW p \in smaller,
         HighestHash(t, p, view)
  PROVE  HighestHash(t, p, smaller)
BY DEF HighestHash

-----------------------------------------------------------------------------
(* The loop invariant: highestHash is the maximum over the pairs examined  *)
(* so far and selectedPod the first peer of the list that reached it.      *)

Examined(r, n, w) ==
  /\ n \in 1 .. Len(peers[r])
  /\ w \in VNodes
  /\ n < i[r] \/ (n = i[r] /\ w < v[r])

\* The peer at place n was selected for its virtual node w: no peer before it
\* has so high a hash.
SelectedAt(r, n, w) ==
  /\ Examined(r, n, w)
  /\ hash[<<target, peers[r][n], w>>] = highestHash[r]
  /\ selectedPod[r] = peers[r][n]
  /\ \A m, u : Examined(r, m, u) /\ m < n =>
                 hash[<<target, peers[r][m], u>>] < highestHash[r]

LoopInv(r) ==
  /\ i[r] <= Len(peers[r]) + 1
  /\ i[r] = Len(peers[r]) + 1 => v[r] = 0
  /\ \A n, w : Examined(r, n, w) => hash[<<target, peers[r][n], w>>] <= highestHash[r]
  /\ \/ i[r] = 1 /\ v[r] = 0
     \/ \E n, w : SelectedAt(r, n, w)

Result(r) ==
  IF OwnsEverything(selfPodIP[r], peers[r])
  THEN pc[r] = "done" /\ isOwner[r]
  ELSE pc[r] = "done" => /\ i[r] = Len(peers[r]) + 1
                         /\ isOwner[r] <=> selectedPod[r] = selfPodIP[r]

Inv == TypeOK /\ \A r \in Pods : LoopInv(r) /\ Result(r)

-----------------------------------------------------------------------------
\* The peers of a replica are pods.
LEMMA PeersType ==
  ASSUME TypeOK, NEW r \in Pods
  PROVE  peers[r] \in Seq(Pods) /\ PeerSet(r) \in SUBSET Pods
BY PeerListsAssumption DEF TypeOK, PeerSet

\* Before the loop starts nothing has been examined.
LEMMA InvInit == Init => Inv
<1> SUFFICES ASSUME Init PROVE Inv
  OBVIOUS
<1>1. 0 \in VNodes
  BY ShardingAssumption DEF VNodes
<1>2. TypeOK
  <2>1. /\ target \in Addresses
        /\ peers \in [Pods -> PeerLists]
        /\ selfPodIP \in [Pods -> Pods \cup {NoPod}]
        /\ \A r \in Pods : selfPodIP[r] \in {r, NoPod}
    BY DEF Init
  <2>2. /\ pc \in [Pods -> {"scan", "done"}]
        /\ isOwner \in [Pods -> BOOLEAN]
    BY DEF Init, OwnsEverything
  <2>3. /\ i \in [Pods -> Nat \ {0}]
        /\ v \in [Pods -> VNodes]
        /\ highestHash \in [Pods -> Nat]
        /\ selectedPod \in [Pods -> Pods \cup {NoPod}]
    BY <1>1 DEF Init
  <2>4. QED BY <2>1, <2>2, <2>3 DEF TypeOK
<1>3. ASSUME NEW r \in Pods PROVE LoopInv(r) /\ Result(r)
  <2>1. i[r] = 1 /\ v[r] = 0 /\ Len(peers[r]) \in Nat
    BY <1>2, PeersType DEF Init
  <2>2. \A n, w : ~Examined(r, n, w)
    BY <2>1 DEF Examined, VNodes
  <2>3. LoopInv(r)
    BY <2>1, <2>2 DEF LoopInv
  <2>4. Result(r)
    BY DEF Init, Result
  <2>5. QED BY <2>3, <2>4
<1>4. QED BY <1>2, <1>3 DEF Inv

\* No step leaves the types.
LEMMA TypeStep == ASSUME TypeOK, [Next]_vars PROVE TypeOK'
<1>1. ASSUME NEW r \in Pods, Examine(r) PROVE TypeOK'
  <2>1. /\ peers[r][i[r]] \in Pods
        /\ v[r] \in VNodes
        /\ target \in Addresses
    BY <1>1, PeersType DEF Examine, TypeOK
  <2>2. hash[<<target, peers[r][i[r]], v[r]>>] \in Nat
    BY <2>1, ShardingAssumption
  <2>3. IF LastVNode(r) THEN TRUE ELSE v[r] + 1 \in VNodes
    BY <2>1, ShardingAssumption DEF LastVNode, VNodes
  <2>4. 0 \in VNodes
    BY ShardingAssumption DEF VNodes
  <2>5. /\ highestHash' \in [Pods -> Nat]
        /\ selectedPod' \in [Pods -> Pods \cup {NoPod}]
    BY <1>1, <2>1, <2>2 DEF Examine, TypeOK
  <2>6. v' \in [Pods -> VNodes]
    BY <1>1, <2>3, <2>4 DEF Examine, TypeOK
  <2>7. i' \in [Pods -> Nat \ {0}]
    BY <1>1 DEF Examine, TypeOK
  <2>8. QED BY <1>1, <2>5, <2>6, <2>7 DEF Examine, TypeOK
<1>2. ASSUME NEW r \in Pods, Return(r) PROVE TypeOK'
  BY <1>2 DEF Return, TypeOK
<1>3. CASE UNCHANGED vars
  BY <1>3 DEF vars, TypeOK
<1>4. QED BY <1>1, <1>2, <1>3 DEF Next

\* One iteration examines exactly one more pair.
LEMMA ExamineStep ==
  ASSUME Inv, NEW r \in Pods, Examine(r)
  PROVE  /\ i'[r] \in Nat /\ v'[r] \in VNodes
         /\ i'[r] <= Len(peers[r]) + 1
         /\ i'[r] = Len(peers[r]) + 1 => v'[r] = 0
         /\ ~(i'[r] = 1 /\ v'[r] = 0)
         /\ \A n, w : Examined(r, n, w)' <=> Examined(r, n, w) \/ (n = i[r] /\ w = v[r])
<1>1. /\ i[r] \in Nat \ {0} /\ v[r] \in VNodes
      /\ i[r] <= Len(peers[r])
      /\ peers' = peers /\ Len(peers[r]) \in Nat
  BY PeersType DEF Examine, Inv, TypeOK
<1>2. VNodes = 0 .. vnodesPerPeer - 1 /\ vnodesPerPeer \in Nat \ {0}
  BY ShardingAssumption DEF VNodes
<1>3. CASE LastVNode(r)
  <2>1. i'[r] = i[r] + 1 /\ v'[r] = 0
    BY <1>3 DEF Examine, Inv, TypeOK
  <2>2. v[r] = vnodesPerPeer - 1
    BY <1>1, <1>2, <1>3 DEF LastVNode
  <2>3. /\ i'[r] \in Nat /\ v'[r] \in VNodes
        /\ i'[r] <= Len(peers[r]) + 1
        /\ ~(i'[r] = 1 /\ v'[r] = 0)
    BY <1>1, <1>2, <2>1
  <2>4. ASSUME NEW n, NEW w
        PROVE  Examined(r, n, w)' <=> Examined(r, n, w) \/ (n = i[r] /\ w = v[r])
    <3>1. w \in VNodes => (w < v[r] \/ w = v[r]) /\ ~(w < 0)
      BY <1>1, <1>2, <2>2
    <3>2. n \in 1 .. Len(peers[r]) => (n < i[r] + 1 <=> n < i[r] \/ n = i[r])
      BY <1>1
    <3>3. i[r] \in 1 .. Len(peers[r])
      BY <1>1
    <3>4. QED BY <1>1, <2>1, <3>1, <3>2, <3>3 DEF Examined
  <2>5. QED BY <2>1, <2>3, <2>4
<1>4. CASE ~LastVNode(r)
  <2>1. i'[r] = i[r] /\ v'[r] = v[r] + 1
    BY <1>4 DEF Examine, Inv, TypeOK
  <2>2. v[r] + 1 \in VNodes
    BY <1>1, <1>2, <1>4 DEF LastVNode
  <2>3. /\ i'[r] \in Nat /\ v'[r] \in VNodes
        /\ i'[r] < Len(peers[r]) + 1
        /\ ~(i'[r] = 1 /\ v'[r] = 0)
    BY <1>1, <1>2, <2>1, <2>2
  <2>4. ASSUME NEW n, NEW w
        PROVE  Examined(r, n, w)' <=> Examined(r, n, w) \/ (n = i[r] /\ w = v[r])
    <3>1. w \in VNodes => (w < v[r] + 1 <=> w < v[r] \/ w = v[r])
      BY <1>1, <1>2
    <3>2. i[r] \in 1 .. Len(peers[r])
      BY <1>1
    <3>3. QED BY <1>1, <2>1, <3>1, <3>2 DEF Examined
  <2>5. i'[r] <= Len(peers[r]) + 1 /\ i'[r] # Len(peers[r]) + 1
    BY <1>1, <2>3
  <2>6. QED BY <2>3, <2>4, <2>5
<1>5. QED BY <1>3, <1>4

\* An iteration preserves the loop invariant: the best pair so far is the best
\* of the examined ones, whichever of the two it was.
LEMMA ExamineKeepsLoopInv ==
  ASSUME Inv, NEW r \in Pods, Examine(r)
  PROVE  LoopInv(r)'
<1> DEFINE pod == peers[r][i[r]]
           h   == hash[<<target, pod, v[r]>>]
<1>1. /\ peers' = peers /\ target' = target
      /\ highestHash'[r] = IF TakesHash(r, h) THEN h ELSE highestHash[r]
      /\ selectedPod'[r] = IF TakesHash(r, h) THEN pod ELSE selectedPod[r]
  BY DEF Examine, Inv, TypeOK
<1>2. h \in Nat /\ highestHash[r] \in Nat
  <2>1. pod \in Pods /\ v[r] \in VNodes /\ target \in Addresses
    BY PeersType DEF Examine, Inv, TypeOK
  <2>2. QED BY <2>1, ShardingAssumption DEF Inv, TypeOK
<1>3. ASSUME NEW n, NEW w, Examined(r, n, w)
      PROVE  /\ hash[<<target, peers[r][n], w>>] \in Nat
             /\ hash[<<target, peers[r][n], w>>] <= highestHash[r]
  <2>1. peers[r][n] \in Pods /\ w \in VNodes /\ target \in Addresses
    BY <1>3, PeersType DEF Examined, Inv, TypeOK
  <2>2. QED BY <1>3, <2>1, ShardingAssumption DEF Inv, LoopInv
<1>4. /\ i'[r] <= Len(peers[r]) + 1
      /\ i'[r] = Len(peers[r]) + 1 => v'[r] = 0
      /\ \A n, w : Examined(r, n, w)' <=> Examined(r, n, w) \/ (n = i[r] /\ w = v[r])
  BY ExamineStep
<1>5. i[r] = 1 /\ v[r] = 0 => \A n, w : ~Examined(r, n, w)
  BY DEF Examined, VNodes
<1> HIDE DEF h
<1>6. \A n, w : Examined(r, n, w)' => hash[<<target, peers[r][n], w>>] <= highestHash'[r]
  <2>1. SUFFICES ASSUME NEW n, NEW w, Examined(r, n, w)'
                 PROVE  hash[<<target, peers[r][n], w>>] <= highestHash'[r]
    OBVIOUS
  <2>2. CASE n = i[r] /\ w = v[r]
    <3>1. hash[<<target, peers[r][n], w>>] = h
      BY <2>2 DEF h
    <3>2. QED BY <1>1, <1>2, <3>1 DEF TakesHash
  <2>3. CASE Examined(r, n, w)
    BY <1>1, <1>2, <1>3, <1>5, <2>3 DEF TakesHash
  <2>4. QED BY <1>4, <2>1, <2>2, <2>3
<1>7. \E n, w : SelectedAt(r, n, w)'
  <2>1. CASE TakesHash(r, h)
    <3>1. PICK n, w : n = i[r] /\ w = v[r]
      OBVIOUS
    <3>2. Examined(r, n, w)'
      BY <1>4, <3>1
    <3>3. ASSUME NEW m, NEW u, Examined(r, m, u)', m < n
          PROVE  hash[<<target, peers[r][m], u>>] < highestHash'[r]
      <4>1. n \in Nat
        BY <3>1 DEF Inv, TypeOK
      <4>2. m # n
        BY <3>3, <4>1
      <4>3. Examined(r, m, u) /\ ~(i[r] = 1 /\ v[r] = 0)
        BY <1>4, <1>5, <3>1, <3>3, <4>2
      <4>4. QED BY <1>1, <1>2, <1>3, <2>1, <4>3 DEF TakesHash
    <3>4. SelectedAt(r, n, w)'
      BY <1>1, <2>1, <3>1, <3>2, <3>3 DEF SelectedAt, h
    <3>5. QED BY <3>4
  <2>2. CASE ~TakesHash(r, h)
    <3>1. ~(i[r] = 1 /\ v[r] = 0)
      BY <2>2 DEF TakesHash
    <3>2. PICK n, w : SelectedAt(r, n, w)
      BY <3>1 DEF Inv, LoopInv
    <3>3. ~(i[r] < n)
      BY <3>2 DEF SelectedAt, Examined, Inv, TypeOK
    <3>4. SelectedAt(r, n, w)'
      BY <1>1, <1>4, <2>2, <3>2, <3>3 DEF SelectedAt
    <3>5. QED BY <3>4
  <2>3. QED BY <2>1, <2>2
<1>8. QED BY <1>1, <1>4, <1>6, <1>7 DEF LoopInv

\* A step of one replica leaves what the invariant says of another.
LEMMA OthersUnchanged ==
  ASSUME Inv, NEW r \in Pods,
         UNCHANGED <<target, peers, selfPodIP>>,
         pc'[r] = pc[r], i'[r] = i[r], v'[r] = v[r], highestHash'[r] = highestHash[r],
         selectedPod'[r] = selectedPod[r], isOwner'[r] = isOwner[r]
  PROVE  LoopInv(r)' /\ Result(r)'
<1>1. \A n, w : Examined(r, n, w)' <=> Examined(r, n, w)
  BY DEF Examined
<1>2. LoopInv(r)'
  <2>1. LoopInv(r)
    BY DEF Inv
  <2>2. \A n, w : SelectedAt(r, n, w) => SelectedAt(r, n, w)'
    BY <1>1 DEF SelectedAt
  <2>3. QED BY <1>1, <2>1, <2>2 DEF LoopInv
<1>3. Result(r)'
  BY DEF Inv, Result
<1>4. QED BY <1>2, <1>3

\* Every step preserves the invariant.
LEMMA InvStep == Inv /\ [Next]_vars => Inv'
<1>1. ASSUME Inv, NEW r \in Pods, Examine(r) PROVE Inv'
  <2>1. ASSUME NEW s \in Pods, s # r PROVE LoopInv(s)' /\ Result(s)'
    BY <1>1, <2>1, OthersUnchanged DEF Examine, Inv, TypeOK
  <2>2. Result(r)'
    BY <1>1 DEF Examine, Inv, TypeOK, Result
  <2>3. QED BY <1>1, <2>1, <2>2, TypeStep, ExamineKeepsLoopInv DEF Inv, Next
<1>2. ASSUME Inv, NEW r \in Pods, Return(r) PROVE Inv'
  <2>1. ASSUME NEW s \in Pods, s # r PROVE LoopInv(s)' /\ Result(s)'
    BY <1>2, <2>1, OthersUnchanged DEF Return, Inv, TypeOK
  <2>2. LoopInv(r)'
    <3>1. \A n, w : Examined(r, n, w)' <=> Examined(r, n, w)
      BY <1>2 DEF Examined, Return
    <3>2. QED BY <1>2, <3>1 DEF Return, Inv, LoopInv, SelectedAt
  <2>3. Result(r)'
    BY <1>2 DEF Return, Finished, Inv, TypeOK, Result
  <2>4. QED BY <1>2, <2>1, <2>2, <2>3, TypeStep DEF Inv, Next
<1>3. ASSUME Inv, UNCHANGED vars PROVE Inv'
  BY <1>3, OthersUnchanged, TypeStep DEF Inv, vars
<1>4. QED BY <1>1, <1>2, <1>3 DEF Next

-----------------------------------------------------------------------------
(* What a replica that went through its list selected.                     *)

\* A loop that ran to its end selected the first of the pods with the highest
\* hash.
LEMMA SelectedIsFirst ==
  ASSUME Inv, NEW r \in Pods, pc[r] = "done", ~OwnsEverything(selfPodIP[r], peers[r])
  PROVE  /\ \E n \in Winners(r) :
              selectedPod[r] = peers[r][n] /\ \A m \in Winners(r) : n <= m
         /\ isOwner[r] <=> selectedPod[r] = selfPodIP[r]
<1>1. /\ i[r] = Len(peers[r]) + 1
      /\ isOwner[r] <=> selectedPod[r] = selfPodIP[r]
  BY DEF Inv, Result
<1>2. Len(peers[r]) \in Nat \ {0}
  BY PeersType DEF OwnsEverything, Inv
<1>3. \A n \in 1 .. Len(peers[r]), w \in VNodes : Examined(r, n, w)
  BY <1>1, <1>2 DEF Examined
<1>4. PICK n, u : SelectedAt(r, n, u)
  BY <1>1, <1>2 DEF Inv, LoopInv
<1>5. n \in 1 .. Len(peers[r]) /\ u \in VNodes
  BY <1>4 DEF SelectedAt, Examined
<1>6. \A p \in PeerSet(r), w \in VNodes :
        hash[<<target, p, w>>] <= hash[<<target, peers[r][n], u>>]
  BY <1>3, <1>4 DEF SelectedAt, PeerSet, Inv, LoopInv
<1>7. HighestHash(target, peers[r][n], PeerSet(r))
  BY <1>5, <1>6 DEF HighestHash, PeerSet
<1>8. ASSUME NEW m \in Winners(r) PROVE n <= m
  <2>1. m \in 1 .. Len(peers[r]) /\ HighestHash(target, peers[r][m], PeerSet(r))
    BY DEF Winners
  <2>2. PICK w \in VNodes : \A p \in PeerSet(r), x \in VNodes :
          hash[<<target, p, x>>] <= hash[<<target, peers[r][m], w>>]
    BY <2>1 DEF HighestHash
  <2>3. highestHash[r] <= hash[<<target, peers[r][m], w>>]
    BY <1>4, <1>5, <2>2 DEF SelectedAt, PeerSet
  <2>4. hash[<<target, peers[r][m], w>>] \in Nat /\ highestHash[r] \in Nat
    <3>1. peers[r][m] \in Pods /\ target \in Addresses
      BY <2>1, PeersType DEF Inv, TypeOK
    <3>2. QED BY <3>1, ShardingAssumption DEF Inv, TypeOK
  <2>5. ~(m < n)
    BY <1>3, <1>4, <2>1, <2>3, <2>4 DEF SelectedAt
  <2>6. QED BY <1>5, <2>1, <2>5
<1>9. n \in Winners(r)
  BY <1>5, <1>7 DEF Winners
<1>10. QED BY <1>1, <1>4, <1>8, <1>9 DEF SelectedAt

\* In particular it selected a pod with the highest hash.
LEMMA SelectedIsHighest ==
  ASSUME Inv, NEW r \in Pods, pc[r] = "done", ~OwnsEverything(selfPodIP[r], peers[r])
  PROVE  /\ HighestHash(target, selectedPod[r], PeerSet(r))
         /\ isOwner[r] <=> selectedPod[r] = selfPodIP[r]
BY SelectedIsFirst DEF Winners

\* Two replicas with one list select the same pod, ties or not.
LEMMA SameListSameSelection ==
  ASSUME Inv, NEW r \in Pods, NEW s \in Pods, pc[r] = "done", pc[s] = "done",
         ~OwnsEverything(selfPodIP[r], peers[r]), ~OwnsEverything(selfPodIP[s], peers[s]),
         peers[r] = peers[s]
  PROVE  selectedPod[r] = selectedPod[s]
<1>1. PICK n \in Winners(r) :
        selectedPod[r] = peers[r][n] /\ \A k \in Winners(r) : n <= k
  BY SelectedIsFirst
<1>2. PICK m \in Winners(s) :
        selectedPod[s] = peers[s][m] /\ \A k \in Winners(s) : m <= k
  BY SelectedIsFirst
<1>3. Winners(r) = Winners(s)
  BY DEF Winners, PeerSet
<1>4. n \in Nat /\ m \in Nat
  BY PeersType DEF Winners, Inv
<1>5. n <= m /\ m <= n
  BY <1>1, <1>2, <1>3
<1>6. QED BY <1>1, <1>2, <1>4, <1>5

\* A replica that knows its IP and some peer does not own everything.
LEMMA KnowsPeers ==
  ASSUME Inv, NEW r \in Pods, selfPodIP[r] = r, PeerSet(r) # {}
  PROVE  ~OwnsEverything(selfPodIP[r], peers[r])
<1>1. Len(peers[r]) # 0
  BY PeersType DEF PeerSet, Inv
<1>2. QED BY <1>1, ShardingAssumption DEF OwnsEverything

\* A replica that has returned gave the declarative ownership test's answer.
LEMMA DoneIsRendezvous == Inv => ScanIsRendezvous
<1>1. SUFFICES ASSUME Inv, NoTies(target), NEW r \in Pods, pc[r] = "done"
               PROVE  isOwner[r] <=> evalShardingOwner(target, selfPodIP[r], PeerSet(r))
  BY DEF ScanIsRendezvous
<1>2. CASE OwnsEverything(selfPodIP[r], peers[r])
  <2>1. isOwner[r]
    BY <1>1, <1>2 DEF Inv, Result
  <2>2. Len(peers[r]) = 0 => PeerSet(r) = {}
    BY DEF PeerSet
  <2>3. QED BY <1>2, <2>1, <2>2 DEF OwnsEverything, evalShardingOwner
<1>3. CASE ~OwnsEverything(selfPodIP[r], peers[r])
  <2>1. /\ HighestHash(target, selectedPod[r], PeerSet(r))
        /\ isOwner[r] <=> selectedPod[r] = selfPodIP[r]
    BY <1>1, <1>3, SelectedIsHighest
  <2>2. PeerSet(r) # {} /\ selfPodIP[r] # NoPod
    BY <1>3, <2>1 DEF OwnsEverything, HighestHash
  <2>3. target \in Addresses /\ PeerSet(r) \in SUBSET Pods
    BY <1>1, PeersType DEF Inv, TypeOK
  <2>4. HighestHash(target, selfPodIP[r], PeerSet(r)) => selectedPod[r] = selfPodIP[r]
    BY <1>1, <2>1, <2>3, HighestHashUnique
  <2>5. QED BY <2>1, <2>2, <2>4 DEF evalShardingOwner
<1>4. QED BY <1>2, <1>3

-----------------------------------------------------------------------------
(* The theorems.                                                           *)

\* Every reachable state of the loop is well-typed.
THEOREM ScanTypeCorrect == Spec => []TypeOK
<1>1. Inv => TypeOK
  BY DEF Inv
<1>2. QED BY InvInit, InvStep, <1>1, PTL DEF Spec

\* The loop returns the declarative ownership test over the set of peers.
THEOREM ScanCorrect == Spec => []ScanIsRendezvous
BY InvInit, InvStep, DoneIsRendezvous, PTL DEF Spec

\* Of several peers with the highest hash the first in the list is selected.
THEOREM FirstOfTieIsSelected == Spec => []TiesGoToFirst
<1>1. Inv => TiesGoToFirst
  BY SelectedIsFirst DEF TiesGoToFirst
<1>2. QED BY InvInit, InvStep, <1>1, PTL DEF Spec

\* Replicas that agree on the peers elect exactly one owner, in whatever order
\* they list them without ties, whatever ties if they list them in one order.
THEOREM OneOwner == Spec => []ExactlyOneOwner
<1>1. Inv => ExactlyOneOwner
  <2>1. SUFFICES ASSUME Inv, NEW view \in SUBSET Pods, Settled(view),
                        NoTies(target) \/ \A r, s \in view : peers[r] = peers[s]
                 PROVE  \E r \in view : isOwner[r] /\ \A s \in view : isOwner[s] => s = r
    BY DEF ExactlyOneOwner
  <2>2. target \in Addresses
    BY <2>1 DEF Inv, TypeOK
  <2>3. ASSUME NEW r \in view
        PROVE  /\ r \in Pods /\ pc[r] = "done"
               /\ ~OwnsEverything(selfPodIP[r], peers[r])
               /\ HighestHash(target, selectedPod[r], view)
               /\ isOwner[r] <=> selectedPod[r] = r
    <3>1. /\ r \in Pods /\ pc[r] = "done" /\ selfPodIP[r] = r
          /\ PeerSet(r) = view /\ view # {}
      BY <2>1 DEF Settled
    <3>2. QED BY <2>1, <3>1, KnowsPeers, SelectedIsHighest
  <2>4. PICK q \in view : TRUE
    BY <2>1 DEF Settled
  <2>5. selectedPod[q] \in view
    BY <2>3 DEF HighestHash
  <2>6. \A s \in view : selectedPod[s] = selectedPod[q]
    <3>1. CASE NoTies(target)
      BY <2>2, <2>3, <3>1, HighestHashUnique
    <3>2. CASE \A r, s \in view : peers[r] = peers[s]
      BY <2>1, <2>3, <3>2, SameListSameSelection
    <3>3. QED BY <2>1, <3>1, <3>2
  <2>7. WITNESS selectedPod[q] \in view
  <2>8. QED BY <2>3, <2>5, <2>6
<1>2. QED BY InvInit, InvStep, <1>1, PTL DEF Spec

\* When a pod joins, a target stays where it is or moves to the new pod.
THEOREM ChurnIsMinimal == Spec => []MinimalChurn
<1>1. Inv => MinimalChurn
  <2>1. SUFFICES ASSUME Inv, NoTies(target), NEW r \in Pods, NEW s \in Pods, NEW new \in Pods,
                        pc[r] = "done", selfPodIP[r] = r, PeerSet(r) # {},
                        pc[s] = "done", selfPodIP[s] = s,
                        new \notin PeerSet(r), PeerSet(s) = PeerSet(r) \cup {new}
                 PROVE  selectedPod[s] \in {selectedPod[r], new}
    BY DEF MinimalChurn
  <2>2. /\ HighestHash(target, selectedPod[r], PeerSet(r))
        /\ HighestHash(target, selectedPod[s], PeerSet(s))
    BY <2>1, KnowsPeers, SelectedIsHighest
  <2>3. CASE selectedPod[s] \in PeerSet(r)
    <3>1. HighestHash(target, selectedPod[s], PeerSet(r))
      BY <2>1, <2>2, <2>3, HighestHashMonotone
    <3>2. target \in Addresses /\ PeerSet(r) \in SUBSET Pods
      BY <2>1, PeersType DEF Inv, TypeOK
    <3>3. QED BY <2>1, <2>2, <3>1, <3>2, HighestHashUnique
  <2>4. CASE selectedPod[s] \notin PeerSet(r)
    BY <2>1, <2>2, <2>4 DEF HighestHash
  <2>5. QED BY <2>3, <2>4
<1>2. QED BY InvInit, InvStep, <1>1, PTL DEF Spec
=============================================================================
