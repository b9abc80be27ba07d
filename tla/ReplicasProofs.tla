--------------------------- MODULE ReplicasProofs ---------------------------
(***************************************************************************)
(* Proofs about Replicas, for any number of pods and of faults, any number *)
(* of virtual nodes and any hash function.                                 *)
(***************************************************************************)
EXTENDS Replicas, FiniteSetTheorems, TLAPS

-----------------------------------------------------------------------------
(* Rendezvous hashing over a finite set of peers: someone always wins.     *)

\* A finite, non-empty set of pairs has one with the greatest hash: the set of
\* pairs that beat a given one shrinks whenever a better one is chosen.
LEMMA GreatestExists ==
  ASSUME NEW D, IsFiniteSet(D), D # {}, NEW f, \A d \in D : f[d] \in Nat
  PROVE  \E d \in D : \A e \in D : f[e] <= f[d]
<1> DEFINE Better(d) == {e \in D : f[e] > f[d]}
           Betters == {Better(d) : d \in D}
<1>1. IsWellFoundedOn(StrictSubsetOrdering(D), SUBSET D)
  BY FS_StrictSubsetOrderingWellFounded, FS_FiniteSubsetsOfFinite
<1>2. Betters \subseteq SUBSET D /\ Betters # {}
  OBVIOUS
<1>3. PICK B \in Betters : \A C \in Betters : <<C, B>> \notin StrictSubsetOrdering(D)
  <2> HIDE DEF Betters
  <2> QED BY <1>1, <1>2, WFMin
<1>4. PICK d \in D : B = Better(d)
  OBVIOUS
<1>5. ASSUME NEW e \in D, f[e] > f[d] PROVE FALSE
  <2>1. Better(e) \in Betters /\ Better(e) \in SUBSET D /\ B \in SUBSET D
    BY <1>4
  <2>2. Better(e) \subseteq B
    BY <1>4, <1>5
  <2>3. e \in B /\ e \notin Better(e)
    BY <1>4, <1>5
  <2>4. <<Better(e), B>> \in StrictSubsetOrdering(D)
    <3> HIDE DEF Better
    <3> QED BY <2>1, <2>2, <2>3 DEF StrictSubsetOrdering
  <2>5. QED BY <1>3, <2>1, <2>4
<1>6. QED BY <1>4, <1>5

\* Of finitely many peers one has the highest hash.
LEMMA HighestExists ==
  ASSUME NEW t \in Addresses, NEW view \in SUBSET Pods, view # {}
  PROVE  \E p \in view : HighestHash(t, p, view)
<1> DEFINE D == view \X VNodes
           f == [d \in D |-> hash[<<t, d[1], d[2]>>]]
<1>1. IsFiniteSet(D)
  <2>1. IsFiniteSet(view)
    BY FS_Subset, ReplicasAssumption
  <2>2. IsFiniteSet(VNodes)
    BY FS_Interval, ShardingAssumption DEF VNodes
  <2>3. QED BY <2>1, <2>2, FS_Product
<1>2. D # {}
  <2>1. 0 \in VNodes
    BY ShardingAssumption DEF VNodes
  <2>2. PICK p \in view : TRUE
    OBVIOUS
  <2>3. <<p, 0>> \in D
    BY <2>1
  <2>4. QED BY <2>3
<1>3. \A d \in D : f[d] \in Nat
  BY ShardingAssumption
<1>4. PICK d \in D : \A e \in D : f[e] <= f[d]
  <2> HIDE DEF D, f
  <2> QED BY <1>1, <1>2, <1>3, GreatestExists
<1>5. \A p \in view, w \in VNodes : hash[<<t, p, w>>] <= hash[<<t, d[1], d[2]>>]
  <2>1. ASSUME NEW p \in view, NEW w \in VNodes
        PROVE  hash[<<t, p, w>>] <= hash[<<t, d[1], d[2]>>]
    <3>1. <<p, w>> \in D /\ f[<<p, w>>] = hash[<<t, p, w>>]
      OBVIOUS
    <3>2. QED BY <1>4, <3>1
  <2>2. QED BY <2>1
<1>6. QED BY <1>5 DEF HighestHash

\* Without ties two pods that both have the highest hash are the same.
LEMMA HighestIsUnique ==
  ASSUME NEW t \in Addresses, NEW view \in SUBSET Pods, NEW p, NEW q,
         NoTies(t), HighestHash(t, p, view), HighestHash(t, q, view)
  PROVE  p = q
<1>1. PICK x \in VNodes : \A s \in view, w \in VNodes : hash[<<t, s, w>>] <= hash[<<t, p, x>>]
  BY DEF HighestHash
<1>2. PICK y \in VNodes : \A s \in view, w \in VNodes : hash[<<t, s, w>>] <= hash[<<t, q, y>>]
  BY DEF HighestHash
<1>3. p \in view /\ q \in view
  BY DEF HighestHash
<1>4. hash[<<t, p, x>>] \in Nat /\ hash[<<t, q, y>>] \in Nat
  BY <1>3, ShardingAssumption
<1>5. hash[<<t, p, x>>] = hash[<<t, q, y>>]
  BY <1>1, <1>2, <1>3, <1>4
<1>6. QED BY <1>3, <1>5 DEF NoTies

-----------------------------------------------------------------------------
\* What the informer owes makes up for what the replica lacks: while the peers
\* differ from a non-empty store, a call by the informer is still to be made, or
\* it is under way with that list, or the replica's own call is or was late.
Compensated ==
  \A r \in synced : store[r] # {} =>
    \/ clusterPodIPs[r] = store[r]
    \/ r \in overtaken
    \/ \E c \in owed : c.Pod = r
    \/ \E s \in samples : s.Pod = r

\* While the informer's goroutine holds a list that is out of date, its next
\* call is owed: every change of the store notifies it.
HandlerCatchesUp ==
  \A s \in samples : s.By = "handler" /\ s.Peers # store[s.Pod] => Handler(s.Pod) \in owed

Inv == TypeOK /\ HandlerCatchesUp /\ Compensated

\* The initial state.
LEMMA InitInv == Init => Inv
  BY ReplicasAssumption DEF Init, Inv, TypeOK, HandlerCatchesUp, Compensated

\* Every action of the cluster, of an informer and of updatePeers keeps the types.
LEMMA TypeStep == ASSUME TypeOK, [Next]_vars PROVE TypeOK'
<1> USE ReplicasAssumption
<1>1. ASSUME NEW r \in Pods, Start(r) PROVE TypeOK'
  BY <1>1 DEF TypeOK, Start, apiVars, informerVars, Call, Goroutines
<1>2. ASSUME NEW r \in Pods, Crash(r) PROVE TypeOK'
  BY <1>2 DEF TypeOK, Crash
<1>3. ASSUME NEW r \in Pods, BecomesReady(r) PROVE TypeOK'
  BY <1>3 DEF TypeOK, BecomesReady, informerVars
<1>4. ASSUME NEW r \in Pods, BecomesUnready(r) PROVE TypeOK'
  BY <1>4 DEF TypeOK, BecomesUnready, informerVars
<1>5. ASSUME NEW r \in Pods, Observe(r) PROVE TypeOK'
  BY <1>5 DEF TypeOK, Observe, apiVars, Handler, Call, Goroutines
<1>6. ASSUME NEW r \in Pods, Resync(r) PROVE TypeOK'
  BY <1>6 DEF TypeOK, Resync, apiVars, informerVars, Handler, Call, Goroutines
<1>7. ASSUME NEW c \in owed, ListPeers(c) PROVE TypeOK'
  <2>1. [Pod |-> c.Pod, By |-> c.By, Peers |-> store[c.Pod]] \in Sample \/ store[c.Pod] = {}
    BY <1>7 DEF TypeOK, Call, Sample
  <2>2. samples' \in SUBSET Sample
    BY <1>7, <2>1 DEF TypeOK, ListPeers, Usable
  <2>3. QED BY <1>7, <2>2 DEF TypeOK, ListPeers, apiVars, informerVars
<1>8. ASSUME NEW s \in samples, UpdatePeers(s) PROVE TypeOK'
  BY <1>8 DEF TypeOK, UpdatePeers, apiVars, informerVars, Sample
<1>9. CASE UNCHANGED vars
  BY <1>9 DEF TypeOK, vars, apiVars, informerVars
<1>10. QED BY <1>1, <1>2, <1>3, <1>4, <1>5, <1>6, <1>7, <1>8, <1>9 DEF Next

\* Only Observe changes a store, and it adds the informer's call; only a call
\* that then holds the current list is taken from those owed.
LEMMA HandlerStep == ASSUME Inv, [Next]_vars PROVE HandlerCatchesUp'
<1> USE DEF Inv
<1> SUFFICES ASSUME NEW q \in samples', q.By = "handler", q.Peers # store'[q.Pod]
             PROVE  Handler(q.Pod) \in owed'
  BY DEF HandlerCatchesUp, Handler
<1>1. ASSUME NEW r \in Pods, Start(r) PROVE Handler(q.Pod) \in owed'
  BY <1>1 DEF HandlerCatchesUp, Start, apiVars, informerVars
<1>2. ASSUME NEW r \in Pods, Crash(r) PROVE Handler(q.Pod) \in owed'
  <2>1. q \in samples /\ q.Pod # r /\ q.Pod \in Pods
    BY <1>2 DEF Crash, TypeOK, Sample
  <2>2. store'[q.Pod] = store[q.Pod]
    BY <1>2, <2>1 DEF Crash, TypeOK
  <2>3. Handler(q.Pod) \in owed
    BY <2>1, <2>2 DEF HandlerCatchesUp
  <2>4. QED BY <1>2, <2>1, <2>3 DEF Crash, Handler
<1>3. ASSUME NEW r \in Pods, BecomesReady(r) PROVE Handler(q.Pod) \in owed'
  BY <1>3 DEF HandlerCatchesUp, BecomesReady, informerVars
<1>4. ASSUME NEW r \in Pods, BecomesUnready(r) PROVE Handler(q.Pod) \in owed'
  BY <1>4 DEF HandlerCatchesUp, BecomesUnready, informerVars
<1>5. ASSUME NEW r \in Pods, Observe(r) PROVE Handler(q.Pod) \in owed'
  <2>1. q \in samples /\ q.Pod \in Pods
    BY <1>5 DEF Observe, TypeOK, Sample
  <2>2. CASE q.Pod = r
    BY <1>5, <2>2 DEF Observe, Notifies
  <2>3. CASE q.Pod # r
    <3>1. store'[q.Pod] = store[q.Pod]
      BY <1>5, <2>1, <2>3 DEF Observe, TypeOK
    <3>2. QED BY <1>5, <2>1, <3>1 DEF Observe, HandlerCatchesUp
  <2>4. QED BY <2>2, <2>3
<1>6. ASSUME NEW r \in Pods, Resync(r) PROVE Handler(q.Pod) \in owed'
  BY <1>6 DEF HandlerCatchesUp, Resync, informerVars
<1>7. ASSUME NEW c \in owed, ListPeers(c) PROVE Handler(q.Pod) \in owed'
  <2>1. q \in samples
    BY <1>7 DEF ListPeers, informerVars
  <2>2. Handler(q.Pod) \in owed
    BY <1>7, <2>1 DEF ListPeers, informerVars, HandlerCatchesUp
  <2>3. c # Handler(q.Pod)
    BY <1>7, <2>1 DEF ListPeers, Busy, Handler
  <2>4. QED BY <1>7, <2>2, <2>3 DEF ListPeers
<1>8. ASSUME NEW s \in samples, UpdatePeers(s) PROVE Handler(q.Pod) \in owed'
  BY <1>8 DEF HandlerCatchesUp, UpdatePeers, informerVars
<1>9. CASE UNCHANGED vars
  BY <1>9 DEF HandlerCatchesUp, vars, informerVars
<1>10. QED BY <1>1, <1>2, <1>3, <1>4, <1>5, <1>6, <1>7, <1>8, <1>9 DEF Next

\* No step leaves a replica behind with nothing left to do, except the late end
\* of WatchPeers' own call.
LEMMA CompensatedStep == ASSUME Inv, [Next]_vars PROVE Compensated'
<1> USE DEF Inv
<1>1. ASSUME NEW r \in Pods, Start(r) PROVE Compensated'
  BY <1>1 DEF Compensated, Start, apiVars, informerVars
<1>2. ASSUME NEW r \in Pods, Crash(r) PROVE Compensated'
  <2> SUFFICES ASSUME NEW q \in synced', store'[q] # {}
               PROVE  \/ clusterPodIPs'[q] = store'[q] \/ q \in overtaken'
                      \/ \E c \in owed' : c.Pod = q
                      \/ \E s \in samples' : s.Pod = q
    BY DEF Compensated
  <2>1. q \in synced /\ q # r /\ q \in Pods
    BY <1>2 DEF Crash, TypeOK
  <2>2. store'[q] = store[q] /\ clusterPodIPs'[q] = clusterPodIPs[q]
    BY <1>2, <2>1 DEF Crash, TypeOK
  <2>3. QED BY <1>2, <2>1, <2>2 DEF Crash, Compensated
<1>3. ASSUME NEW r \in Pods, BecomesReady(r) PROVE Compensated'
  BY <1>3 DEF Compensated, BecomesReady, informerVars
<1>4. ASSUME NEW r \in Pods, BecomesUnready(r) PROVE Compensated'
  BY <1>4 DEF Compensated, BecomesUnready, informerVars
<1>5. ASSUME NEW r \in Pods, Observe(r) PROVE Compensated'
  <2> SUFFICES ASSUME NEW q \in synced', store'[q] # {}
               PROVE  \/ clusterPodIPs'[q] = store'[q] \/ q \in overtaken'
                      \/ \E c \in owed' : c.Pod = q
                      \/ \E s \in samples' : s.Pod = q
    BY DEF Compensated
  <2>1. CASE q = r
    <3>1. Handler(r) \in owed' /\ Handler(r).Pod = q
      BY <1>5, <2>1 DEF Observe, Notifies, Handler
    <3>2. QED BY <3>1
  <2>2. CASE q # r
    <3>1. q \in synced /\ store'[q] = store[q]
      BY <1>5, <2>2 DEF Observe, TypeOK
    <3>2. QED BY <1>5, <3>1 DEF Observe, Compensated
  <2>3. QED BY <2>1, <2>2
<1>6. ASSUME NEW r \in Pods, Resync(r) PROVE Compensated'
  BY <1>6 DEF Compensated, Resync, apiVars, informerVars
<1>7. ASSUME NEW c \in owed, ListPeers(c) PROVE Compensated'
  <2> SUFFICES ASSUME NEW q \in synced', store'[q] # {}
               PROVE  \/ clusterPodIPs'[q] = store'[q] \/ q \in overtaken'
                      \/ \E d \in owed' : d.Pod = q
                      \/ \E s \in samples' : s.Pod = q
    BY DEF Compensated
  <2>1. q \in synced /\ store[q] # {}
    BY <1>7 DEF ListPeers, informerVars
  <2>2. CASE c.Pod = q
    <3>1. [Pod |-> c.Pod, By |-> c.By, Peers |-> store[c.Pod]] \in samples'
      BY <1>7, <2>1, <2>2 DEF ListPeers, Usable
    <3>2. QED BY <2>2, <3>1
  <2>3. CASE c.Pod # q
    <3>1. samples \subseteq samples' /\ \A d \in owed : d.Pod = q => d \in owed'
      BY <1>7, <2>3 DEF ListPeers
    <3>2. QED BY <1>7, <2>1, <3>1 DEF ListPeers, Compensated, informerVars
  <2>4. QED BY <2>2, <2>3
<1>8. ASSUME NEW s \in samples, UpdatePeers(s) PROVE Compensated'
  <2> SUFFICES ASSUME NEW q \in synced', store'[q] # {}
               PROVE  \/ clusterPodIPs'[q] = store'[q] \/ q \in overtaken'
                      \/ \E d \in owed' : d.Pod = q
                      \/ \E t \in samples' : t.Pod = q
    BY DEF Compensated
  <2>1. q \in synced /\ store' = store /\ owed' = owed
    BY <1>8 DEF UpdatePeers, informerVars
  <2>2. CASE s.Pod = q
    <3>1. clusterPodIPs'[q] = s.Peers
      BY <1>8, <2>1, <2>2 DEF UpdatePeers, TypeOK
    <3>2. CASE s.By = "watchPeers"
      BY <1>8, <2>1, <2>2, <3>1, <3>2 DEF UpdatePeers
    <3>3. CASE s.By = "handler"
      BY <2>1, <2>2, <3>1, <3>3 DEF HandlerCatchesUp, Handler
    <3>4. s.By \in Goroutines
      BY DEF TypeOK, Sample
    <3>5. QED BY <3>2, <3>3, <3>4 DEF Goroutines
  <2>3. CASE s.Pod # q
    <3>1. clusterPodIPs'[q] = clusterPodIPs[q] /\ (q \in overtaken => q \in overtaken')
      BY <1>8, <2>1, <2>3 DEF UpdatePeers, TypeOK
    <3>2. \A t \in samples : t.Pod = q => t \in samples'
      BY <1>8, <2>3 DEF UpdatePeers
    <3>3. QED BY <2>1, <3>1, <3>2 DEF Compensated
  <2>4. QED BY <2>2, <2>3
<1>9. CASE UNCHANGED vars
  BY <1>9 DEF Compensated, vars, apiVars, informerVars
<1>10. QED BY <1>1, <1>2, <1>3, <1>4, <1>5, <1>6, <1>7, <1>8, <1>9 DEF Next

\* The strengthened invariant holds in every reachable state.
LEMMA InvHolds == Spec => []Inv
<1>1. Inv /\ [Next]_vars => Inv'
  BY TypeStep, HandlerStep, CompensatedStep DEF Inv
<1>2. QED BY InitInv, <1>1, PTL DEF Spec

\* Every variable keeps its type; in particular no call of updatePeers is ever
\* under way with an empty list (informer.go:163).
THEOREM TypeCorrect == Spec => []TypeOK
<1>1. Inv => TypeOK
  BY DEF Inv
<1>2. QED BY InvHolds, <1>1, PTL

\* informer.go:168: a replica that has nothing left to do shards among the pods
\* of its store, or its own call of updatePeers stored an older list last.
THEOREM QuietReplicasAreCurrent == Spec => []QuietIsCurrent
<1>1. Inv => QuietIsCurrent
  BY DEF Inv, Compensated, QuietIsCurrent, Quiet
<1>2. QED BY InvHolds, <1>1, PTL

-----------------------------------------------------------------------------
(* The shares of the targets.                                              *)

\* A replica that has caught up claims its share of the ready pods: what it has
\* the highest hash for.
LEMMA CaughtUpShare ==
  ASSUME Inv, NEW r \in ready, CaughtUp(r)
  PROVE  /\ r \in up
         /\ \A a \in Addresses : a \in Claims(r) <=> HighestHash(a, r, ready)
<1>1. r \in synced /\ r \in up /\ r \in Pods
  BY DEF CaughtUp, Inv, TypeOK
<1>2. clusterPodIPs[r] = ready
  BY <1>1 DEF CaughtUp, Quiet, Inv, Compensated
<1>3. r # NoPod /\ ready # {}
  BY <1>1, ShardingAssumption
<1>4. QED BY <1>1, <1>2, <1>3 DEF Claims, evalShardingOwner

\* Replicas that have caught up never probe one target twice (ADR 0008).
THEOREM NobodyProbesTwice == Spec => []NoDoubleProbing
<1>1. Inv => NoDoubleProbing
  <2>1. SUFFICES ASSUME Inv, NEW r \in ready, NEW s \in ready, r # s,
                        CaughtUp(r), CaughtUp(s),
                        NEW a \in Claims(r) \cap Claims(s), NoTies(a)
                 PROVE  FALSE
    BY DEF NoDoubleProbing
  <2>2. a \in Addresses /\ ready \in SUBSET Pods
    BY <2>1 DEF Claims, Inv, TypeOK
  <2>3. HighestHash(a, r, ready) /\ HighestHash(a, s, ready)
    BY <2>1, <2>2, CaughtUpShare
  <2>4. QED BY <2>1, <2>2, <2>3, HighestIsUnique
<1>2. QED BY InvHolds, <1>1, PTL

\* A target without a replica has a ready pod to wait for (sharding.go:62).
THEOREM NobodyIsForgotten == Spec => []NoTargetForgotten
<1>1. Inv => NoTargetForgotten
  <2>1. SUFFICES ASSUME Inv, NEW a \in Addresses, ready # {}, \A r \in ready : CaughtUp(r)
                 PROVE  \E r \in up : a \in Claims(r)
    BY DEF NoTargetForgotten
  <2>2. ready \in SUBSET Pods
    BY <2>1 DEF Inv, TypeOK
  <2>3. PICK r \in ready : HighestHash(a, r, ready)
    BY <2>1, <2>2, HighestExists
  <2>4. r \in up /\ a \in Claims(r)
    BY <2>1, <2>3, CaughtUpShare
  <2>5. QED BY <2>4
<1>2. QED BY InvHolds, <1>1, PTL

\* A cluster at rest shares out the targets: when the running pods are the ready
\* ones and each has caught up, every target has exactly one owner (ADR 0008).
THEOREM RestIsShared ==
  Spec => [](up = ready /\ ready # {} /\ (\A r \in ready : CaughtUp(r)) =>
               \A a \in Addresses : NoTies(a) => OneOwner(a))
<1>1. ASSUME Inv, up = ready, ready # {}, \A r \in ready : CaughtUp(r),
             NEW a \in Addresses, NoTies(a)
      PROVE  OneOwner(a)
  <2>1. ready \in SUBSET Pods
    BY <1>1 DEF Inv, TypeOK
  <2>2. PICK p \in ready : HighestHash(a, p, ready)
    BY <1>1, <2>1, HighestExists
  <2>3. \A r \in ready : a \in Claims(r) <=> r = p
    BY <1>1, <2>1, <2>2, CaughtUpShare, HighestIsUnique
  <2>4. {r \in up : a \in Claims(r)} = {p}
    BY <1>1, <2>2, <2>3
  <2>5. QED BY <2>4, FS_Singleton DEF OneOwner
<1>2. Inv => (up = ready /\ ready # {} /\ (\A r \in ready : CaughtUp(r)) =>
                \A a \in Addresses : NoTies(a) => OneOwner(a))
  BY <1>1
<1>3. QED BY InvHolds, <1>2, PTL
=============================================================================
