------------------------------ MODULE Replicas ------------------------------
(***************************************************************************)
(* The prober replicas and how each learns of the others: WatchPeers       *)
(* (informer.go:145-182), UpdatePeers (registry.go:77-110) and the shares  *)
(* of the targets that follow.                                             *)
(*                                                                         *)
(* In one replica two goroutines run updatePeers: the informer's, once per *)
(* notification, and WatchPeers itself, once, after the cache's sync.      *)
(* Each reads the list from the informer's store and then, separately,     *)
(* takes the registry's mutex, so the older list may be stored last.       *)
(*                                                                         *)
(* Data abstraction: every replica knows every target (how the targets are *)
(* discovered is Discovery's subject), and the peers are a set (the order  *)
(* of the list is ShardingScan's).                                         *)
(***************************************************************************)
EXTENDS Sharding, FiniteSets

CONSTANT MaxFaults     \* bound: crashes, and live pods that lose readiness

ASSUME ReplicasAssumption == IsFiniteSet(Pods) /\ MaxFaults \in Nat

Goroutines == {"handler", "watchPeers"}

\* A call of updatePeers, and a call that has read its list.
Call == [Pod : Pods, By : Goroutines]
Sample == [Pod : Pods, By : Goroutines, Peers : (SUBSET Pods) \ {{}}]

VARIABLES
  up,             \* pods whose prober runs
  ready,          \* pods the API server lists as ready endpoints
  store,          \* store[r]: the ready pods in the informer's store of r
  synced,         \* pods whose informer's cache is synced
  owed,           \* calls of updatePeers still to be made
  samples,        \* calls between reading the list and taking the mutex
  clusterPodIPs,  \* clusterPodIPs[r]: the peers replica r shards among
  overtaken,      \* history: pods where WatchPeers' own call stored last, and
                  \*   what it stored was out of date
  faults

apiVars == <<ready, faults>>
informerVars == <<store, synced>>
vars == <<up, apiVars, informerVars, owed, samples, clusterPodIPs, overtaken>>

Init ==
  /\ up = {}
  /\ ready = {}
  /\ store = [r \in Pods |-> {}]
  /\ synced = {}
  /\ owed = {}
  /\ samples = {}
  /\ clusterPodIPs = [r \in Pods |-> {}]
  /\ overtaken = {}
  /\ faults = 0

-----------------------------------------------------------------------------
(* The cluster: pods start, crash, become ready or not.                    *)

\* A new process knows no peer and has an empty store.
Start(r) ==
  /\ r \notin up
  /\ up' = up \cup {r}
  /\ owed' = owed \cup {[Pod |-> r, By |-> "watchPeers"]}
  /\ UNCHANGED <<apiVars, informerVars, samples, clusterPodIPs, overtaken>>

\* The state of a process dies with it.
Crash(r) ==
  /\ r \in up
  /\ faults < MaxFaults
  /\ faults' = faults + 1
  /\ up' = up \ {r}
  /\ store' = [store EXCEPT ![r] = {}]
  /\ synced' = synced \ {r}
  /\ owed' = {c \in owed : c.Pod # r}
  /\ samples' = {s \in samples : s.Pod # r}
  /\ clusterPodIPs' = [clusterPodIPs EXCEPT ![r] = {}]
  /\ overtaken' = overtaken \ {r}
  /\ UNCHANGED ready

BecomesReady(r) ==
  /\ r \in up \ ready
  /\ ready' = ready \cup {r}
  /\ UNCHANGED <<up, faults, informerVars, owed, samples, clusterPodIPs, overtaken>>

\* A live pod loses its readiness, or a dead one is noticed.
BecomesUnready(r) ==
  /\ r \in ready
  /\ r \in up => faults < MaxFaults
  /\ faults' = IF r \in up THEN faults + 1 ELSE faults
  /\ ready' = ready \ {r}
  /\ UNCHANGED <<up, informerVars, owed, samples, clusterPodIPs, overtaken>>

-----------------------------------------------------------------------------
(* The informer of replica r.                                              *)

Handler(r) == [Pod |-> r, By |-> "handler"]

\* Mutant of Notifies: only AddFunc is registered.
Notifies_AddOnly(r) == r \notin synced

\* Add, update and delete notifications all call updatePeers.
Notifies(r) == TRUE

\* The store takes the current list, the first or a later one.
Observe(r) ==
  /\ r \in up
  /\ r \notin synced \/ store[r] # ready
  /\ store' = [store EXCEPT ![r] = ready]
  /\ synced' = synced \cup {r}
  /\ owed' = IF Notifies(r) THEN owed \cup {Handler(r)} ELSE owed
  /\ UNCHANGED <<up, apiVars, samples, clusterPodIPs, overtaken>>

\* Mutant of Resync: a resync period of 0.
Resync_Never(r) == FALSE /\ UNCHANGED vars

\* Every 10 minutes the informer repeats its notifications.
Resync(r) ==
  /\ r \in synced
  /\ owed' = owed \cup {Handler(r)}
  /\ UNCHANGED <<up, apiVars, informerVars, samples, clusterPodIPs, overtaken>>

-----------------------------------------------------------------------------
(* updatePeers.                                                            *)

\* Mutant of Busy: the informer starts a goroutine for every notification.
Busy_Concurrent(c) == c.By = "watchPeers" /\ \E s \in samples : s.Pod = c.Pod /\ s.By = c.By

\* The goroutine of c has not finished its last call.
Busy(c) == \E s \in samples : s.Pod = c.Pod /\ s.By = c.By

\* Mutant of Usable: the empty list is passed on.
Usable_EvenEmpty(peers) == TRUE

\* An empty list of ready peers is ignored.
Usable(peers) == peers # {}

\* The call reads the list; WatchPeers first waits for the sync.
ListPeers(c) ==
  /\ c \in owed
  /\ c.Pod \in synced
  /\ ~Busy(c)
  /\ owed' = owed \ {c}
  /\ samples' = IF Usable(store[c.Pod])
                THEN samples \cup {[Pod |-> c.Pod, By |-> c.By, Peers |-> store[c.Pod]]}
                ELSE samples
  /\ UNCHANGED <<up, apiVars, informerVars, clusterPodIPs, overtaken>>

\* The call takes the mutex and replaces the peers by the list it read.
UpdatePeers(s) ==
  /\ s \in samples
  /\ samples' = samples \ {s}
  /\ clusterPodIPs' = [clusterPodIPs EXCEPT ![s.Pod] = s.Peers]
  /\ overtaken' = IF s.By = "watchPeers" /\ s.Peers # store[s.Pod]
                  THEN overtaken \cup {s.Pod} ELSE overtaken \ {s.Pod}
  /\ UNCHANGED <<up, apiVars, informerVars, owed>>

Next ==
  \/ \E r \in Pods : \/ Start(r) \/ Crash(r) \/ BecomesReady(r) \/ BecomesUnready(r)
                     \/ Observe(r) \/ Resync(r)
  \/ \E c \in owed : ListPeers(c)
  \/ \E s \in samples : UpdatePeers(s)

Spec == Init /\ [][Next]_vars

\* client-go delivers what the API server knows, resyncs, and runs the
\* goroutines; that pods start or become ready is not assumed.
FairSpec ==
  /\ Spec
  /\ \A r \in Pods :
       /\ WF_vars(Observe(r))
       /\ WF_vars(Resync(r))
       /\ WF_vars(\E c \in owed : c.Pod = r /\ c.By = "handler" /\ ListPeers(c))
       /\ WF_vars(\E c \in owed : c.Pod = r /\ c.By = "watchPeers" /\ ListPeers(c))
       /\ WF_vars(\E s \in samples : s.Pod = r /\ s.By = "handler" /\ UpdatePeers(s))
       /\ WF_vars(\E s \in samples : s.Pod = r /\ s.By = "watchPeers" /\ UpdatePeers(s))

-----------------------------------------------------------------------------
\* Type invariant: no call is under way with an empty list.
TypeOK ==
  /\ up \in SUBSET Pods
  /\ ready \in SUBSET Pods
  /\ store \in [Pods -> SUBSET Pods]
  /\ synced \in SUBSET up
  /\ owed \in SUBSET Call
  /\ samples \in SUBSET Sample
  /\ clusterPodIPs \in [Pods -> SUBSET Pods]
  /\ overtaken \in SUBSET Pods
  /\ faults \in 0 .. MaxFaults

\* Replica r has no call of updatePeers to make or to finish.
Quiet(r) ==
  /\ \A c \in owed : c.Pod # r
  /\ \A s \in samples : s.Pod # r

\* informer.go:168: a replica with nothing left to do shards among the pods in
\* its informer's store, unless its own call of updatePeers was overtaken by the
\* informer's and stored an older list last; then it waits for the next resync.
QuietIsCurrent ==
  \A r \in synced : Quiet(r) /\ store[r] # {} =>
    clusterPodIPs[r] = store[r] \/ r \in overtaken

Claims(r) == {a \in Addresses : evalShardingOwner(a, r, clusterPodIPs[r])}

\* Replica r knows the ready pods and has nothing left to do about them.
CaughtUp(r) == r \in synced /\ store[r] = ready /\ Quiet(r) /\ r \notin overtaken

\* ADR 0008, "only the pod with the highest hash value assumes exclusive
\* responsibility": two ready replicas that have caught up never probe the same
\* target, however far behind the others are and whoever crashed on the way.
NoDoubleProbing ==
  \A r, s \in ready : r # s /\ CaughtUp(r) /\ CaughtUp(s) =>
    \A a \in Claims(r) \cap Claims(s) : ~NoTies(a)

\* sharding.go:62: a target that no replica probes has a ready pod to wait for,
\* one that is down, or that has not caught up.
NoTargetForgotten ==
  \A a \in Addresses :
    NoTies(a) /\ ready # {} /\ (\A r \in ready : CaughtUp(r)) =>
      \E r \in up : a \in Claims(r)

OneOwner(a) == Cardinality({r \in up : a \in Claims(r)}) = 1

\* ADR 0008, deterministic ownership across active replicas: once scaling, crashes
\* and readiness have settled, each target ends with exactly one replica,
\* whatever was lost, stale or overtaken on the way.
RebalancingSettles ==
  <>[](up = ready /\ up # {}) => <>[](\A a \in Addresses : NoTies(a) => OneOwner(a))
=============================================================================
