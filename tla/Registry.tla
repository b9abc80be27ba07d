------------------------------ MODULE Registry ------------------------------
(***************************************************************************)
(* The target registry of one replica (pkg/prober/registry.go).            *)
(*                                                                         *)
(* Informer goroutines call it.  Each operation changes the maps in one    *)
(* critical section under r.mu, an atomic step here, and collects the      *)
(* events it owes; then, with the mutex released, the same goroutine sends *)
(* them one by one on the bounded channel Events.  What another goroutine  *)
(* does between those two halves is what makes the registry hard.          *)
(*                                                                         *)
(* Data abstraction: an address is a model value, the other fields of a    *)
(* Target (Name, Scheme, InsecureSkipVerify) are one value of Options, and *)
(* a removal event carries only the address, all its consumer reads.       *)
(***************************************************************************)
EXTENDS Sharding, Sequences

CONSTANTS
  SliceKeys,       \* keys (namespace/name) of EndpointSlices
  Options,         \* what distinguishes two Targets of one address
  DynamicOptions,  \* the Options of every target built from a slice
  NoTarget,        \* no entry
  selfPodIP,       \* POD_IP of this replica, NoPod when unset
  EventsCap,       \* capacity of Events (1000 in the code)
  SliceHandlers,   \* goroutines that deliver EndpointSlice events
  StaticHandlers,  \* goroutines that deliver StaticTarget events
  PeerHandlers     \* goroutines that run WatchPeers' updatePeers

Target == [Static : BOOLEAN, Options : Options]

TargetEvent ==
  [Address : Addresses, Target : Target, IsAdded : {TRUE}]
    \cup [Address : Addresses, Target : {NoTarget}, IsAdded : {FALSE}]

Handlers == SliceHandlers \cup StaticHandlers \cup PeerHandlers

ASSUME RegistryAssumption ==
  /\ DynamicOptions \in Options
  /\ NoTarget \notin Target
  /\ selfPodIP \in Pods \cup {NoPod}
  /\ EventsCap \in Nat \ {0}
  /\ SliceHandlers \cap StaticHandlers = {}
  /\ SliceHandlers \cap PeerHandlers = {}
  /\ StaticHandlers \cap PeerHandlers = {}

VARIABLES
  targets,        \* targets[a]: the entry of address a, or NoTarget
  sliceTargets,   \* sliceTargets[k]: the addresses slice k generated
  clusterPodIPs,  \* the prober pods this replica knows of
  active,         \* the addresses this replica has claimed
  Events,         \* the buffered channel to the event loop
  pending,        \* pending[h]: events goroutine h collected and has not sent
  ctxDone         \* the process received SIGTERM: every ctx is cancelled

registryVars == <<targets, sliceTargets, clusterPodIPs, active, Events, pending, ctxDone>>

Init ==
  /\ targets = [a \in Addresses |-> NoTarget]
  /\ sliceTargets = [k \in SliceKeys |-> {}]
  /\ clusterPodIPs = {}
  /\ active = {}
  /\ Events = << >>
  /\ pending = [h \in Handlers |-> {}]
  /\ ctxDone = FALSE

Known == {a \in Addresses : targets[a] # NoTarget}
IsStatic(a) == targets[a] # NoTarget /\ targets[a].Static
shouldProcessTargetLocked(a) == evalShardingOwner(a, selfPodIP, clusterPodIPs)

AddedEvents(S, entries) ==
  {[Address |-> a, Target |-> entries[a], IsAdded |-> TRUE] : a \in S}
RemovedEvents(S) ==
  {[Address |-> a, Target |-> NoTarget, IsAdded |-> FALSE] : a \in S}

\* Goroutine h starts a call: it sent every event of its previous one.
Idle(h) == pending[h] = {}

Owes(h, events) == pending' = [pending EXCEPT ![h] = events]

-----------------------------------------------------------------------------
(* Operations: the critical sections.                                      *)

\* Mutant of UpdatePeers: only the gained targets are rebalanced.
UpdatePeers_OnlyGains(h, peers) ==
  LET gained == {a \in Known \ active : evalShardingOwner(a, selfPodIP, peers)}
  IN /\ Idle(h)
     /\ clusterPodIPs' = peers
     /\ active' = active \cup gained
     /\ Owes(h, AddedEvents(gained, targets))
     /\ UNCHANGED <<targets, sliceTargets, Events, ctxDone>>

\* UpdatePeers: every known target is re-evaluated against the new peers.
UpdatePeers(h, peers) ==
  LET owned  == {a \in Known : evalShardingOwner(a, selfPodIP, peers)}
      gained == owned \ active
      lost   == (Known \ owned) \cap active
  IN /\ Idle(h)
     /\ clusterPodIPs' = peers
     /\ active' = (active \ lost) \cup gained
     /\ Owes(h, AddedEvents(gained, targets) \cup RemovedEvents(lost))
     /\ UNCHANGED <<targets, sliceTargets, Events, ctxDone>>

\* Mutants of Disappeared and of Fresh: static entries are not protected.
Disappeared_AnyEntry(key, listed) == (sliceTargets[key] \ listed) \cap Known
Fresh_AnyEntry(listed) == listed

\* The addresses slice key no longer lists, unless a static target has them.
Disappeared(key, listed) ==
  {a \in sliceTargets[key] \ listed : a \in Known /\ ~IsStatic(a)}

\* The listed addresses that have no entry yet, dynamic or static.
Fresh(listed) == listed \ Known

\* UpdateFromEndpointSlice: listed are the addresses built from the slice's
\* ready endpoints and ports.
UpdateFromEndpointSlice(h, key, listed) ==
  LET gone    == Disappeared(key, listed)
      fresh   == Fresh(listed)
      claimed == {a \in fresh : shouldProcessTargetLocked(a)}
  IN /\ Idle(h)
     /\ targets' = [a \in Addresses |->
                      CASE a \in gone  -> NoTarget
                        [] a \in fresh -> [Static |-> FALSE, Options |-> DynamicOptions]
                        [] OTHER       -> targets[a]]
     /\ active' = (active \ gone) \cup claimed
     /\ sliceTargets' = [sliceTargets EXCEPT ![key] = listed]
     /\ Owes(h, RemovedEvents(gone \cap active) \cup AddedEvents(claimed, targets'))
     /\ UNCHANGED <<clusterPodIPs, Events, ctxDone>>

\* RemoveEndpointSlice: the slice was deleted or lost its probe label.
RemoveEndpointSlice(h, key) ==
  LET gone == {a \in sliceTargets[key] : ~IsStatic(a)}
  IN /\ Idle(h)
     /\ targets' = [a \in Addresses |-> IF a \in gone THEN NoTarget ELSE targets[a]]
     /\ active' = active \ gone
     /\ sliceTargets' = [sliceTargets EXCEPT ![key] = {}]
     /\ Owes(h, RemovedEvents(gone \cap active))
     /\ UNCHANGED <<clusterPodIPs, Events, ctxDone>>

\* Add: a StaticTarget takes the address over.  When the entry is already
\* static the call changes nothing, a stuttering step.
Add(h, a, options) ==
  LET entry == [Static |-> TRUE, Options |-> options]
  IN /\ Idle(h)
     /\ ~IsStatic(a)
     /\ targets' = [targets EXCEPT ![a] = entry]
     /\ \/ /\ shouldProcessTargetLocked(a)
           /\ active' = active \cup {a}
           /\ Owes(h, AddedEvents({a}, targets'))
        \/ /\ ~shouldProcessTargetLocked(a)
           /\ UNCHANGED <<active, pending>>
     /\ UNCHANGED <<sliceTargets, clusterPodIPs, Events, ctxDone>>

\* Mutant of Remove: the claim survives the entry.
Remove_KeepsClaim(h, a) ==
  /\ Idle(h)
  /\ a \in Known
  /\ targets' = [targets EXCEPT ![a] = NoTarget]
  /\ Owes(h, RemovedEvents({a} \cap active))
  /\ UNCHANGED <<sliceTargets, clusterPodIPs, active, Events, ctxDone>>

\* Remove: a StaticTarget was deleted.  Whatever entry the address has goes.
Remove(h, a) ==
  /\ Idle(h)
  /\ a \in Known
  /\ targets' = [targets EXCEPT ![a] = NoTarget]
  /\ active' = active \ {a}
  /\ Owes(h, RemovedEvents({a} \cap active))
  /\ UNCHANGED <<sliceTargets, clusterPodIPs, Events, ctxDone>>

-----------------------------------------------------------------------------
(* emitEvent, outside the mutex.                                           *)

\* Goroutine h sends its events in the order it collected them: a slice
\* update collects its removals first; within each group, and for the map
\* iteration of UpdatePeers altogether, the order is arbitrary.
NextEvents(h) ==
  LET removals == {e \in pending[h] : ~e.IsAdded}
  IN IF h \in SliceHandlers /\ removals # {} THEN removals ELSE pending[h]

Sent(h, e) == pending' = [pending EXCEPT ![h] = @ \ {e}]

\* Mutant of HasRoom: one event more than the buffer holds.
HasRoom_OffByOne == Len(Events) <= EventsCap

HasRoom == Len(Events) < EventsCap

\* Mutant of MayGiveUp: removals time out on a full channel like adds do.
MayGiveUp_AnyEvent(e) == ctxDone \/ ~HasRoom

\* emitEvent may return without sending: at shutdown, or, for an add only,
\* when the channel stayed full for 100 ms.
MayGiveUp(e) == ctxDone \/ (e.IsAdded /\ ~HasRoom)

emitEvent(h) ==
  \E e \in NextEvents(h) :
    /\ Sent(h, e)
    /\ \/ HasRoom /\ Events' = Append(Events, e)
       \/ MayGiveUp(e) /\ UNCHANGED Events
    /\ UNCHANGED <<targets, sliceTargets, clusterPodIPs, active, ctxDone>>

\* SIGTERM.
Cancel ==
  /\ ~ctxDone
  /\ ctxDone' = TRUE
  /\ UNCHANGED <<targets, sliceTargets, clusterPodIPs, active, Events, pending>>

\* The event loop of main.go takes the next event (what it does with it is
\* EventLoop's subject).
Receive ==
  /\ Events # << >>
  /\ Events' = Tail(Events)
  /\ UNCHANGED <<targets, sliceTargets, clusterPodIPs, active, pending, ctxDone>>

\* The informers' goroutines and SIGTERM.  WatchPeers ignores an empty list.
RegistryNext ==
  \/ \E h \in PeerHandlers, peers \in (SUBSET Pods) \ {{}} : UpdatePeers(h, peers)
  \/ \E h \in SliceHandlers, k \in SliceKeys, listed \in SUBSET Addresses :
       UpdateFromEndpointSlice(h, k, listed)
  \/ \E h \in SliceHandlers, k \in SliceKeys : RemoveEndpointSlice(h, k)
  \/ \E h \in StaticHandlers, a \in Addresses, o \in Options : Add(h, a, o)
  \/ \E h \in StaticHandlers, a \in Addresses : Remove(h, a)
  \/ \E h \in Handlers : emitEvent(h)
  \/ Cancel

RegistrySpec == Init /\ [][RegistryNext \/ Receive]_registryVars

-----------------------------------------------------------------------------
\* Type invariant.
RegistryTypeOK ==
  /\ targets \in [Addresses -> Target \cup {NoTarget}]
  /\ sliceTargets \in [SliceKeys -> SUBSET Addresses]
  /\ clusterPodIPs \in SUBSET Pods
  /\ active \in SUBSET Addresses
  /\ Events \in Seq(TargetEvent)
  /\ Len(Events) <= EventsCap
  /\ pending \in [Handlers -> SUBSET TargetEvent]
  /\ ctxDone \in BOOLEAN

\* Whenever the mutex is free, the claims of this replica are exactly the
\* known targets the current peers give it: no operation, in any order,
\* leaves a claim behind or forgets one (active and clusterPodIPs change in
\* different operations, run by different informers).
ActiveIsOwned == active = {a \in Known : shouldProcessTargetLocked(a)}

\* A dynamic target is always listed by a slice whose deletion will remove
\* it: no order of slice and StaticTarget events orphans one.
DynamicIsListed ==
  \A a \in Known : ~IsStatic(a) => \E k \in SliceKeys : a \in sliceTargets[k]

\* ADR 0023, strict precedence: no EndpointSlice event changes the entry of
\* a static target, nor the claim on it.
StaticSurvivesSlices ==
  [][sliceTargets' # sliceTargets =>
       \A a \in Addresses : IsStatic(a) =>
         targets'[a] = targets[a] /\ (a \in active' <=> a \in active)]_registryVars
=============================================================================
