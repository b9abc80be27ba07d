--------------------------- MODULE RegistryProofs ---------------------------
(***************************************************************************)
(* Proofs about Registry, for any addresses, slices, peers, hash function, *)
(* goroutines and channel capacity.                                        *)
(***************************************************************************)
EXTENDS Registry, TLAPS

Entries == [Addresses -> Target \cup {NoTarget}]

-----------------------------------------------------------------------------
(* The events of a call are events.                                        *)

\* The adds of a call carry known addresses and the registry's entries.
LEMMA AddedEventsType ==
  ASSUME NEW S \in SUBSET Addresses, NEW entries, \A a \in S : entries[a] \in Target
  PROVE  AddedEvents(S, entries) \in SUBSET TargetEvent
<1>1. SUFFICES ASSUME NEW a \in S
               PROVE [Address |-> a, Target |-> entries[a], IsAdded |-> TRUE] \in TargetEvent
  BY Zenon DEF AddedEvents
<1>2. a \in Addresses /\ entries[a] \in Target
  OBVIOUS
<1>3. QED BY <1>2 DEF TargetEvent

\* The removals of a call carry known addresses.
LEMMA RemovedEventsType ==
  ASSUME NEW S \in SUBSET Addresses
  PROVE  RemovedEvents(S) \in SUBSET TargetEvent
<1>1. SUFFICES ASSUME NEW a \in S
               PROVE [Address |-> a, Target |-> NoTarget, IsAdded |-> FALSE] \in TargetEvent
  BY Zenon DEF RemovedEvents
<1>2. a \in Addresses
  OBVIOUS
<1>3. QED BY <1>2 DEF TargetEvent

\* A goroutine that owes events keeps pending well-typed.
LEMMA OwesType ==
  ASSUME NEW h \in Handlers, NEW events \in SUBSET TargetEvent,
         pending \in [Handlers -> SUBSET TargetEvent],
         Owes(h, events)
  PROVE  pending' \in [Handlers -> SUBSET TargetEvent]
BY DEF Owes

\* Add's entry and a slice's entry are Targets.
LEMMA TargetType ==
  ASSUME NEW static \in BOOLEAN, NEW options \in Options
  PROVE  [Static |-> static, Options |-> options] \in Target
BY DEF Target

-----------------------------------------------------------------------------
(* Type correctness.                                                       *)

\* NewRegistry's state is well-typed.
LEMMA RegistryTypeInit == Init => RegistryTypeOK
<1> SUFFICES ASSUME Init PROVE RegistryTypeOK
  OBVIOUS
<1> USE DEF Init
<1>1. /\ targets \in [Addresses -> Target \cup {NoTarget}]
      /\ sliceTargets \in [SliceKeys -> SUBSET Addresses]
      /\ pending \in [Handlers -> SUBSET TargetEvent]
  OBVIOUS
<1>2. Events \in Seq(TargetEvent) /\ Len(Events) <= EventsCap
  BY RegistryAssumption
<1>3. /\ clusterPodIPs \in SUBSET Pods
      /\ active \in SUBSET Addresses
      /\ ctxDone \in BOOLEAN
  OBVIOUS
<1>4. QED BY <1>1, <1>2, <1>3 DEF RegistryTypeOK

\* No operation, send or receive leaves the types: in particular Events never
\* holds more than its capacity.
LEMMA RegistryTypeStep ==
  ASSUME RegistryTypeOK, RegistryNext \/ Receive
  PROVE  RegistryTypeOK'
<1> USE DEF RegistryTypeOK
<1>1. ASSUME NEW h \in PeerHandlers, NEW peers \in SUBSET Pods, UpdatePeers(h, peers)
      PROVE  RegistryTypeOK'
  <2> DEFINE owned  == {a \in Known : evalShardingOwner(a, selfPodIP, peers)}
             gained == owned \ active
             lost   == (Known \ owned) \cap active
  <2>1. gained \in SUBSET Addresses /\ lost \in SUBSET Addresses
    BY DEF Known
  <2>2. AddedEvents(gained, targets) \cup RemovedEvents(lost) \in SUBSET TargetEvent
    <3>1. \A a \in gained : targets[a] \in Target
      BY DEF Known
    <3>2. QED BY <2>1, <3>1, AddedEventsType, RemovedEventsType
  <2>3. Owes(h, AddedEvents(gained, targets) \cup RemovedEvents(lost))
    BY <1>1 DEF UpdatePeers
  <2>4. pending' \in [Handlers -> SUBSET TargetEvent]
    BY <2>2, <2>3, OwesType DEF Handlers
  <2>5. active' = (active \ lost) \cup gained
    BY <1>1 DEF UpdatePeers
  <2>6. active' \in SUBSET Addresses
    BY <2>1, <2>5
  <2>7. UNCHANGED <<targets, sliceTargets, Events, ctxDone>> /\ clusterPodIPs' = peers
    BY <1>1 DEF UpdatePeers
  <2>8. QED BY <2>4, <2>6, <2>7
<1>2. ASSUME NEW h \in SliceHandlers, NEW k \in SliceKeys, NEW listed \in SUBSET Addresses,
             UpdateFromEndpointSlice(h, k, listed)
      PROVE  RegistryTypeOK'
  <2> DEFINE gone    == Disappeared(k, listed)
             fresh   == Fresh(listed)
             claimed == {a \in fresh : shouldProcessTargetLocked(a)}
  <2>1. /\ gone \in SUBSET Addresses
        /\ fresh \in SUBSET Addresses
        /\ claimed \in SUBSET Addresses
    BY DEF Disappeared, Fresh, Known
  <2>2. targets' = [a \in Addresses |->
                      CASE a \in gone  -> NoTarget
                        [] a \in fresh -> [Static |-> FALSE, Options |-> DynamicOptions]
                        [] OTHER       -> targets[a]]
    BY <1>2 DEF UpdateFromEndpointSlice
  <2>3. [Static |-> FALSE, Options |-> DynamicOptions] \in Target
    BY TargetType, RegistryAssumption
  <2>4. targets' \in Entries
    BY <2>2, <2>3 DEF Entries
  <2>5. RemovedEvents(gone \cap active) \cup AddedEvents(claimed, targets')
          \in SUBSET TargetEvent
    <3>1. gone \cap active \in SUBSET Addresses
      BY <2>1
    <3>2. \A a \in claimed : targets'[a] \in Target
      <4>1. gone \cap fresh = {}
        BY DEF Disappeared, Fresh
      <4>2. QED BY <2>1, <2>2, <2>3, <4>1
    <3>3. QED BY <2>1, <3>1, <3>2, AddedEventsType, RemovedEventsType
  <2>6. Owes(h, RemovedEvents(gone \cap active) \cup AddedEvents(claimed, targets'))
    BY <1>2 DEF UpdateFromEndpointSlice
  <2>7. pending' \in [Handlers -> SUBSET TargetEvent]
    BY <2>5, <2>6, OwesType DEF Handlers
  <2>8. active' = (active \ gone) \cup claimed
    BY <1>2 DEF UpdateFromEndpointSlice
  <2>9. active' \in SUBSET Addresses
    BY <2>1, <2>8
  <2>10. UNCHANGED <<clusterPodIPs, Events, ctxDone>>
         /\ sliceTargets' = [sliceTargets EXCEPT ![k] = listed]
    BY <1>2 DEF UpdateFromEndpointSlice
  <2>11. sliceTargets' \in [SliceKeys -> SUBSET Addresses]
    BY <2>10
  <2>12. QED BY <2>4, <2>7, <2>9, <2>10, <2>11 DEF Entries
<1>3. ASSUME NEW h \in SliceHandlers, NEW k \in SliceKeys, RemoveEndpointSlice(h, k)
      PROVE  RegistryTypeOK'
  <2> DEFINE gone == {a \in sliceTargets[k] : ~IsStatic(a)}
  <2>1. gone \cap active \in SUBSET Addresses
    OBVIOUS
  <2>2. pending' \in [Handlers -> SUBSET TargetEvent]
    <3>1. Owes(h, RemovedEvents(gone \cap active))
      BY <1>3 DEF RemoveEndpointSlice
    <3>2. RemovedEvents(gone \cap active) \in SUBSET TargetEvent
      BY <2>1, RemovedEventsType
    <3>3. QED BY <3>1, <3>2, OwesType DEF Handlers
  <2>3. /\ targets' = [a \in Addresses |-> IF a \in gone THEN NoTarget ELSE targets[a]]
        /\ active' = active \ gone
        /\ sliceTargets' = [sliceTargets EXCEPT ![k] = {}]
        /\ UNCHANGED <<clusterPodIPs, Events, ctxDone>>
    BY <1>3 DEF RemoveEndpointSlice
  <2>4. targets' \in [Addresses -> Target \cup {NoTarget}]
    BY <2>3
  <2>5. sliceTargets' \in [SliceKeys -> SUBSET Addresses]
    BY <2>3
  <2>6. QED BY <2>2, <2>3, <2>4, <2>5
<1>4. ASSUME NEW h \in StaticHandlers, NEW a \in Addresses, NEW o \in Options, Add(h, a, o)
      PROVE  RegistryTypeOK'
  <2>1. targets' = [targets EXCEPT ![a] = [Static |-> TRUE, Options |-> o]]
    BY <1>4 DEF Add
  <2>2. targets' \in Entries
    <3>1. [Static |-> TRUE, Options |-> o] \in Target
      BY TargetType
    <3>2. QED BY <2>1, <3>1 DEF Entries
  <2>3. pending' \in [Handlers -> SUBSET TargetEvent]
    <3>1. Owes(h, AddedEvents({a}, targets')) \/ UNCHANGED pending
      BY <1>4 DEF Add
    <3>2. AddedEvents({a}, targets') \in SUBSET TargetEvent
      BY <2>1, TargetType, AddedEventsType
    <3>3. QED BY <3>1, <3>2, OwesType DEF Handlers
  <2>4. active' \in SUBSET Addresses
    BY <1>4 DEF Add
  <2>5. UNCHANGED <<sliceTargets, clusterPodIPs, Events, ctxDone>>
    BY <1>4 DEF Add
  <2>6. QED BY <2>2, <2>3, <2>4, <2>5 DEF Entries
<1>5. ASSUME NEW h \in StaticHandlers, NEW a \in Addresses, Remove(h, a)
      PROVE  RegistryTypeOK'
  <2>1. pending' \in [Handlers -> SUBSET TargetEvent]
    <3>1. Owes(h, RemovedEvents({a} \cap active))
      BY <1>5 DEF Remove
    <3>2. RemovedEvents({a} \cap active) \in SUBSET TargetEvent
      BY RemovedEventsType
    <3>3. QED BY <3>1, <3>2, OwesType DEF Handlers
  <2>2. QED BY <1>5, <2>1 DEF Remove
<1>6. ASSUME NEW h \in Handlers, emitEvent(h)
      PROVE  RegistryTypeOK'
  <2>1. PICK e \in NextEvents(h) :
          /\ Sent(h, e)
          /\ \/ HasRoom /\ Events' = Append(Events, e)
             \/ UNCHANGED Events
    BY <1>6 DEF emitEvent
  <2>2. e \in TargetEvent
    BY <2>1 DEF NextEvents
  <2>3. Events' \in Seq(TargetEvent) /\ Len(Events') <= EventsCap
    BY <2>1, <2>2, RegistryAssumption DEF HasRoom
  <2>4. pending' \in [Handlers -> SUBSET TargetEvent]
    BY <2>1 DEF Sent
  <2>5. UNCHANGED <<targets, sliceTargets, clusterPodIPs, active, ctxDone>>
    BY <1>6 DEF emitEvent
  <2>6. QED BY <2>3, <2>4, <2>5
<1>7. ASSUME Cancel PROVE RegistryTypeOK'
  BY <1>7 DEF Cancel
<1>8. ASSUME Receive PROVE RegistryTypeOK'
  <2>1. Events' \in Seq(TargetEvent) /\ Len(Events') <= EventsCap
    BY <1>8, RegistryAssumption DEF Receive
  <2>2. QED BY <1>8, <2>1 DEF Receive
<1>9. QED
  BY <1>1, <1>2, <1>3, <1>4, <1>5, <1>6, <1>7, <1>8 DEF RegistryNext

\* Every reachable state of the registry is well-typed.
THEOREM RegistryTypeCorrect == RegistrySpec => []RegistryTypeOK
<1>1. RegistryTypeOK /\ UNCHANGED registryVars => RegistryTypeOK'
  BY DEF RegistryTypeOK, registryVars
<1>2. RegistryTypeOK /\ [RegistryNext \/ Receive]_registryVars => RegistryTypeOK'
  BY <1>1, RegistryTypeStep
<1>3. QED BY RegistryTypeInit, <1>2, PTL DEF RegistrySpec

-----------------------------------------------------------------------------
(* What each operation does to the set of known addresses.                 *)

\* The three operations that change entries, seen through Known.
LEMMA KnownAfterSlice ==
  ASSUME RegistryTypeOK,
         NEW h \in SliceHandlers, NEW k \in SliceKeys, NEW listed \in SUBSET Addresses,
         UpdateFromEndpointSlice(h, k, listed)
  PROVE  /\ Known' = (Known \ Disappeared(k, listed)) \cup Fresh(listed)
         /\ Disappeared(k, listed) \cap Fresh(listed) = {}
         /\ \A a \in Known \ Disappeared(k, listed) : targets'[a] = targets[a]
         /\ \A a \in Fresh(listed) : ~targets'[a].Static
<1>1. [Static |-> FALSE, Options |-> DynamicOptions] \in Target
  BY TargetType, RegistryAssumption
<1>2. [Static |-> FALSE, Options |-> DynamicOptions] # NoTarget
  BY <1>1, RegistryAssumption
<1>3. targets' = [a \in Addresses |->
                    CASE a \in Disappeared(k, listed) -> NoTarget
                      [] a \in Fresh(listed) -> [Static |-> FALSE, Options |-> DynamicOptions]
                      [] OTHER -> targets[a]]
  BY DEF UpdateFromEndpointSlice
<1>4. /\ Disappeared(k, listed) \subseteq Known
      /\ Fresh(listed) \cap Known = {}
      /\ Fresh(listed) \subseteq Addresses
      /\ Known \subseteq Addresses
  BY DEF Disappeared, Fresh, Known
<1>5. /\ \A a \in Disappeared(k, listed) : targets'[a] = NoTarget
      /\ \A a \in Fresh(listed) :
            targets'[a] = [Static |-> FALSE, Options |-> DynamicOptions]
      /\ \A a \in Addresses \ (Disappeared(k, listed) \cup Fresh(listed)) :
            targets'[a] = targets[a]
  BY <1>3, <1>4
<1>6. QED BY <1>2, <1>4, <1>5 DEF Known

\* RemoveEndpointSlice forgets the slice's dynamic targets.
LEMMA KnownAfterRemoveSlice ==
  ASSUME RegistryTypeOK,
         NEW h \in SliceHandlers, NEW k \in SliceKeys, RemoveEndpointSlice(h, k)
  PROVE  /\ Known' = Known \ {a \in sliceTargets[k] : ~IsStatic(a)}
         /\ \A a \in Known' : targets'[a] = targets[a]
<1>1. \A a \in Addresses :
        targets'[a] = IF a \in sliceTargets[k] /\ ~IsStatic(a) THEN NoTarget ELSE targets[a]
  BY DEF RemoveEndpointSlice, RegistryTypeOK
<1>2. QED BY <1>1 DEF Known, RegistryTypeOK

\* Add makes its address known, and no other.
LEMMA KnownAfterAdd ==
  ASSUME RegistryTypeOK,
         NEW h \in StaticHandlers, NEW a \in Addresses, NEW o \in Options, Add(h, a, o)
  PROVE  /\ Known' = Known \cup {a}
         /\ targets'[a].Static
         /\ \A b \in Addresses \ {a} : targets'[b] = targets[b]
<1>1. [Static |-> TRUE, Options |-> o] # NoTarget
  BY TargetType, RegistryAssumption
<1>2. /\ targets'[a] = [Static |-> TRUE, Options |-> o]
      /\ \A b \in Addresses \ {a} : targets'[b] = targets[b]
  BY DEF Add, RegistryTypeOK
<1>3. QED BY <1>1, <1>2 DEF Known

\* Remove forgets its address, and no other.
LEMMA KnownAfterRemove ==
  ASSUME RegistryTypeOK, NEW h \in StaticHandlers, NEW a \in Addresses, Remove(h, a)
  PROVE  /\ Known' = Known \ {a}
         /\ \A b \in Addresses \ {a} : targets'[b] = targets[b]
<1>1. /\ targets'[a] = NoTarget
      /\ \A b \in Addresses \ {a} : targets'[b] = targets[b]
  BY DEF Remove, RegistryTypeOK
<1>2. QED BY <1>1 DEF Known

-----------------------------------------------------------------------------
(* Claims.                                                                 *)

\* Each operation leaves active to be what shouldProcessTargetLocked says of
\* the known addresses and the peers it leaves.
LEMMA ActiveIsOwnedStep ==
  ASSUME RegistryTypeOK, ActiveIsOwned, RegistryNext \/ Receive
  PROVE  ActiveIsOwned'
<1> USE DEF ActiveIsOwned
<1>1. ASSUME NEW h \in PeerHandlers, NEW peers \in SUBSET Pods, UpdatePeers(h, peers)
      PROVE  ActiveIsOwned'
  <2>1. Known' = Known
    BY <1>1 DEF UpdatePeers, Known
  <2>2. active' = {a \in Known : evalShardingOwner(a, selfPodIP, peers)}
    BY <1>1 DEF UpdatePeers, Known
  <2>3. clusterPodIPs' = peers
    BY <1>1 DEF UpdatePeers
  <2>4. QED BY <2>1, <2>2, <2>3 DEF shouldProcessTargetLocked
<1>2. ASSUME NEW h \in SliceHandlers, NEW k \in SliceKeys, NEW listed \in SUBSET Addresses,
             UpdateFromEndpointSlice(h, k, listed)
      PROVE  ActiveIsOwned'
  <2>1. active' = (active \ Disappeared(k, listed))
                    \cup {a \in Fresh(listed) : shouldProcessTargetLocked(a)}
    BY <1>2 DEF UpdateFromEndpointSlice
  <2>2. clusterPodIPs' = clusterPodIPs
    BY <1>2 DEF UpdateFromEndpointSlice
  <2>3. /\ Known' = (Known \ Disappeared(k, listed)) \cup Fresh(listed)
        /\ Disappeared(k, listed) \cap Fresh(listed) = {}
    BY <1>2, KnownAfterSlice
  <2>4. QED BY <2>1, <2>2, <2>3 DEF shouldProcessTargetLocked
<1>3. ASSUME NEW h \in SliceHandlers, NEW k \in SliceKeys, RemoveEndpointSlice(h, k)
      PROVE  ActiveIsOwned'
  <2>1. active' = active \ {a \in sliceTargets[k] : ~IsStatic(a)}
        /\ clusterPodIPs' = clusterPodIPs
    BY <1>3 DEF RemoveEndpointSlice
  <2>2. QED BY <1>3, <2>1, KnownAfterRemoveSlice DEF shouldProcessTargetLocked
<1>4. ASSUME NEW h \in StaticHandlers, NEW a \in Addresses, NEW o \in Options, Add(h, a, o)
      PROVE  ActiveIsOwned'
  <2>1. Known' = Known \cup {a} /\ clusterPodIPs' = clusterPodIPs
    BY <1>4, KnownAfterAdd DEF Add
  <2>2. CASE shouldProcessTargetLocked(a) /\ active' = active \cup {a}
    BY <2>1, <2>2 DEF shouldProcessTargetLocked
  <2>3. CASE ~shouldProcessTargetLocked(a) /\ active' = active
    BY <2>1, <2>3 DEF shouldProcessTargetLocked
  <2>4. QED BY <1>4, <2>2, <2>3 DEF Add
<1>5. ASSUME NEW h \in StaticHandlers, NEW a \in Addresses, Remove(h, a)
      PROVE  ActiveIsOwned'
  <2>1. active' = active \ {a} /\ clusterPodIPs' = clusterPodIPs
    BY <1>5 DEF Remove
  <2>2. QED BY <1>5, <2>1, KnownAfterRemove DEF shouldProcessTargetLocked
<1>6. ASSUME UNCHANGED <<targets, clusterPodIPs, active>>
      PROVE  ActiveIsOwned'
  BY <1>6 DEF Known, shouldProcessTargetLocked
<1>7. QED
  BY <1>1, <1>2, <1>3, <1>4, <1>5, <1>6 DEF RegistryNext, emitEvent, Cancel, Receive

\* At every instant the claims of the replica are the known targets that the
\* current peers give it, whatever the operations and their order.
THEOREM ClaimsAreOwned == RegistrySpec => []ActiveIsOwned
<1>1. Init => ActiveIsOwned
  BY DEF Init, ActiveIsOwned, Known
<1>2. RegistryTypeOK /\ ActiveIsOwned /\ [RegistryNext \/ Receive]_registryVars
        => ActiveIsOwned'
  <2>1. ActiveIsOwned /\ UNCHANGED registryVars => ActiveIsOwned'
    BY DEF ActiveIsOwned, Known, shouldProcessTargetLocked, registryVars
  <2>2. QED BY <2>1, ActiveIsOwnedStep
<1>3. QED BY <1>1, <1>2, RegistryTypeCorrect, PTL DEF RegistrySpec

-----------------------------------------------------------------------------
(* Dynamic targets.                                                        *)

\* Each operation leaves every dynamic entry listed by some slice.
LEMMA DynamicIsListedStep ==
  ASSUME RegistryTypeOK, DynamicIsListed, RegistryNext \/ Receive
  PROVE  DynamicIsListed'
<1> USE DEF DynamicIsListed
<1>1. ASSUME NEW h \in SliceHandlers, NEW k \in SliceKeys, NEW listed \in SUBSET Addresses,
             UpdateFromEndpointSlice(h, k, listed)
      PROVE  DynamicIsListed'
  <2>1. /\ sliceTargets'[k] = listed
        /\ \A j \in SliceKeys \ {k} : sliceTargets'[j] = sliceTargets[j]
    BY <1>1 DEF UpdateFromEndpointSlice, RegistryTypeOK
  <2>2. SUFFICES ASSUME NEW a \in Known', ~IsStatic(a)'
                 PROVE  \E j \in SliceKeys : a \in sliceTargets'[j]
    OBVIOUS
  <2>3. CASE a \in Fresh(listed)
    BY <2>1, <2>3 DEF Fresh
  <2>4. CASE a \in Known \ Disappeared(k, listed)
    <3>1. targets'[a] = targets[a]
      BY <1>1, <2>4, KnownAfterSlice
    <3>2. ~IsStatic(a)
      BY <2>2, <3>1 DEF IsStatic
    <3>3. PICK j \in SliceKeys : a \in sliceTargets[j]
      BY <2>4, <3>2
    <3>4. j = k => a \in listed
      BY <2>4, <3>2, <3>3 DEF Disappeared
    <3>5. QED BY <2>1, <3>3, <3>4
  <2>5. QED BY <1>1, <2>3, <2>4, KnownAfterSlice
<1>2. ASSUME NEW h \in SliceHandlers, NEW k \in SliceKeys, RemoveEndpointSlice(h, k)
      PROVE  DynamicIsListed'
  <2>1. \A j \in SliceKeys \ {k} : sliceTargets'[j] = sliceTargets[j]
    BY <1>2 DEF RemoveEndpointSlice, RegistryTypeOK
  <2>2. SUFFICES ASSUME NEW a \in Known', ~IsStatic(a)'
                 PROVE  \E j \in SliceKeys : a \in sliceTargets'[j]
    OBVIOUS
  <2>3. a \in Known /\ targets'[a] = targets[a]
    BY <1>2, KnownAfterRemoveSlice
  <2>4. ~IsStatic(a)
    BY <2>2, <2>3 DEF IsStatic
  <2>5. a \notin sliceTargets[k]
    BY <1>2, <2>4, KnownAfterRemoveSlice
  <2>6. QED BY <2>1, <2>3, <2>4, <2>5
<1>3. ASSUME NEW h \in StaticHandlers, NEW a \in Addresses, NEW o \in Options, Add(h, a, o)
      PROVE  DynamicIsListed'
  <2>1. sliceTargets' = sliceTargets
    BY <1>3 DEF Add
  <2>2. ASSUME NEW b \in Known', ~IsStatic(b)'
        PROVE  b \in Known /\ ~IsStatic(b)
    BY <1>3, <2>2, KnownAfterAdd DEF IsStatic, Known
  <2>3. QED BY <2>1, <2>2
<1>4. ASSUME NEW h \in StaticHandlers, NEW a \in Addresses, Remove(h, a)
      PROVE  DynamicIsListed'
  <2>1. sliceTargets' = sliceTargets
    BY <1>4 DEF Remove
  <2>2. ASSUME NEW b \in Known', ~IsStatic(b)'
        PROVE  b \in Known /\ ~IsStatic(b)
    BY <1>4, <2>2, KnownAfterRemove DEF IsStatic, Known
  <2>3. QED BY <2>1, <2>2
<1>5. ASSUME UNCHANGED <<targets, sliceTargets>>
      PROVE  DynamicIsListed'
  BY <1>5 DEF Known, IsStatic
<1>6. QED
  BY <1>1, <1>2, <1>3, <1>4, <1>5
     DEF RegistryNext, UpdatePeers, emitEvent, Cancel, Receive

\* No dynamic target is orphaned: a slice lists it, so that the slice's
\* update or deletion removes it.
THEOREM NoOrphans == RegistrySpec => []DynamicIsListed
<1>1. Init => DynamicIsListed
  BY DEF Init, DynamicIsListed, Known
<1>2. RegistryTypeOK /\ DynamicIsListed /\ [RegistryNext \/ Receive]_registryVars
        => DynamicIsListed'
  <2>1. DynamicIsListed /\ UNCHANGED registryVars => DynamicIsListed'
    BY DEF DynamicIsListed, Known, IsStatic, registryVars
  <2>2. QED BY <2>1, DynamicIsListedStep
<1>3. QED BY <1>1, <1>2, RegistryTypeCorrect, PTL DEF RegistrySpec

-----------------------------------------------------------------------------
(* Static targets.                                                         *)

\* No event of any slice touches the entry of a static target or the claim
\* on it.
THEOREM StaticIsProtected == RegistrySpec => StaticSurvivesSlices
<1> DEFINE Untouched(a) == targets'[a] = targets[a] /\ (a \in active' <=> a \in active)
           Protects == sliceTargets' # sliceTargets =>
                         \A a \in Addresses : IsStatic(a) => Untouched(a)
<1>1. ASSUME RegistryTypeOK,
             NEW h \in SliceHandlers, NEW k \in SliceKeys, NEW listed \in SUBSET Addresses,
             UpdateFromEndpointSlice(h, k, listed)
      PROVE  Protects
  <2>1. SUFFICES ASSUME NEW a \in Addresses, IsStatic(a)
                 PROVE  Untouched(a)
    OBVIOUS
  <2>2. a \in Known /\ a \notin Disappeared(k, listed) /\ a \notin Fresh(listed)
    BY <2>1 DEF Known, IsStatic, Disappeared, Fresh
  <2>3. targets'[a] = targets[a]
    BY <1>1, <2>2, KnownAfterSlice
  <2>4. a \in active' <=> a \in active
    BY <1>1, <2>2 DEF UpdateFromEndpointSlice
  <2>5. QED BY <2>3, <2>4
<1>2. ASSUME RegistryTypeOK,
             NEW h \in SliceHandlers, NEW k \in SliceKeys, RemoveEndpointSlice(h, k)
      PROVE  Protects
  <2>1. SUFFICES ASSUME NEW a \in Addresses, IsStatic(a)
                 PROVE  Untouched(a)
    OBVIOUS
  <2>2. a \in Known'
    BY <1>2, <2>1, KnownAfterRemoveSlice DEF Known, IsStatic
  <2>3. targets'[a] = targets[a]
    BY <1>2, <2>2, KnownAfterRemoveSlice
  <2>4. a \in active' <=> a \in active
    BY <1>2, <2>1 DEF RemoveEndpointSlice
  <2>5. QED BY <2>3, <2>4
<1>3. RegistryTypeOK /\ [RegistryNext \/ Receive]_registryVars => [Protects]_registryVars
  <2>1. RegistryTypeOK /\ (RegistryNext \/ Receive) => Protects
    BY <1>1, <1>2 DEF RegistryNext, UpdatePeers, Add, Remove, emitEvent, Cancel, Receive
  <2>2. QED BY <2>1
<1>4. QED
  BY <1>3, RegistryTypeCorrect, PTL DEF RegistrySpec, StaticSurvivesSlices
=============================================================================
