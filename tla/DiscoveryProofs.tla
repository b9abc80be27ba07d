--------------------------- MODULE DiscoveryProofs --------------------------
(***************************************************************************)
(* Proofs about Discovery, for any objects, informers and addresses.       *)
(***************************************************************************)
EXTENDS Discovery, EventLoopProofs

-----------------------------------------------------------------------------
(* The objects, and Discovery as a use of the registry and the loop.       *)

ObjectsTypeOK ==
  /\ {slices, seenSlices} \subseteq [SliceKeys -> Slice \cup {NoObject}]
  /\ {services, seenServices} \subseteq [Services -> Routes \cup {NoObject}]
  /\ {statics, seenStatics} \subseteq [StaticKeys -> StaticTarget \cup {Invalid, NoObject}]
  /\ changes \in 0 .. MaxChanges
  /\ others \in 0 .. MaxOthers
  /\ amended \in SUBSET Addresses

\* The initial state of the objects.
LEMMA ObjectsInit == DiscoveryInit => ObjectsTypeOK
  BY DiscoveryAssumption DEF DiscoveryInit, ObjectsTypeOK

\* The address of an object is an address.
LEMMA NamesType == \A object : Names(object) \in SUBSET Addresses
  BY DEF Names, StaticTarget

\* Amended adds the addresses of objects.
LEMMA AmendedType ==
  ASSUME ObjectsTypeOK, NEW c, NEW new PROVE Amended(c, new) \in SUBSET Addresses
  BY NamesType DEF Amended, ObjectsTypeOK

\* Every step keeps the types of the objects and of what is seen of them.
LEMMA ObjectsStep == ASSUME ObjectsTypeOK, [Next]_vars PROVE ObjectsTypeOK'
<1> USE DEF apiVars, seenVars, objectVars
<1>1. CASE ApiChange
  <2>1. /\ slices' \in [SliceKeys -> Slice \cup {NoObject}]
        /\ services' \in [Services -> Routes \cup {NoObject}]
        /\ statics' \in [StaticKeys -> StaticTarget \cup {Invalid, NoObject}]
    BY <1>1 DEF ApiChange, ObjectsTypeOK
  <2>2. changes' \in 0 .. MaxChanges
    BY <1>1, DiscoveryAssumption DEF ApiChange, ObjectsTypeOK
  <2>3. QED BY <1>1, <2>1, <2>2 DEF ApiChange, ObjectsTypeOK
<1>2. ASSUME NEW h, NEW k \in SliceKeys, DeliverSlice(h, k) PROVE ObjectsTypeOK'
  BY <1>2 DEF DeliverSlice, ObjectsTypeOK
<1>3. ASSUME NEW h, NEW k \in SliceKeys, ResyncSlice(h, k) PROVE ObjectsTypeOK'
  BY <1>3 DEF ResyncSlice, ObjectsTypeOK
<1>4. ASSUME NEW s \in Services, SyncService(s) PROVE ObjectsTypeOK'
  BY <1>4 DEF SyncService, ObjectsTypeOK
<1>5. ASSUME NEW h, NEW c \in StaticKeys, DeliverStatic(h, c) PROVE ObjectsTypeOK'
  <2>1. amended' \in SUBSET Addresses
    BY <1>5, AmendedType DEF DeliverStatic
  <2>2. QED BY <1>5, <2>1 DEF DeliverStatic, ObjectsTypeOK
<1>6. ASSUME NEW h, NEW c \in StaticKeys, ResyncStatic(h, c) PROVE ObjectsTypeOK'
  BY <1>6 DEF ResyncStatic, ObjectsTypeOK
<1>7. CASE PeersOrSigterm
  <2>1. others' \in 0 .. MaxOthers
    BY <1>7, DiscoveryAssumption DEF PeersOrSigterm, ObjectsTypeOK
  <2>2. QED BY <1>7, <2>1 DEF PeersOrSigterm, ObjectsTypeOK
<1>8. CASE UNCHANGED objectVars
  BY <1>8 DEF ObjectsTypeOK
<1>9. QED BY <1>1, <1>2, <1>3, <1>4, <1>5, <1>6, <1>7, <1>8 DEF Next, Notify, vars

\* What the slice handler passes to the registry are addresses.
LEMMA ListedType ==
  ASSUME ObjectsTypeOK, NEW k \in SliceKeys, NEW slice \in Slice
  PROVE  /\ getProbeSchemeAndPath(k) \in Routes
         /\ Listed(slice, getProbeSchemeAndPath(k)) \in SUBSET Addresses
<1>1. getProbeSchemeAndPath(k) \in Routes
  BY DiscoveryAssumption DEF getProbeSchemeAndPath, ObjectsTypeOK
<1>2. slice.ready \in SUBSET Endpoints
  BY DEF Slice
<1>3. \A e \in Endpoints, r \in Routes : address[<<e, r>>] \in Addresses
  BY DiscoveryAssumption
<1>4. QED BY <1>1, <1>2, <1>3 DEF Listed

\* The slice handler performs one of the registry's operations, or none.
LEMMA SliceOperation ==
  ASSUME ObjectsTypeOK, NEW h \in SliceHandlers, NEW k \in SliceKeys, NEW old,
         NEW new \in Slice \cup {NoObject}, HandleSlice(h, k, old, new)
  PROVE  \/ /\ new \in Slice /\ new.probe
            /\ \E listed \in SUBSET Addresses :
                 /\ listed = Listed(new, getProbeSchemeAndPath(k))
                 /\ UpdateFromEndpointSlice(h, k, listed)
         \/ RemoveEndpointSlice(h, k)
         \/ /\ UNCHANGED registryVars
            /\ IF new = NoObject THEN ~old.probe ELSE ~new.probe /\ old = NoObject
<1>1. CASE new # NoObject /\ new.probe
           /\ UpdateFromEndpointSlice(h, k, Listed(new, getProbeSchemeAndPath(k)))
  BY <1>1, ListedType
<1>2. QED BY <1>1 DEF HandleSlice, Ignore

\* So does the handler of StaticTargets.
LEMMA StaticOperation ==
  ASSUME NEW h \in StaticHandlers, NEW old, NEW new, HandleStatic(h, old, new)
  PROVE  \/ \E a \in Names(new) : new.Options \in Options /\ Add(h, a, new.Options)
         \/ new = NoObject /\ \E a \in Names(old) : Remove(h, a)
         \/ /\ UNCHANGED registryVars
            /\ IF new = NoObject THEN Names(old) \cap Known = {}
                                 ELSE \A a \in Names(new) : IsStatic(a)
<1>1. \A a \in Names(new) : new.Options \in Options
  BY DEF Names, StaticTarget
<1>2. QED BY <1>1 DEF HandleStatic, Ignore

\* The history changes only with what goroutines owe.
LEMMA HistoryStutters ==
  ASSUME History, UNCHANGED registryVars PROVE UNCHANGED <<raced, missed>>
<1>1. \A h \in Handlers : Owed(h)' = Owed(h)
  BY DEF Owed, registryVars
<1>2. GaveUp = {}
  BY <1>1 DEF GaveUp
<1>3. QED BY <1>1, <1>2, NothingCollected

\* A notification is an operation of the registry or changes nothing in it: the
\* handlers call it with addresses and options only.
LEMMA NotifyStep == ASSUME ObjectsTypeOK, Notify PROVE [RegistryNext]_registryVars
<1>1. ASSUME NEW h \in SliceHandlers, NEW k \in SliceKeys, NEW old,
             NEW new \in Slice \cup {NoObject}, HandleSlice(h, k, old, new)
      PROVE  [RegistryNext]_registryVars
  BY <1>1, SliceOperation DEF RegistryNext
<1>2. ASSUME NEW h \in StaticHandlers, NEW old, NEW new, HandleStatic(h, old, new)
      PROVE  [RegistryNext]_registryVars
  BY <1>2, StaticOperation, NamesType DEF RegistryNext
<1>3. ASSUME NEW h \in SliceHandlers, NEW k \in SliceKeys, DeliverSlice(h, k) \/ ResyncSlice(h, k)
      PROVE  [RegistryNext]_registryVars
  <2>1. slices[k] \in Slice \cup {NoObject} /\ seenSlices[k] \in Slice \cup {NoObject}
    BY DEF ObjectsTypeOK
  <2>2. QED BY <1>1, <1>3, <2>1 DEF DeliverSlice, ResyncSlice
<1>4. ASSUME NEW s \in Services, SyncService(s) PROVE UNCHANGED registryVars
  BY <1>4 DEF SyncService
<1>5. ASSUME NEW h \in StaticHandlers, NEW c \in StaticKeys,
             DeliverStatic(h, c) \/ ResyncStatic(h, c)
      PROVE  [RegistryNext]_registryVars
  BY <1>2, <1>5 DEF DeliverStatic, ResyncStatic
<1>6. QED BY <1>3, <1>4, <1>5 DEF Notify

\* Every step of the replica is a step of the event loop's specification, in
\* which any call may come at any time, or changes nothing in it.
LEMMA LoopStep == ASSUME ObjectsTypeOK, [Next]_vars PROVE [LoopNext]_loopVars
<1>1. CASE UNCHANGED vars
  BY <1>1 DEF vars
<1>2. ASSUME [RegistryNext]_registryVars, UNCHANGED schedulerVars, History
      PROVE  [LoopNext]_loopVars
  BY <1>2, HistoryStutters DEF LoopNext, loopVars
<1>3. CASE ApiChange /\ UNCHANGED schedulerVars /\ History
  BY <1>2, <1>3 DEF ApiChange
<1>4. CASE PeersOrSigterm /\ UNCHANGED schedulerVars /\ History
  <2>1. RegistryNext
    BY <1>4 DEF PeersOrSigterm, RegistryNext
  <2>2. QED BY <1>2, <1>4, <2>1
<1>5. CASE Notify /\ UNCHANGED schedulerVars /\ History
  BY <1>2, <1>5, NotifyStep
<1>6. CASE Deliver /\ History
  BY <1>6 DEF Deliver, LoopNext, RegistryNext
<1>7. QED BY <1>1, <1>3, <1>4, <1>5, <1>6 DEF Next

\* The types of the objects hold in every reachable state.
LEMMA ObjectsHold == Spec => []ObjectsTypeOK
  BY ObjectsInit, ObjectsStep, PTL DEF Spec

\* informer.go:83, statictargets.go:36: a replica, with its informers, implements
\* the specification of the event loop and the registry, so every theorem of
\* EventLoopProofs and RegistryProofs holds of it.
LEMMA ReplicaImplementsLoop == Spec => LoopSpec
<1>1. DiscoveryInit => LoopInit
  BY DEF DiscoveryInit
<1>2. ObjectsTypeOK /\ [Next]_vars => [LoopNext]_loopVars
  BY LoopStep
<1>3. QED BY <1>1, <1>2, ObjectsHold, PTL DEF Spec, LoopSpec

\* In particular it implements the registry's specification.
LEMMA DiscoveryUsesRegistry == Spec => RegistrySpec
  BY ReplicaImplementsLoop, ImplementsRegistry, PTL

\* Every variable keeps its type; Events never holds more than its capacity.
THEOREM TypeCorrect == Spec => []TypeOK
<1>1. ObjectsTypeOK /\ LoopTypeOK => TypeOK
  BY DEF ObjectsTypeOK, TypeOK
<1>2. QED BY <1>1, ObjectsHold, ReplicaImplementsLoop, LoopTypeCorrect, PTL

-----------------------------------------------------------------------------
(* No phantoms.                                                            *)

\* What the registry keeps for a slice comes from the slice as last seen: it is
\* nothing when the slice is gone or has no label.
SliceTargetsAreSeen ==
  \A k \in SliceKeys : sliceTargets[k] # {} =>
    /\ seenSlices[k] # NoObject /\ seenSlices[k].probe
    /\ \A a \in sliceTargets[k] :
         \E e \in seenSlices[k].ready, r \in Routes : a = address[<<e, r>>]

\* A notification about slice k, new or repeated, leaves what is kept for k in
\* agreement with its newest version, and what is kept for the others alone.
LEMMA SliceSeen ==
  ASSUME ObjectsTypeOK, RegistryTypeOK, SliceTargetsAreSeen,
         NEW h \in SliceHandlers, NEW k \in SliceKeys, NEW new \in Slice \cup {NoObject},
         HandleSlice(h, k, seenSlices[k], new)
  PROVE  /\ sliceTargets'[k] # {} =>
              /\ new # NoObject /\ new.probe
              /\ \A a \in sliceTargets'[k] :
                   \E e \in new.ready, r \in Routes : a = address[<<e, r>>]
         /\ \A j \in SliceKeys \ {k} : sliceTargets'[j] = sliceTargets[j]
<1>1. ASSUME NEW listed \in SUBSET Addresses, new \in Slice, new.probe,
             listed = Listed(new, getProbeSchemeAndPath(k)),
             UpdateFromEndpointSlice(h, k, listed)
      PROVE  /\ \A a \in sliceTargets'[k] :
                  \E e \in new.ready, r \in Routes : a = address[<<e, r>>]
             /\ new # NoObject /\ new.probe
             /\ \A j \in SliceKeys \ {k} : sliceTargets'[j] = sliceTargets[j]
  <2>1. /\ sliceTargets'[k] = listed
        /\ \A j \in SliceKeys \ {k} : sliceTargets'[j] = sliceTargets[j]
    BY <1>1 DEF UpdateFromEndpointSlice, RegistryTypeOK
  <2>2. getProbeSchemeAndPath(k) \in Routes
    BY <1>1, ListedType
  <2>3. \A a \in listed : \E e \in new.ready : a = address[<<e, getProbeSchemeAndPath(k)>>]
    BY <1>1 DEF Listed
  <2>4. \A a \in listed : \E e \in new.ready, r \in Routes : a = address[<<e, r>>]
    BY <2>2, <2>3
  <2>5. new # NoObject
    BY <1>1, DiscoveryAssumption
  <2>6. QED BY <1>1, <2>1, <2>4, <2>5
<1>2. CASE RemoveEndpointSlice(h, k)
  BY <1>2 DEF RemoveEndpointSlice, RegistryTypeOK
<1>3. ASSUME UNCHANGED registryVars,
             IF new = NoObject THEN ~seenSlices[k].probe
                               ELSE ~new.probe /\ seenSlices[k] = NoObject
      PROVE  sliceTargets'[k] = {} /\ sliceTargets' = sliceTargets
  BY <1>3 DEF SliceTargetsAreSeen, registryVars
<1>4. QED BY <1>1, <1>2, <1>3, SliceOperation

\* Only notifications about slices touch what is kept for them.
LEMMA SeenStep ==
  ASSUME ObjectsTypeOK, RegistryTypeOK, SliceTargetsAreSeen, [Next]_vars
  PROVE  SliceTargetsAreSeen'
<1> USE DEF SliceTargetsAreSeen
<1>1. ASSUME NEW h \in SliceHandlers, NEW k \in SliceKeys, DeliverSlice(h, k)
      PROVE  SliceTargetsAreSeen'
  <2>1. slices[k] \in Slice \cup {NoObject}
    BY DEF ObjectsTypeOK
  <2>2. seenSlices'[k] = slices[k] /\ \A j \in SliceKeys \ {k} : seenSlices'[j] = seenSlices[j]
    BY <1>1 DEF DeliverSlice, ObjectsTypeOK
  <2> DEFINE new == slices[k]
  <2>3. /\ sliceTargets'[k] # {} =>
             /\ new # NoObject /\ new.probe
             /\ \A a \in sliceTargets'[k] :
                  \E e \in new.ready, r \in Routes : a = address[<<e, r>>]
        /\ \A j \in SliceKeys \ {k} : sliceTargets'[j] = sliceTargets[j]
    BY <1>1, <2>1, SliceSeen DEF DeliverSlice
  <2>4. QED BY <2>2, <2>3
<1>2. ASSUME NEW h \in SliceHandlers, NEW k \in SliceKeys, ResyncSlice(h, k)
      PROVE  SliceTargetsAreSeen'
  <2>1. seenSlices[k] \in Slice \cup {NoObject}
    BY DEF ObjectsTypeOK
  <2>2. seenSlices' = seenSlices
    BY <1>2 DEF ResyncSlice, seenVars
  <2> DEFINE new == seenSlices[k]
  <2>3. /\ sliceTargets'[k] # {} =>
             /\ new # NoObject /\ new.probe
             /\ \A a \in sliceTargets'[k] :
                  \E e \in new.ready, r \in Routes : a = address[<<e, r>>]
        /\ \A j \in SliceKeys \ {k} : sliceTargets'[j] = sliceTargets[j]
    BY <1>2, <2>1, SliceSeen DEF ResyncSlice
  <2>4. QED BY <2>2, <2>3
<1>3. ASSUME NEW h \in StaticHandlers, NEW old, NEW new, HandleStatic(h, old, new)
      PROVE  sliceTargets' = sliceTargets
  BY <1>3, StaticOperation DEF Add, Remove, registryVars
<1>4. CASE UNCHANGED <<sliceTargets, seenSlices>>
  BY <1>4
<1>5. QED BY <1>1, <1>2, <1>3, <1>4
          DEF Next, Notify, ApiChange, SyncService, DeliverStatic, ResyncStatic,
              PeersOrSigterm, UpdatePeers, Cancel, Deliver, emitEvent, HandleEvent, Receive,
              Scrape, vars, loopVars, objectVars, apiVars, seenVars, registryVars

\* It holds in every reachable state.
LEMMA SeenHolds == Spec => []SliceTargetsAreSeen
<1>1. DiscoveryInit => SliceTargetsAreSeen
  BY DEF DiscoveryInit, LoopInit, Init, SliceTargetsAreSeen
<1>2. ObjectsTypeOK /\ RegistryTypeOK /\ SliceTargetsAreSeen /\ [Next]_vars
        => SliceTargetsAreSeen'
  BY SeenStep
<1>3. QED BY <1>1, <1>2, ObjectsHold, DiscoveryUsesRegistry, RegistryTypeCorrect, PTL DEF Spec

\* informer.go:101 and 125: every dynamic target comes from an endpoint that is
\* ready in a labelled slice the informer has: the slice that lists it, by
\* DynamicIsListed, has that slice's newest content.
THEOREM NoPhantomTargets == Spec => []NoPhantoms
<1>1. SliceTargetsAreSeen /\ DynamicIsListed => NoPhantoms
  BY DEF SliceTargetsAreSeen, DynamicIsListed, NoPhantoms, Lists
<1>2. QED BY <1>1, SeenHolds, DiscoveryUsesRegistry, NoOrphans, PTL

-----------------------------------------------------------------------------
(* Static targets and the objects that name them.                          *)

\* While two objects name an address, it counts as amended.
SharedIsAmended ==
  \A c, d \in StaticKeys : c # d =>
    Names(seenStatics[c]) \cap Names(seenStatics[d]) \subseteq amended

StaticInv == StaticFollowsObjects /\ SharedIsAmended

\* No operation on slices makes or changes a static entry.
LEMMA SlicesLeaveStatics ==
  ASSUME ObjectsTypeOK, RegistryTypeOK, NEW h \in SliceHandlers, NEW k \in SliceKeys, NEW old,
         NEW new \in Slice \cup {NoObject}, HandleSlice(h, k, old, new), NEW a \in Addresses
  PROVE  /\ IsStatic(a)' <=> IsStatic(a)
         /\ IsStatic(a) => targets'[a] = targets[a]
<1>1. ASSUME NEW listed \in SUBSET Addresses, UpdateFromEndpointSlice(h, k, listed)
      PROVE  /\ IsStatic(a)' <=> IsStatic(a)
             /\ IsStatic(a) => targets'[a] = targets[a]
  <2> DEFINE gone  == Disappeared(k, listed)
             fresh == Fresh(listed)
  <2>0. targets'[a] = CASE a \in gone  -> NoTarget
                        [] a \in fresh -> [Static |-> FALSE, Options |-> DynamicOptions]
                        [] OTHER       -> targets[a]
    BY <1>1 DEF UpdateFromEndpointSlice
  <2>1. CASE a \in Disappeared(k, listed)
    <3>1. a \notin fresh
      BY <2>1 DEF Disappeared, Fresh
    <3>2. targets'[a] = NoTarget
      BY <2>0, <2>1, <3>1
    <3>3. QED BY <2>1, <3>2 DEF Disappeared, IsStatic
  <2>2. CASE a \in Fresh(listed) \ Disappeared(k, listed)
    <3>1. targets'[a] = [Static |-> FALSE, Options |-> DynamicOptions]
      BY <1>1, <2>2, KnownAfterSlice DEF UpdateFromEndpointSlice
    <3>2. QED BY <2>2, <3>1 DEF Fresh, Known, IsStatic
  <2>3. CASE a \notin Fresh(listed) \cup Disappeared(k, listed)
    <3>1. targets'[a] = targets[a]
      BY <1>1, <2>3 DEF UpdateFromEndpointSlice
    <3>2. QED BY <3>1 DEF IsStatic
  <2>4. QED BY <2>1, <2>2, <2>3
<1>2. CASE RemoveEndpointSlice(h, k)
  BY <1>2 DEF RemoveEndpointSlice, IsStatic, Known
<1>3. CASE UNCHANGED registryVars
  BY <1>3 DEF registryVars, IsStatic
<1>4. QED BY <1>1, <1>2, <1>3, SliceOperation

\* A notification about a StaticTarget: the entries of the addresses that are
\* not amended afterwards follow the objects.
LEMMA DeliverStaticStep ==
  ASSUME ObjectsTypeOK, RegistryTypeOK, StaticInv,
         NEW h \in StaticHandlers, NEW c \in StaticKeys, DeliverStatic(h, c)
  PROVE  StaticInv'
<1> DEFINE new == statics[c]
           old == seenStatics[c]
           shared == UNION {Names(seenStatics[d]) : d \in StaticKeys \ {c}}
<1> USE DEF StaticInv
<1>1. /\ seenStatics'[c] = new
      /\ \A d \in StaticKeys \ {c} : seenStatics'[d] = seenStatics[d]
  BY DEF DeliverStatic, ObjectsTypeOK
<1>2. amended' = IF new = NoObject THEN amended \ (Names(old) \ shared)
                                   ELSE amended \cup Names(old) \cup (Names(new) \cap shared)
  BY DEF DeliverStatic, Amended
<1>3. Names(NoObject) = {}
  BY DiscoveryAssumption DEF Names
<1>4. \A d \in StaticKeys \ {c} : Names(seenStatics[d]) \subseteq shared
  OBVIOUS
<1>5. \A b \in shared : \E d \in StaticKeys \ {c} : b \in Names(seenStatics[d])
  OBVIOUS
<1>6. \A b \in Names(old) \cap shared : b \in amended
  BY <1>5 DEF SharedIsAmended
<1> HIDE DEF new, old, shared
<1>7. SharedIsAmended'
  <2> SUFFICES ASSUME NEW d \in StaticKeys, NEW e \in StaticKeys, d # e,
                      NEW b \in Names(seenStatics'[d]) \cap Names(seenStatics'[e])
               PROVE  b \in amended'
    BY DEF SharedIsAmended, Names
  <2>1. CASE d # c /\ e # c
    <3>1. b \in amended /\ b \in shared
      BY <1>1, <1>4, <2>1 DEF SharedIsAmended
    <3>2. QED BY <1>2, <3>1
  <2>2. CASE d = c \/ e = c
    <3>1. b \in Names(new) /\ b \in shared
      BY <1>1, <1>4, <2>2
    <3>2. QED BY <1>2, <1>3, <3>1
  <2>3. QED BY <2>1, <2>2
<1>8. ASSUME NEW b \in Addresses, b \notin amended'
      PROVE  /\ IsStatic(b)' => \E d \in StaticKeys : b \in Names(seenStatics'[d])
             /\ \A d \in StaticKeys : b \in Names(seenStatics'[d]) =>
                  IsStatic(b)' /\ targets'[b].Options = seenStatics'[d].Options
  <2>1. \/ \E a \in Names(new) : new.Options \in Options /\ Add(h, a, new.Options)
        \/ new = NoObject /\ \E a \in Names(old) : Remove(h, a)
        \/ /\ UNCHANGED registryVars
           /\ IF new = NoObject THEN Names(old) \cap Known = {}
                                ELSE \A a \in Names(new) : IsStatic(a)
    BY StaticOperation DEF DeliverStatic, new, old
  <2>2. CASE b \in Names(new)
    <3>1. new # NoObject /\ b \notin shared /\ b \notin Names(old) /\ b \notin amended
      BY <1>2, <1>3, <1>8, <2>2
    <3>2. \A d \in StaticKeys : b \notin Names(seenStatics[d])
      BY <1>4, <3>1 DEF old
    <3>3. ~IsStatic(b)
      BY <1>8, <3>1, <3>2 DEF StaticFollowsObjects
    <3>4. PICK a \in Names(new) : new.Options \in Options /\ Add(h, a, new.Options)
      BY <2>1, <2>2, <3>1, <3>3
    <3>5. a = b
      BY <2>2, <3>4 DEF Names
    <3>6. targets'[b] = [Static |-> TRUE, Options |-> new.Options]
      BY <3>4, <3>5 DEF Add, RegistryTypeOK
    <3>7. IsStatic(b)' /\ targets'[b].Options = new.Options
      <4>1. targets'[b] # NoTarget /\ targets'[b].Static
        BY <3>4, <3>5, KnownAfterAdd DEF Known
      <4>2. targets'[b].Options = new.Options
        BY <3>6
      <4>3. QED BY <4>1, <4>2 DEF IsStatic
    <3>8. \A d \in StaticKeys \ {c} : b \notin Names(seenStatics'[d])
      BY <1>1, <3>2
    <3>9. QED BY <1>1, <2>2, <3>7, <3>8
  <2>3. CASE b \notin Names(new) /\ b \in Names(old)
    <3>1. new = NoObject /\ b \notin shared
      BY <1>2, <1>6, <1>8, <2>3
    <3>2. \A d \in StaticKeys : b \notin Names(seenStatics'[d])
      BY <1>1, <1>4, <2>3, <3>1
    <3>3. ~IsStatic(b)'
      <4>1. ASSUME NEW a \in Names(old), Remove(h, a) PROVE ~IsStatic(b)'
        <5>1. a = b
          BY <2>3, <4>1 DEF Names
        <5>2. b \notin Known'
          BY <4>1, <5>1, KnownAfterRemove
        <5>3. QED BY <5>2 DEF IsStatic, Known
      <4>2. ASSUME UNCHANGED registryVars, Names(old) \cap Known = {} PROVE ~IsStatic(b)'
        BY <2>3, <4>2 DEF registryVars, IsStatic, Known
      <4>3. QED BY <1>3, <2>1, <3>1, <4>1, <4>2
    <3>4. QED BY <3>2, <3>3
  <2>4. CASE b \notin Names(new) /\ b \notin Names(old)
    <3>1. b \notin amended
      BY <1>2, <1>8, <2>4
    <3>2. targets'[b] = targets[b]
      <4>1. ASSUME NEW a \in Names(new), new.Options \in Options, Add(h, a, new.Options)
            PROVE  targets'[b] = targets[b]
        BY <2>4, <4>1, KnownAfterAdd, NamesType
      <4>2. ASSUME NEW a \in Names(old), Remove(h, a) PROVE targets'[b] = targets[b]
        BY <2>4, <4>2, KnownAfterRemove, NamesType
      <4>3. QED BY <2>1, <4>1, <4>2 DEF registryVars
    <3>3. IsStatic(b)' <=> IsStatic(b)
      BY <3>2 DEF IsStatic
    <3>4. \A d \in StaticKeys : b \in Names(seenStatics'[d]) <=> b \in Names(seenStatics[d])
      BY <1>1, <2>4 DEF old
    <3>5. \A d \in StaticKeys : b \in Names(seenStatics'[d]) => seenStatics'[d] = seenStatics[d]
      BY <1>1, <2>4
    <3>6. QED BY <3>1, <3>2, <3>3, <3>4, <3>5 DEF StaticFollowsObjects
  <2>5. QED BY <2>2, <2>3, <2>4
<1>9. StaticFollowsObjects'
  BY <1>8 DEF StaticFollowsObjects, Names
<1>10. QED BY <1>7, <1>9

\* A repeated notification changes nothing unless the address is amended.
LEMMA ResyncStaticStep ==
  ASSUME ObjectsTypeOK, RegistryTypeOK, StaticInv,
         NEW h \in StaticHandlers, NEW c \in StaticKeys, ResyncStatic(h, c)
  PROVE  StaticInv'
<1> DEFINE object == seenStatics[c]
<1> USE DEF StaticInv
<1>1. seenStatics' = seenStatics /\ amended' = amended
  BY DEF ResyncStatic, seenVars
<1>2. ASSUME NEW a \in Names(object), object.Options \in Options, Add(h, a, object.Options)
      PROVE  \A b \in Addresses \ amended : targets'[b] = targets[b]
  <2>1. a \in Addresses /\ ~IsStatic(a)
    BY <1>2, NamesType DEF Add
  <2>2. a \in amended
    BY <1>2, <2>1 DEF StaticFollowsObjects
  <2>3. QED BY <1>2, <2>1, <2>2, KnownAfterAdd
<1>3. \A b \in Addresses \ amended : targets'[b] = targets[b]
  BY <1>2, StaticOperation DEF ResyncStatic, registryVars
<1>4. QED BY <1>1, <1>3 DEF StaticFollowsObjects, SharedIsAmended, IsStatic, Names

\* No step makes an entry of an address that is not amended disagree with the
\* objects.
LEMMA StaticStep ==
  ASSUME ObjectsTypeOK, RegistryTypeOK, StaticInv, [Next]_vars PROVE StaticInv'
<1> USE DEF StaticInv
<1>1. ASSUME NEW h \in SliceHandlers, NEW k \in SliceKeys, DeliverSlice(h, k) \/ ResyncSlice(h, k)
      PROVE  StaticInv'
  <2>1. slices[k] \in Slice \cup {NoObject} /\ seenSlices[k] \in Slice \cup {NoObject}
    BY DEF ObjectsTypeOK
  <2>2. \A a \in Addresses : /\ IsStatic(a)' <=> IsStatic(a)
                             /\ IsStatic(a) => targets'[a] = targets[a]
    BY <1>1, <2>1, SlicesLeaveStatics DEF DeliverSlice, ResyncSlice
  <2>3. seenStatics' = seenStatics /\ amended' = amended
    BY <1>1 DEF DeliverSlice, ResyncSlice, seenVars
  <2>4. SharedIsAmended'
    BY <2>3 DEF SharedIsAmended, Names
  <2>5. StaticFollowsObjects'
    BY <2>2, <2>3 DEF StaticFollowsObjects, Names
  <2>6. QED BY <2>4, <2>5
<1>2. ASSUME UNCHANGED <<targets, seenStatics, amended>> PROVE StaticInv'
  BY <1>2 DEF StaticFollowsObjects, SharedIsAmended, IsStatic, Names
<1>3. QED BY <1>1, <1>2, DeliverStaticStep, ResyncStaticStep
          DEF Next, Notify, ApiChange, SyncService, PeersOrSigterm, UpdatePeers, Cancel,
              Deliver, emitEvent, HandleEvent, Receive, Scrape, vars, loopVars, objectVars,
              seenVars, registryVars

\* ADR 0023: an address has a static entry exactly if an object names it, with
\* that object's options, unless an object was replaced while it named the
\* address or two objects name it.
THEOREM StaticEntriesFollowObjects == Spec => []StaticFollowsObjects
<1>1. DiscoveryInit => StaticInv
  BY DiscoveryAssumption
  DEF DiscoveryInit, LoopInit, Init, StaticInv, StaticFollowsObjects, SharedIsAmended,
      IsStatic, Names
<1>2. ObjectsTypeOK /\ RegistryTypeOK /\ StaticInv /\ [Next]_vars => StaticInv'
  BY StaticStep
<1>3. Spec => []StaticInv
  BY <1>1, <1>2, ObjectsHold, DiscoveryUsesRegistry, RegistryTypeCorrect, PTL DEF Spec
<1>4. StaticInv => StaticFollowsObjects
  BY DEF StaticInv
<1>5. QED BY <1>3, <1>4, PTL

-----------------------------------------------------------------------------
\* ADR 0008 and 0023 end to end: a settled scheduler that neither raced nor has an
\* amended address probes something an object stands for and this replica owns,
\* and the StaticTargets of this replica are probed.
THEOREM ProbesFollowObjects == Spec => []SchedulersFollowObjects
<1>1. SchedulersFollowRegistry /\ ActiveIsOwned /\ NoPhantoms /\ StaticFollowsObjects
        => SchedulersFollowObjects
  <2> SUFFICES ASSUME SchedulersFollowRegistry, ActiveIsOwned, NoPhantoms,
                      StaticFollowsObjects, ~ctxDone,
                      NEW a \in Addresses, a \notin raced, a \notin amended, Settled(a)
               PROVE  /\ a \in Running =>
                           /\ Declared(a) \/ \E k \in SliceKeys : Lists(k, a)
                           /\ shouldProcessTargetLocked(a)
                      /\ Declared(a) /\ shouldProcessTargetLocked(a) /\ a \notin missed
                           => a \in Running
    BY DEF SchedulersFollowObjects
  <2>1. /\ a \in Running => a \in active
        /\ a \in active /\ a \notin missed => a \in Running
    BY DEF SchedulersFollowRegistry
  <2>2. a \in active <=> a \in Known /\ shouldProcessTargetLocked(a)
    BY DEF ActiveIsOwned
  <2>3. IsStatic(a) <=> Declared(a)
    BY DEF StaticFollowsObjects, Declared
  <2>4. IsStatic(a) => a \in Known
    BY DEF IsStatic, Known
  <2>5. a \in Known /\ ~IsStatic(a) => \E k \in SliceKeys : Lists(k, a)
    BY DEF NoPhantoms
  <2>6. QED BY <2>1, <2>2, <2>3, <2>4, <2>5
<1>2. QED BY <1>1, ReplicaImplementsLoop, SchedulersAgree, DiscoveryUsesRegistry, ClaimsAreOwned,
             NoPhantomTargets, StaticEntriesFollowObjects, PTL

-----------------------------------------------------------------------------
(* How the resync converges: what DiscoveryConverges needs but fairness.   *)

\* The informers have seen the objects, as they are now.
CaughtUp == seenSlices = slices /\ seenServices = services /\ seenStatics = statics

\* The registry keeps for slice k what it stands for; it has an entry for each of
\* these addresses; it has a static one for what the StaticTarget c names.
Current(k) == sliceTargets[k] = Stands(k)
Entered(k) == Stands(k) \subseteq Known
StaticEntered(c) == \A a \in Names(statics[c]) : IsStatic(a)

ObjectsRest == UNCHANGED <<slices, services, statics>>

LEMMA StandsType ==
  ASSUME ObjectsTypeOK, NEW k \in SliceKeys PROVE Stands(k) \in SUBSET Addresses
<1> DEFINE svc   == services[serviceOf[k]]
           route == IF svc = NoObject THEN DefaultRoute ELSE svc
<1>1. route \in Routes
  BY DiscoveryAssumption DEF ObjectsTypeOK
<1>2. slices[k] # NoObject => slices[k].ready \in SUBSET Endpoints
  BY DEF ObjectsTypeOK, Slice
<1>3. \A e \in Endpoints, r \in Routes : address[<<e, r>>] \in Addresses
  BY DiscoveryAssumption
<1>4. slices[k] # NoObject => Listed(slices[k], route) \in SUBSET Addresses
  BY <1>1, <1>2, <1>3 DEF Listed
<1>5. QED BY <1>4 DEF Stands

\* A resync of slice k makes what is kept for it current, and when it was current
\* removes nothing and enters what is missing.
LEMMA ResyncSliceRepairs ==
  ASSUME ObjectsTypeOK, RegistryTypeOK, CaughtUp,
         NEW h \in SliceHandlers, NEW k \in SliceKeys, ResyncSlice(h, k)
  PROVE  /\ sliceTargets' = [sliceTargets EXCEPT ![k] = Stands(k)]
         /\ Current(k) => Known' = Known \cup Stands(k)
         /\ \A a \in Addresses : IsStatic(a) => IsStatic(a)'
<1> DEFINE new == slices[k]
<1>1. new \in Slice /\ new # NoObject /\ HandleSlice(h, k, new, new)
  BY DEF ResyncSlice, CaughtUp, ObjectsTypeOK
<1>2. Stands(k) \in SUBSET Addresses
  BY StandsType
<1>3. Stands(k) = IF new.probe THEN Listed(new, getProbeSchemeAndPath(k)) ELSE {}
  BY <1>1 DEF Stands, getProbeSchemeAndPath, CaughtUp
<1>4. \A a \in Addresses : IsStatic(a) => IsStatic(a)'
  BY <1>1, SlicesLeaveStatics
<1>5. CASE new.probe
  <2>1. UpdateFromEndpointSlice(h, k, Stands(k))
    BY <1>1, <1>3, <1>5 DEF HandleSlice
  <2>2. sliceTargets' = [sliceTargets EXCEPT ![k] = Stands(k)]
    BY <2>1 DEF UpdateFromEndpointSlice
  <2>3. Known' = (Known \ Disappeared(k, Stands(k))) \cup Fresh(Stands(k))
    BY <1>2, <2>1, KnownAfterSlice
  <2>4. Current(k) => Disappeared(k, Stands(k)) = {}
    BY DEF Current, Disappeared
  <2>5. QED BY <1>4, <2>2, <2>3, <2>4 DEF Fresh
<1>6. CASE ~new.probe
  <2>1. RemoveEndpointSlice(h, k)
    BY <1>1, <1>6 DEF HandleSlice
  <2>2. Stands(k) = {}
    BY <1>3, <1>6
  <2>3. sliceTargets' = [sliceTargets EXCEPT ![k] = {}]
    BY <2>1 DEF RemoveEndpointSlice
  <2>4. Known' = Known \ {a \in sliceTargets[k] : ~IsStatic(a)}
    BY <2>1, KnownAfterRemoveSlice
  <2>5. QED BY <1>4, <2>2, <2>3, <2>4 DEF Current
<1>7. QED BY <1>5, <1>6

\* A resync of a StaticTarget enters what it names and removes nothing.
LEMMA ResyncStaticRepairs ==
  ASSUME ObjectsTypeOK, RegistryTypeOK, CaughtUp,
         NEW h \in StaticHandlers, NEW c \in StaticKeys, ResyncStatic(h, c)
  PROVE  /\ sliceTargets' = sliceTargets
         /\ Known \subseteq Known'
         /\ \A a \in Addresses : IsStatic(a) => IsStatic(a)'
         /\ \A a \in Names(statics[c]) : IsStatic(a)'
<1> DEFINE new == statics[c]
<1>1. HandleStatic(h, new, new) /\ new # NoObject
  BY DEF ResyncStatic, CaughtUp
<1>2. Names(new) \in SUBSET Addresses
  BY NamesType
<1>3. \A a, b \in Names(new) : a = b
  BY DEF Names
<1>4. ASSUME NEW a \in Names(new), new.Options \in Options, Add(h, a, new.Options)
      PROVE  /\ sliceTargets' = sliceTargets
             /\ Known \subseteq Known'
             /\ \A b \in Addresses : IsStatic(b) => IsStatic(b)'
             /\ \A b \in Names(new) : IsStatic(b)'
  <2>1. /\ Known' = Known \cup {a} /\ targets'[a].Static
        /\ \A b \in Addresses \ {a} : targets'[b] = targets[b]
    BY <1>2, <1>4, KnownAfterAdd
  <2>2. IsStatic(a)'
    BY <1>2, <2>1 DEF Known, IsStatic
  <2>3. \A b \in Addresses : IsStatic(b) => IsStatic(b)'
    BY <2>1, <2>2 DEF IsStatic
  <2>4. QED BY <1>3, <1>4, <2>1, <2>2, <2>3 DEF Add
<1>5. CASE UNCHANGED registryVars /\ \A a \in Names(new) : IsStatic(a)
  BY <1>5 DEF registryVars, IsStatic, Known
<1>6. QED BY <1>1, <1>4, <1>5, StaticOperation

\* While the objects rest and the informers have seen them, only a resync touches
\* the entries.
LEMMA OnlyResyncs ==
  ASSUME CaughtUp, ObjectsRest, [Next]_vars
  PROVE  /\ CaughtUp'
         /\ \/ \E h \in SliceHandlers, k \in SliceKeys : ResyncSlice(h, k)
            \/ \E h \in StaticHandlers, c \in StaticKeys : ResyncStatic(h, c)
            \/ UNCHANGED <<targets, sliceTargets>>
<1> USE DEF CaughtUp, ObjectsRest
<1>1. CASE Notify
  BY <1>1 DEF Notify, DeliverSlice, DeliverStatic, ResyncSlice, ResyncStatic, SyncService, seenVars
<1>2. CASE ApiChange \/ PeersOrSigterm
  BY <1>2 DEF ApiChange, PeersOrSigterm, UpdatePeers, Cancel, registryVars, seenVars
<1>3. CASE Deliver /\ UNCHANGED objectVars
  BY <1>3 DEF Deliver, emitEvent, HandleEvent, Receive, Scrape, registryVars, objectVars, seenVars
<1>4. CASE UNCHANGED vars
  BY <1>4 DEF vars, loopVars, registryVars, objectVars, seenVars
<1>5. QED BY <1>1, <1>2, <1>3, <1>4 DEF Next

\* One step towards the objects, and none back.
Repairs ==
  CaughtUp /\ ObjectsRest =>
    /\ CaughtUp'
    /\ \A k \in SliceKeys :
         Current(k) \/ (\E h \in SliceHandlers : ResyncSlice(h, k)) => Current(k)'
    /\ (\A k \in SliceKeys : Current(k)) =>
         \A k \in SliceKeys :
           Entered(k) \/ (\E h \in SliceHandlers : ResyncSlice(h, k)) => Entered(k)'
    /\ \A c \in StaticKeys :
         StaticEntered(c) \/ (\E h \in StaticHandlers : ResyncStatic(h, c))
           => StaticEntered(c)'

LEMMA RepairStep ==
  ASSUME ObjectsTypeOK, RegistryTypeOK, [Next]_vars PROVE Repairs
<1> SUFFICES ASSUME CaughtUp, ObjectsRest
             PROVE  /\ CaughtUp'
                    /\ \A k \in SliceKeys :
                         Current(k) \/ (\E h \in SliceHandlers : ResyncSlice(h, k))
                           => Current(k)'
                    /\ (\A k \in SliceKeys : Current(k)) =>
                         \A k \in SliceKeys :
                           Entered(k) \/ (\E h \in SliceHandlers : ResyncSlice(h, k))
                             => Entered(k)'
                    /\ \A c \in StaticKeys :
                         StaticEntered(c) \/ (\E h \in StaticHandlers : ResyncStatic(h, c))
                           => StaticEntered(c)'
  BY DEF Repairs
<1>1. /\ \A k : Stands(k)' = Stands(k)
      /\ \A c : Names(statics[c])' = Names(statics[c])
      /\ \A c : Names(statics[c]) \in SUBSET Addresses
  BY NamesType DEF ObjectsRest, Stands, Listed, Names
<1>2. ASSUME NEW h \in SliceHandlers, NEW k \in SliceKeys, ResyncSlice(h, k)
      PROVE  /\ Current(k)'
             /\ \A j \in SliceKeys : Current(j) => Current(j)'
             /\ Current(k) => Entered(k)' /\ Known \subseteq Known'
             /\ \A a \in Addresses : IsStatic(a) => IsStatic(a)'
  <2>1. /\ sliceTargets' = [sliceTargets EXCEPT ![k] = Stands(k)]
        /\ Current(k) => Known' = Known \cup Stands(k)
        /\ \A a \in Addresses : IsStatic(a) => IsStatic(a)'
    BY <1>2, ResyncSliceRepairs
  <2>2. sliceTargets'[k] = Stands(k)
    BY <2>1 DEF RegistryTypeOK
  <2>3. \A j \in SliceKeys \ {k} : sliceTargets'[j] = sliceTargets[j]
    BY <2>1 DEF RegistryTypeOK
  <2>4. QED BY <1>1, <2>1, <2>2, <2>3 DEF Current, Entered
<1>3. ASSUME NEW h \in StaticHandlers, NEW c \in StaticKeys, ResyncStatic(h, c)
      PROVE  /\ sliceTargets' = sliceTargets /\ Known \subseteq Known'
             /\ \A a \in Addresses : IsStatic(a) => IsStatic(a)'
             /\ StaticEntered(c)'
  BY <1>1, <1>3, ResyncStaticRepairs DEF StaticEntered
<1>4. /\ \A k \in SliceKeys : Current(k) => Current(k)'
      /\ (\A k \in SliceKeys : Current(k)) => Known \subseteq Known'
      /\ \A a \in Addresses : IsStatic(a) => IsStatic(a)'
  <2>1. CASE UNCHANGED <<targets, sliceTargets>>
    BY <1>1, <2>1 DEF Current, Known, IsStatic
  <2>2. CASE sliceTargets' = sliceTargets /\ Known \subseteq Known'
             /\ \A a \in Addresses : IsStatic(a) => IsStatic(a)'
    BY <1>1, <2>2 DEF Current
  <2>3. QED BY <1>2, <1>3, <2>1, <2>2, OnlyResyncs
<1>5. \A k : Known \subseteq Known' /\ Entered(k) => Entered(k)'
  BY <1>1 DEF Entered
<1>6. \A c \in StaticKeys : StaticEntered(c) => StaticEntered(c)'
  BY <1>1, <1>4 DEF StaticEntered
<1>7. CaughtUp'
  BY OnlyResyncs
<1>8. QED BY <1>2, <1>3, <1>4, <1>5, <1>6, <1>7

\* informer.go:33: once the objects rest and the informers have seen them, a
\* resync of each object, in whatever order and among whatever else happens,
\* brings the registry to what they stand for: each repairs its own part, and no
\* step undoes a repair.
THEOREM ResyncsRepair == Spec => [][Repairs]_vars
<1>1. ObjectsTypeOK /\ RegistryTypeOK /\ [Next]_vars => [Repairs]_vars
  BY RepairStep
<1>2. QED BY <1>1, ObjectsHold, DiscoveryUsesRegistry, RegistryTypeCorrect, PTL DEF Spec

\* When each object's part is repaired the registry has converged; of an object
\* that does not exist, and so is not repeated, there is nothing to repair.
THEOREM RepairedIsConverged ==
  Spec => [](CaughtUp =>
               /\ \A k \in SliceKeys : slices[k] = NoObject => Current(k) /\ Entered(k)
               /\ \A c \in StaticKeys : statics[c] = NoObject => StaticEntered(c)
               /\ /\ \A k \in SliceKeys : Current(k) /\ Entered(k)
                  /\ \A c \in StaticKeys : StaticEntered(c)
                  => Converged)
<1> DEFINE Repaired ==
             CaughtUp =>
               /\ \A k \in SliceKeys : slices[k] = NoObject => Current(k) /\ Entered(k)
               /\ \A c \in StaticKeys : statics[c] = NoObject => StaticEntered(c)
               /\ /\ \A k \in SliceKeys : Current(k) /\ Entered(k)
                  /\ \A c \in StaticKeys : StaticEntered(c)
                  => Converged
<1>1. SliceTargetsAreSeen /\ DynamicIsListed => Repaired
  <2> SUFFICES ASSUME SliceTargetsAreSeen, DynamicIsListed, CaughtUp
               PROVE  /\ \A k \in SliceKeys : slices[k] = NoObject => Current(k) /\ Entered(k)
                      /\ \A c \in StaticKeys : statics[c] = NoObject => StaticEntered(c)
                      /\ /\ \A k \in SliceKeys : Current(k) /\ Entered(k)
                         /\ \A c \in StaticKeys : StaticEntered(c)
                         => Converged
    OBVIOUS
  <2>1. ASSUME NEW k \in SliceKeys, slices[k] = NoObject PROVE Current(k) /\ Entered(k)
    BY <2>1 DEF SliceTargetsAreSeen, CaughtUp, Current, Entered, Stands
  <2>2. ASSUME NEW c \in StaticKeys, statics[c] = NoObject PROVE StaticEntered(c)
    BY <2>2, DiscoveryAssumption DEF StaticEntered, Names
  <2>3. ASSUME \A k \in SliceKeys : Current(k) /\ Entered(k),
               \A c \in StaticKeys : StaticEntered(c)
        PROVE  Converged
    <3>1. \A k \in SliceKeys : sliceTargets[k] = Stands(k) /\ Stands(k) \subseteq Known
      BY <2>3 DEF Current, Entered
    <3>2. \A a \in Known : IsStatic(a) \/ \E k \in SliceKeys : a \in Stands(k)
      BY <3>1 DEF DynamicIsListed
    <3>3. \A c \in StaticKeys : \A a \in Names(statics[c]) : IsStatic(a)
      BY <2>3 DEF StaticEntered
    <3>4. QED BY <3>1, <3>2, <3>3 DEF Converged
  <2>4. QED BY <2>1, <2>2, <2>3
<1>2. Spec => []SliceTargetsAreSeen
  BY SeenHolds
<1>3. QED BY <1>1, <1>2, DiscoveryUsesRegistry, NoOrphans, PTL
=============================================================================
