----------------------------- MODULE Discovery ------------------------------
(***************************************************************************)
(* Discovery (pkg/prober/informer.go, statictargets.go): the informers'    *)
(* event handlers composed with the registry they call and with the event  *)
(* loop: one replica, from the API server's objects to its schedulers.     *)
(*                                                                         *)
(* An informer follows the objects with a delay, may skip states of one (a *)
(* watch that is lost is replaced by a new list) and repeats every object  *)
(* it stores every 10 minutes.  The slices and the Services they depend on *)
(* are followed by separate informers, so a handler may read a Service     *)
(* that is older or newer than its slice.                                  *)
(*                                                                         *)
(* The handlers read nothing but their argument and the cached Service, so *)
(* the delay of the watch and that of the notification queue are one.      *)
(*                                                                         *)
(* Data abstraction: an endpoint is one ip:port of a slice, a route one    *)
(* scheme and path, and address is fmt.Sprintf("%s://%s:%d%s").            *)
(***************************************************************************)
EXTENDS EventLoop

CONSTANTS
  Endpoints,     \* ip:port pairs
  Routes,        \* what the annotations of a Service select
  DefaultRoute,  \* http and /healthz
  address,       \* address[<<endpoint, route>>]
  Services,      \* Services
  serviceOf,     \* serviceOf[k]: the Service slice k is labelled with
  StaticKeys,    \* StaticTarget objects
  NoObject,      \* the object does not exist
  Invalid,       \* a StaticTarget whose spec does not parse
  MaxChanges,    \* bound: changes of the API server's objects
  MaxOthers      \* bound: other lists of peers, and SIGTERM

Slice == [probe : BOOLEAN, ready : SUBSET Endpoints]
StaticTarget == [Address : Addresses, Options : Options]

ASSUME DiscoveryAssumption ==
  /\ DefaultRoute \in Routes
  /\ address \in [Endpoints \X Routes -> Addresses]
  /\ serviceOf \in [SliceKeys -> Services]
  /\ NoObject \notin Slice \cup Routes \cup StaticTarget \cup {Invalid}
  /\ Invalid \notin StaticTarget
  /\ MaxChanges \in Nat
  /\ MaxOthers \in Nat

VARIABLES
  slices,        \* slices[k]: the EndpointSlice, or NoObject
  services,      \* services[s]: the route its annotations select, or NoObject
  statics,       \* statics[c]: the StaticTarget, or NoObject
  changes,       \* number of changes of these three
  others,        \* number of lists of peers, and SIGTERMs
  seenSlices,    \* the same as the informers' handlers have seen them
  seenServices,
  seenStatics,
  amended        \* history: see Amended below

apiVars == <<slices, services, statics, changes, others>>
seenVars == <<seenSlices, seenServices, seenStatics>>
objectVars == <<apiVars, seenVars, amended>>
vars == <<loopVars, objectVars>>

DiscoveryInit ==
  /\ LoopInit
  /\ slices = [k \in SliceKeys |-> NoObject]
  /\ services = [s \in Services |-> NoObject]
  /\ statics = [c \in StaticKeys |-> NoObject]
  /\ changes = 0
  /\ others = 0
  /\ seenSlices = slices
  /\ seenServices = services
  /\ seenStatics = statics
  /\ amended = {}

-----------------------------------------------------------------------------
(* The API server: objects are created, replaced and deleted.              *)

ApiChange ==
  /\ changes < MaxChanges
  /\ changes' = changes + 1
  /\ \/ /\ \E k \in SliceKeys, o \in Slice \cup {NoObject} :
             o # slices[k] /\ slices' = [slices EXCEPT ![k] = o]
        /\ UNCHANGED <<services, statics>>
     \/ /\ \E s \in Services, o \in Routes \cup {NoObject} :
             o # services[s] /\ services' = [services EXCEPT ![s] = o]
        /\ UNCHANGED <<slices, statics>>
     \/ /\ \E c \in StaticKeys, o \in StaticTarget \cup {Invalid, NoObject} :
             o # statics[c] /\ statics' = [statics EXCEPT ![c] = o]
        /\ UNCHANGED <<slices, services>>
  /\ UNCHANGED <<registryVars, others, seenVars, amended>>

-----------------------------------------------------------------------------
(* KubeWatcher.                                                            *)

\* Without a cached Service the defaults apply.
getProbeSchemeAndPath(k) ==
  LET svc == seenServices[serviceOf[k]] IN IF svc = NoObject THEN DefaultRoute ELSE svc

Listed(slice, route) == {address[<<e, route>>] : e \in slice.ready}

Ignore(h) == Idle(h) /\ UNCHANGED registryVars

\* Mutants of HandleSlice: a slice that lost its label keeps its targets; a
\* resync, which repeats the stored object, is taken for no change.
HandleSlice_IgnoresLabel(h, k, old, new) ==
  \/ /\ new # NoObject /\ new.probe
     /\ UpdateFromEndpointSlice(h, k, Listed(new, getProbeSchemeAndPath(k)))
  \/ /\ new # NoObject /\ ~new.probe
     /\ Ignore(h)
  \/ /\ new = NoObject
     /\ RemoveEndpointSlice(h, k)
HandleSlice_SkipsResync(h, k, old, new) ==
  IF old = new THEN Ignore(h)
  ELSE IF new # NoObject /\ new.probe
       THEN UpdateFromEndpointSlice(h, k, Listed(new, getProbeSchemeAndPath(k)))
       ELSE RemoveEndpointSlice(h, k)

\* AddFunc (old is NoObject), UpdateFunc and DeleteFunc (new is NoObject; the
\* handler gets the last object stored, possibly in a tombstone).
HandleSlice(h, k, old, new) ==
  \/ /\ new # NoObject /\ new.probe
     /\ UpdateFromEndpointSlice(h, k, Listed(new, getProbeSchemeAndPath(k)))
  \/ /\ new # NoObject /\ ~new.probe /\ old # NoObject
     /\ RemoveEndpointSlice(h, k)
  \/ /\ new = NoObject /\ old.probe
     /\ RemoveEndpointSlice(h, k)
  \/ /\ IF new = NoObject THEN ~old.probe ELSE ~new.probe /\ old = NoObject
     /\ Ignore(h)

DeliverSlice(h, k) ==
  /\ seenSlices[k] # slices[k]
  /\ HandleSlice(h, k, seenSlices[k], slices[k])
  /\ seenSlices' = [seenSlices EXCEPT ![k] = slices[k]]
  /\ UNCHANGED <<apiVars, seenServices, seenStatics, amended>>

\* Every 10 minutes UpdateFunc gets each stored object again.
ResyncSlice(h, k) ==
  /\ seenSlices[k] # NoObject
  /\ HandleSlice(h, k, seenSlices[k], seenSlices[k])
  /\ UNCHANGED <<apiVars, seenVars, amended>>

\* The Services have no handler: they are only cached.
SyncService(s) ==
  /\ seenServices[s] # services[s]
  /\ seenServices' = [seenServices EXCEPT ![s] = services[s]]
  /\ UNCHANGED <<registryVars, apiVars, seenSlices, seenStatics, amended>>

-----------------------------------------------------------------------------
(* WatchStaticTargets.                                                     *)

\* parseStaticTarget: the address an object stands for, if any.
Names(object) == IF object \in StaticTarget THEN {object.Address} ELSE {}

\* Mutant of HandleStatic: the address of a new object that a slice already
\* discovered is left as it is.
HandleStatic_KeepsDynamic(h, old, new) ==
  \/ \E a \in Names(new) \ Known : Add(h, a, new.Options)
  \/ new = NoObject /\ \E a \in Names(old) : Remove(h, a)
  \/ /\ IF new = NoObject THEN Names(old) \cap Known = {} ELSE Names(new) \subseteq Known
     /\ Ignore(h)

HandleStatic(h, old, new) ==
  \/ \E a \in Names(new) : Add(h, a, new.Options)
  \/ new = NoObject /\ \E a \in Names(old) : Remove(h, a)
  \/ /\ IF new = NoObject THEN Names(old) \cap Known = {}
                          ELSE \A a \in Names(new) : IsStatic(a)
     /\ Ignore(h)

\* History: the addresses whose entry may differ from the objects that name
\* them: an object was replaced while it named the address, or two objects
\* name it.  Deleting the only object that names it ends this.
Amended(c, new) ==
  LET shared == UNION {Names(seenStatics[d]) : d \in StaticKeys \ {c}}
      old    == seenStatics[c]
  IN IF new = NoObject THEN amended \ (Names(old) \ shared)
                       ELSE amended \cup Names(old) \cup (Names(new) \cap shared)

DeliverStatic(h, c) ==
  /\ seenStatics[c] # statics[c]
  /\ HandleStatic(h, seenStatics[c], statics[c])
  /\ seenStatics' = [seenStatics EXCEPT ![c] = statics[c]]
  /\ amended' = Amended(c, statics[c])
  /\ UNCHANGED <<apiVars, seenSlices, seenServices>>

ResyncStatic(h, c) ==
  /\ seenStatics[c] # NoObject
  /\ HandleStatic(h, seenStatics[c], seenStatics[c])
  /\ UNCHANGED <<apiVars, seenVars, amended>>

-----------------------------------------------------------------------------
(* The replica.                                                            *)

\* updatePeers gets another list (the same one again changes nothing), or SIGTERM.
PeersOrSigterm ==
  /\ others < MaxOthers
  /\ others' = others + 1
  /\ \/ \E h \in PeerHandlers, peers \in (SUBSET Pods) \ {{}, clusterPodIPs} :
          UpdatePeers(h, peers)
     \/ Cancel
  /\ UNCHANGED <<slices, services, statics, changes, seenVars, amended>>

\* The informers' notifications.
Notify ==
  \/ \E h \in SliceHandlers, k \in SliceKeys : DeliverSlice(h, k) \/ ResyncSlice(h, k)
  \/ \E s \in Services : SyncService(s)
  \/ \E h \in StaticHandlers, c \in StaticKeys : DeliverStatic(h, c) \/ ResyncStatic(h, c)

\* The goroutines send what they owe, the loop handles it, /metrics is scraped.
Deliver ==
  \/ (\E h \in Handlers : emitEvent(h)) /\ UNCHANGED schedulerVars
  \/ HandleEvent
  \/ Scrape

Next ==
  /\ \/ (ApiChange \/ PeersOrSigterm \/ Notify) /\ UNCHANGED schedulerVars
     \/ Deliver /\ UNCHANGED objectVars
  /\ History

Spec == DiscoveryInit /\ [][Next]_vars

\* The watches deliver, the resyncs come round, the goroutines send and the
\* loop receives.
FairSpec ==
  /\ Spec
  /\ \A h \in SliceHandlers, k \in SliceKeys :
       /\ WF_<<registryVars, objectVars>>(DeliverSlice(h, k))
       /\ WF_<<registryVars, objectVars>>(ResyncSlice(h, k))
  /\ \A h \in StaticHandlers, c \in StaticKeys :
       /\ WF_<<registryVars, objectVars>>(DeliverStatic(h, c))
       /\ WF_<<registryVars, objectVars>>(ResyncStatic(h, c))
  /\ \A s \in Services : WF_<<registryVars, objectVars>>(SyncService(s))
  /\ \A h \in Handlers : WF_registryVars(emitEvent(h))
  /\ WF_registryVars(Receive)

-----------------------------------------------------------------------------
\* Type invariant.
TypeOK ==
  /\ LoopTypeOK
  /\ {slices, seenSlices} \subseteq [SliceKeys -> Slice \cup {NoObject}]
  /\ {services, seenServices} \subseteq [Services -> Routes \cup {NoObject}]
  /\ {statics, seenStatics} \subseteq [StaticKeys -> StaticTarget \cup {Invalid, NoObject}]
  /\ changes \in 0 .. MaxChanges
  /\ others \in 0 .. MaxOthers
  /\ amended \in SUBSET Addresses

\* Slice k, as the informer last saw it, is to be probed and has an endpoint at a.
Lists(k, a) ==
  /\ seenSlices[k] # NoObject /\ seenSlices[k].probe
  /\ \E e \in seenSlices[k].ready, r \in Routes : a = address[<<e, r>>]

\* informer.go:101 and 125: a dynamic target is one of a slice that, as far as
\* the informer knows, exists, has the label and has the endpoint ready.
\* Neither a lost label nor a deletion seen only as a tombstone leaves one.
NoPhantoms ==
  \A a \in Known : ~IsStatic(a) =>
    \E k \in SliceKeys : a \in sliceTargets[k] /\ Lists(k, a)

\* ADR 0023, StaticTargets are processed by the informer's handlers: an address
\* has a static entry exactly if an object names it, with that object's
\* options, whatever the slices do, as long as no object was replaced while it
\* named the address and no two objects name it.
StaticFollowsObjects ==
  \A a \in Addresses \ amended :
    /\ IsStatic(a) => \E c \in StaticKeys : a \in Names(seenStatics[c])
    /\ \A c \in StaticKeys : a \in Names(seenStatics[c]) =>
         IsStatic(a) /\ targets[a].Options = seenStatics[c].Options

\* A StaticTarget, as the informer last saw it, names a.
Declared(a) == \E c \in StaticKeys : a \in Names(seenStatics[c])

\* ADR 0008 and 0023 end to end, from the objects to the probes: once the events
\* about an address are handled, a scheduler runs for it only if an object the
\* informers have seen stands for it and it is this replica's, and one does run
\* for a StaticTarget of this replica unless its add was dropped; whatever the
\* slices, the peers, the channel and the other addresses did meanwhile.
SchedulersFollowObjects ==
  ~ctxDone =>
    \A a \in Addresses \ (raced \cup amended) : Settled(a) =>
      /\ a \in Running =>
           /\ Declared(a) \/ \E k \in SliceKeys : Lists(k, a)
           /\ shouldProcessTargetLocked(a)
      /\ Declared(a) /\ shouldProcessTargetLocked(a) /\ a \notin missed => a \in Running

\* The addresses slice k stands for, with the route its Service selects now.
Stands(k) ==
  LET svc   == services[serviceOf[k]]
      route == IF svc = NoObject THEN DefaultRoute ELSE svc
  IN IF slices[k] # NoObject /\ slices[k].probe THEN Listed(slices[k], route) ELSE {}

\* The registry has every address the API server's objects stand for, and no
\* dynamic one besides.
Converged ==
  LET dynamic == UNION {Stands(k) : k \in SliceKeys}
      static  == UNION {Names(statics[c]) : c \in StaticKeys}
  IN /\ dynamic \subseteq Known
     /\ \A a \in static : IsStatic(a)
     /\ \A a \in Known : IsStatic(a) \/ a \in dynamic

\* informer.go:33, the resync: when the objects stop changing, the registry
\* converges to them although a slice that shared an address took it away, a
\* Service was cached after the slice that needs it, or a StaticTarget's
\* deletion removed an address that slices or other objects stand for.
DiscoveryConverges == <>[](Converged \/ ctxDone)
=============================================================================
