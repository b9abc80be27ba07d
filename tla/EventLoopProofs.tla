--------------------------- MODULE EventLoopProofs --------------------------
(***************************************************************************)
(* Proofs about EventLoop, for any addresses, goroutines and capacity.     *)
(***************************************************************************)
EXTENDS EventLoop, RegistryProofs

-----------------------------------------------------------------------------
(* The inductive invariant.  SchedulersFollowRegistry speaks of addresses  *)
(* with no event under way; what is true of the others is that the last    *)
(* event under way, queued or still owed, agrees with the registry.        *)

\* A goroutine owes at most one event for an address.
OneEventEach ==
  \A h \in Handlers : \A e, f \in pending[h] : e.Address = f.Address => e = f

ContendedIsRaced == Contended \subseteq raced

\* An event that is still owed says what the registry says.
PendingAgrees ==
  \A h \in Handlers : \A e \in pending[h] :
    e.Address \notin raced => (e.IsAdded <=> e.Address \in active)

Unsent(a) == \E h \in Handlers : a \in Owed(h)

\* n is the last event about a in the channel.
LastQueued(a, n) ==
  /\ n \in 1 .. Len(Events)
  /\ Events[n].Address = a
  /\ \A m \in n + 1 .. Len(Events) : Events[m].Address # a

\* When every event about a was sent, the last one in the channel says what
\* the registry says, unless an add was dropped after it.
QueueAgrees ==
  ~ctxDone =>
    \A a \in Addresses \ raced : ~Unsent(a) =>
      \A n \in 1 .. Len(Events) : LastQueued(a, n) =>
        /\ Events[n].IsAdded => a \in active
        /\ a \in active \ missed => Events[n].IsAdded

LoopInv ==
  /\ LoopTypeOK
  /\ OneEventEach
  /\ ContendedIsRaced
  /\ PendingAgrees
  /\ QueueAgrees
  /\ SchedulersFollowRegistry

-----------------------------------------------------------------------------
(* What the five operations of the registry have in common.                *)

\* Goroutine h, which owed nothing, now owes events: at most one for an
\* address, each saying what the registry now says, and one for every
\* address whose claim changed.
Collects(h, events) ==
  /\ pending[h] = {}
  /\ pending' = [pending EXCEPT ![h] = events]
  /\ UNCHANGED <<Events, ctxDone>>
  /\ \A e \in events : e.IsAdded <=> e.Address \in active'
  /\ \A e, f \in events : e.Address = f.Address => e = f
  /\ \A a \in Addresses :
        (a \in active' <=> a \in active) \/ \E e \in events : e.Address = a

\* The steps of RegistryNext that run in a critical section.
Operation ==
  \/ \E h \in PeerHandlers, peers \in (SUBSET Pods) \ {{}} : UpdatePeers(h, peers)
  \/ \E h \in SliceHandlers, k \in SliceKeys, listed \in SUBSET Addresses :
       UpdateFromEndpointSlice(h, k, listed)
  \/ \E h \in SliceHandlers, k \in SliceKeys : RemoveEndpointSlice(h, k)
  \/ \E h \in StaticHandlers, a \in Addresses, o \in Options : Add(h, a, o)
  \/ \E h \in StaticHandlers, a \in Addresses : Remove(h, a)

\* Events for the members of two disjoint sets satisfy Collects when the first
\* set has the addresses that are active afterwards.
LEMMA CollectsAddedRemoved ==
  ASSUME NEW h, NEW A \in SUBSET Addresses, NEW R \in SUBSET Addresses, NEW entries,
         pending[h] = {},
         Owes(h, AddedEvents(A, entries) \cup RemovedEvents(R)),
         UNCHANGED <<Events, ctxDone>>,
         A \subseteq active', R \cap active' = {},
         \A a \in Addresses : (a \in active' <=> a \in active) \/ a \in A \cup R
  PROVE  \E events : Collects(h, events)
<1> DEFINE events == AddedEvents(A, entries) \cup RemovedEvents(R)
<1>1. \A e \in events :
        \/ /\ e.Address \in A
           /\ e = [Address |-> e.Address, Target |-> entries[e.Address], IsAdded |-> TRUE]
        \/ /\ e.Address \in R
           /\ e = [Address |-> e.Address, Target |-> NoTarget, IsAdded |-> FALSE]
  BY DEF AddedEvents, RemovedEvents
<1>2. \A e \in events : e.IsAdded <=> e.Address \in active'
  BY <1>1
<1>3. \A e, f \in events : e.Address = f.Address => e = f
  <2>1. A \cap R = {}
    OBVIOUS
  <2>2. QED BY <1>1, <2>1
<1>4. ASSUME NEW a \in A \cup R PROVE \E e \in events : e.Address = a
  <2>1. CASE a \in A
    <3>1. [Address |-> a, Target |-> entries[a], IsAdded |-> TRUE] \in events
      BY <2>1 DEF AddedEvents
    <3>2. QED BY <3>1
  <2>2. CASE a \in R
    <3>1. [Address |-> a, Target |-> NoTarget, IsAdded |-> FALSE] \in events
      BY <2>2 DEF RemovedEvents
    <3>2. QED BY <3>1
  <2>3. QED BY <2>1, <2>2
<1>5. pending' = [pending EXCEPT ![h] = events]
  BY DEF Owes
<1>6. Collects(h, events)
  BY <1>2, <1>3, <1>4, <1>5 DEF Collects
<1>7. QED BY <1>6

\* Every operation of the registry (UpdatePeers, the two slice handlers, Add,
\* Remove) satisfies Collects: it emits an add for each address it made active
\* and a removal for each it made inactive, and nothing else.
LEMMA OperationCollects ==
  ASSUME RegistryTypeOK, Operation
  PROVE  \E h \in Handlers : \E events : Collects(h, events)
<1>1. ASSUME NEW h \in PeerHandlers, NEW peers \in SUBSET Pods, UpdatePeers(h, peers)
      PROVE  \E events : Collects(h, events)
  <2> DEFINE owned  == {a \in Known : evalShardingOwner(a, selfPodIP, peers)}
             gained == owned \ active
             lost   == (Known \ owned) \cap active
  <2>1. gained \in SUBSET Addresses /\ lost \in SUBSET Addresses
    BY DEF Known
  <2>2. /\ pending[h] = {}
        /\ Owes(h, AddedEvents(gained, targets) \cup RemovedEvents(lost))
        /\ UNCHANGED <<Events, ctxDone>>
        /\ active' = (active \ lost) \cup gained
    BY <1>1 DEF UpdatePeers, Idle
  <2>3. /\ gained \subseteq active'
        /\ lost \cap active' = {}
        /\ \A a \in Addresses : (a \in active' <=> a \in active) \/ a \in gained \cup lost
    BY <2>2
  <2> HIDE DEF gained, lost
  <2>4. QED BY <2>1, <2>2, <2>3, CollectsAddedRemoved
<1>2. ASSUME NEW h \in SliceHandlers, NEW k \in SliceKeys, NEW listed \in SUBSET Addresses,
             UpdateFromEndpointSlice(h, k, listed)
      PROVE  \E events : Collects(h, events)
  <2> DEFINE gone    == Disappeared(k, listed)
             claimed == {a \in Fresh(listed) : shouldProcessTargetLocked(a)}
             dropped == gone \cap active
  <2>1. claimed \in SUBSET Addresses /\ dropped \in SUBSET Addresses
        /\ gone \cap claimed = {}
    BY DEF Fresh, Disappeared, Known
  <2>2. /\ pending[h] = {}
        /\ Owes(h, RemovedEvents(dropped) \cup AddedEvents(claimed, targets'))
        /\ UNCHANGED <<Events, ctxDone>>
        /\ active' = (active \ gone) \cup claimed
    BY <1>2 DEF UpdateFromEndpointSlice, Idle
  <2>3. /\ claimed \subseteq active'
        /\ dropped \cap active' = {}
        /\ \A a \in Addresses : (a \in active' <=> a \in active) \/ a \in claimed \cup dropped
    BY <2>1, <2>2
  <2>4. Owes(h, AddedEvents(claimed, targets') \cup RemovedEvents(dropped))
    <3>1. RemovedEvents(dropped) \cup AddedEvents(claimed, targets')
            = AddedEvents(claimed, targets') \cup RemovedEvents(dropped)
      OBVIOUS
    <3>2. QED BY <2>2, <3>1
  <2> HIDE DEF gone, claimed, dropped
  <2>5. QED BY <2>1, <2>2, <2>3, <2>4, CollectsAddedRemoved
<1>3. ASSUME NEW h \in SliceHandlers, NEW k \in SliceKeys, RemoveEndpointSlice(h, k)
      PROVE  \E events : Collects(h, events)
  <2> DEFINE gone    == {a \in sliceTargets[k] : ~IsStatic(a)}
             dropped == gone \cap active
  <2>1. dropped \in SUBSET Addresses
    BY DEF RegistryTypeOK
  <2>2. /\ pending[h] = {}
        /\ Owes(h, RemovedEvents(dropped))
        /\ UNCHANGED <<Events, ctxDone>>
        /\ active' = active \ gone
    BY <1>3 DEF RemoveEndpointSlice, Idle
  <2>3. /\ dropped \cap active' = {}
        /\ \A a \in Addresses : (a \in active' <=> a \in active) \/ a \in {} \cup dropped
    BY <2>2
  <2>4. Owes(h, AddedEvents({}, targets) \cup RemovedEvents(dropped))
    <3>1. AddedEvents({}, targets) \cup RemovedEvents(dropped) = RemovedEvents(dropped)
      BY DEF AddedEvents
    <3>2. QED BY <2>2, <3>1
  <2> HIDE DEF gone, dropped
  <2>5. QED BY <2>1, <2>2, <2>3, <2>4, CollectsAddedRemoved
<1>4. ASSUME NEW h \in StaticHandlers, NEW a \in Addresses, NEW o \in Options, Add(h, a, o)
      PROVE  \E events : Collects(h, events)
  <2>1. CASE shouldProcessTargetLocked(a)
    <3>1. /\ pending[h] = {}
          /\ Owes(h, AddedEvents({a}, targets'))
          /\ UNCHANGED <<Events, ctxDone>>
          /\ active' = active \cup {a}
      BY <1>4, <2>1 DEF Add, Idle
    <3>2. Owes(h, AddedEvents({a}, targets') \cup RemovedEvents({}))
      <4>1. AddedEvents({a}, targets') \cup RemovedEvents({}) = AddedEvents({a}, targets')
        BY DEF RemovedEvents
      <4>2. QED BY <3>1, <4>1
    <3>3. QED BY <3>1, <3>2, CollectsAddedRemoved
  <2>2. CASE ~shouldProcessTargetLocked(a)
    <3>1. pending[h] = {} /\ UNCHANGED <<pending, active, Events, ctxDone>>
      BY <1>4, <2>2 DEF Add, Idle
    <3>2. pending' = [pending EXCEPT ![h] = {}]
      BY <3>1 DEF RegistryTypeOK
    <3>3. Collects(h, {})
      BY <3>1, <3>2 DEF Collects
    <3>4. QED BY <3>3
  <2>3. QED BY <2>1, <2>2
<1>5. ASSUME NEW h \in StaticHandlers, NEW a \in Addresses, Remove(h, a)
      PROVE  \E events : Collects(h, events)
  <2> DEFINE dropped == {a} \cap active
  <2>1. /\ pending[h] = {}
        /\ Owes(h, RemovedEvents(dropped))
        /\ UNCHANGED <<Events, ctxDone>>
        /\ active' = active \ {a}
    BY <1>5 DEF Remove, Idle
  <2>2. /\ dropped \in SUBSET Addresses
        /\ dropped \cap active' = {}
        /\ \A b \in Addresses : (b \in active' <=> b \in active) \/ b \in {} \cup dropped
    BY <2>1
  <2>3. Owes(h, AddedEvents({}, targets) \cup RemovedEvents(dropped))
    <3>1. AddedEvents({}, targets) \cup RemovedEvents(dropped) = RemovedEvents(dropped)
      BY DEF AddedEvents
    <3>2. QED BY <2>1, <3>1
  <2> HIDE DEF dropped
  <2>4. QED BY <2>1, <2>2, <2>3, CollectsAddedRemoved
<1>6. QED BY <1>1, <1>2, <1>3, <1>4, <1>5 DEF Operation, Handlers

-----------------------------------------------------------------------------
(* History and what is owed, step by step.                                 *)

\* After Collects, exactly the addresses of the new events are the collected
\* ones, and the other goroutines owe what they owed.
LEMMA CollectsHistory ==
  ASSUME LoopTypeOK, NEW h \in Handlers, NEW events, Collects(h, events), History
  PROVE  LET C == {e.Address : e \in events}
         IN /\ Collected = C
            /\ raced' = (raced \ C) \cup (C \cap Contended')
            /\ missed' = missed \ C
            /\ pending'[h] = events
            /\ Owed(h)' = C
            /\ \A g \in Handlers \ {h} : pending'[g] = pending[g] /\ Owed(g)' = Owed(g)
<1> DEFINE C == {e.Address : e \in events}
<1>1. pending'[h] = events /\ \A g \in Handlers \ {h} : pending'[g] = pending[g]
  BY DEF Collects, LoopTypeOK, RegistryTypeOK
<1>2. Owed(h)' = C /\ Owed(h) = {}
  BY <1>1 DEF Owed, Collects
<1>3. \A g \in Handlers \ {h} : Owed(g)' = Owed(g)
  BY <1>1 DEF Owed
<1>4. Collected = C
  BY <1>2, <1>3 DEF Collected
<1>5. GaveUp = {}
  BY <1>2, <1>3 DEF GaveUp
<1>6. QED BY <1>1, <1>2, <1>3, <1>4, <1>5 DEF History

\* When no goroutine collects, raced is unchanged and missed gains what the
\* step gave up.
LEMMA NothingCollected ==
  ASSUME History, \A h \in Handlers : Owed(h)' \subseteq Owed(h)
  PROVE  raced' = raced /\ missed' = missed \cup GaveUp
<1>1. Collected = {}
  BY DEF Collected
<1>2. QED BY <1>1 DEF History

-----------------------------------------------------------------------------
(* Each step preserves the invariant.                                      *)

\* An operation of the registry preserves the invariant: the addresses whose
\* claim it changed are exactly those it now owes an event for.
LEMMA OperationStep ==
  ASSUME LoopInv, LoopTypeOK', NEW h \in Handlers, NEW events, Collects(h, events), History,
         UNCHANGED schedulerVars
  PROVE  LoopInv'
<1> DEFINE C == {e.Address : e \in events}
<1>0. LoopTypeOK
  BY DEF LoopInv
<1>1. /\ raced' = (raced \ C) \cup (C \cap Contended')
      /\ missed' = missed \ C
      /\ pending'[h] = events
      /\ Owed(h)' = C
      /\ \A g \in Handlers \ {h} : pending'[g] = pending[g] /\ Owed(g)' = Owed(g)
  BY <1>0, CollectsHistory
<1>2. /\ UNCHANGED <<Events, ctxDone>>
      /\ \A e \in events : e.IsAdded <=> e.Address \in active'
      /\ \A e, f \in events : e.Address = f.Address => e = f
      /\ \A a \in Addresses : a \notin C => (a \in active' <=> a \in active)
      /\ pending[h] = {} /\ Owed(h) = {}
  BY DEF Collects, Owed
<1> HIDE DEF C
<1>3. OneEventEach'
  BY <1>1, <1>2 DEF LoopInv, OneEventEach
<1>4. ContendedIsRaced'
  <2>1. SUFFICES ASSUME NEW a \in Contended' PROVE a \in raced'
    BY DEF ContendedIsRaced
  <2>2. CASE a \in C
    BY <1>1, <2>1, <2>2
  <2>3. CASE a \notin C
    <3>1. a \in Contended
      BY <1>1, <2>1, <2>3 DEF Contended
    <3>2. QED BY <1>1, <2>3, <3>1 DEF LoopInv, ContendedIsRaced
  <2>4. QED BY <2>2, <2>3
<1>5. PendingAgrees'
  <2>1. SUFFICES ASSUME NEW g \in Handlers, NEW e \in pending'[g], e.Address \notin raced'
                 PROVE  e.IsAdded <=> e.Address \in active'
    BY DEF PendingAgrees
  <2>2. CASE g = h
    BY <1>1, <1>2, <2>1, <2>2
  <2>3. CASE g # h
    <3>1. e \in pending[g] /\ e.Address \in Owed(g)'
      BY <1>1, <2>1, <2>3 DEF Owed
    <3>2. e.Address \in Addresses
      <4>1. e \in TargetEvent
        BY <1>0, <3>1 DEF LoopTypeOK, RegistryTypeOK
      <4>2. QED BY <4>1 DEF TargetEvent
    <3>3. e.Address \notin C
      BY <1>1, <2>1, <2>3, <3>1, <3>2 DEF Contended
    <3>4. e.Address \notin raced
      BY <1>1, <2>1, <3>3
    <3>5. QED BY <1>2, <3>1, <3>2, <3>3, <3>4 DEF LoopInv, PendingAgrees
  <2>4. QED BY <2>2, <2>3
<1>6. ASSUME NEW a \in Addresses, a \notin raced', \A g \in Handlers : a \notin Owed(g)'
      PROVE  /\ a \notin raced /\ \A g \in Handlers : a \notin Owed(g)
             /\ a \in active' <=> a \in active
             /\ a \in missed' <=> a \in missed
  BY <1>1, <1>2, <1>6
<1>7. QueueAgrees'
  <2>1. \A a, n : LastQueued(a, n)' <=> LastQueued(a, n)
    BY <1>2 DEF LastQueued
  <2>2. \A a : Unsent(a)' <=> \E g \in Handlers : a \in Owed(g)'
    BY DEF Unsent
  <2>3. QED BY <1>2, <1>6, <2>1, <2>2 DEF LoopInv, QueueAgrees, Unsent
<1>8. SchedulersFollowRegistry'
  <2>1. \A a \in Addresses : a \in Running' <=> a \in Running
    BY DEF Running, schedulerVars
  <2>2. \A a : Settled(a)' => \A g \in Handlers : a \notin Owed(g)'
    BY DEF Settled
  <2>3. \A a : (Settled(a)' /\ \A g \in Handlers : a \notin Owed(g)) => Settled(a)
    BY <1>2 DEF Settled
  <2>4. QED BY <1>2, <1>6, <2>1, <2>2, <2>3 DEF LoopInv, SchedulersFollowRegistry
<1>9. QED BY <1>3, <1>4, <1>5, <1>7, <1>8 DEF LoopInv

\* emitEvent preserves the invariant, whether it sends, drops an add after
\* 100 ms or gives up at shutdown: what is not sent is missed.
LEMMA EmitStep ==
  ASSUME LoopInv, LoopTypeOK', NEW h \in Handlers, emitEvent(h), History, UNCHANGED schedulerVars
  PROVE  LoopInv'
<1>1. PICK e \in NextEvents(h) :
        /\ Sent(h, e)
        /\ \/ Events' = Append(Events, e)
           \/ MayGiveUp(e) /\ UNCHANGED Events
  BY DEF emitEvent
<1>2. UNCHANGED <<active, ctxDone, activeSchedulers>>
  BY DEF emitEvent, schedulerVars
<1>3. /\ Events \in Seq(TargetEvent)
      /\ pending \in [Handlers -> SUBSET TargetEvent]
  BY DEF LoopInv, LoopTypeOK, RegistryTypeOK
<1>4. e \in pending[h] /\ e \in TargetEvent
  BY <1>1, <1>3 DEF NextEvents
<1>5. /\ pending'[h] = pending[h] \ {e}
      /\ \A g \in Handlers \ {h} : pending'[g] = pending[g]
  BY <1>1, <1>3 DEF Sent
<1>6. /\ Owed(h)' = Owed(h) \ {e.Address}
      /\ e.Address \in Owed(h)
      /\ \A g \in Handlers \ {h} : Owed(g)' = Owed(g)
  BY <1>4, <1>5 DEF Owed, LoopInv, OneEventEach
<1>7. raced' = raced /\ missed' = missed \cup GaveUp
  BY <1>6, NothingCollected
<1>8. OneEventEach'
  BY <1>5 DEF LoopInv, OneEventEach
<1>9. ContendedIsRaced'
  BY <1>6, <1>7 DEF LoopInv, ContendedIsRaced, Contended
<1>10. PendingAgrees'
  BY <1>2, <1>5, <1>7 DEF LoopInv, PendingAgrees
<1>11. e.Address \notin raced => (e.IsAdded <=> e.Address \in active)
  BY <1>4 DEF LoopInv, PendingAgrees
<1>12. \A a : ~Unsent(a)' <=>
              \/ ~Unsent(a)
              \/ a = e.Address /\ \A g \in Handlers \ {h} : a \notin Owed(g)
  BY <1>6 DEF Unsent
<1>13. \A a : a # e.Address => (Unsent(a)' <=> Unsent(a))
  BY <1>12, <1>6 DEF Unsent
<1>14. CASE Events' = Append(Events, e)
  <2>1. Len(Events') = Len(Events) + 1 /\ Len(Events) \in Nat
    BY <1>3, <1>4, <1>14
  <2>2. Events'[Len(Events) + 1] = e
    BY <1>3, <1>4, <1>14
  <2>3. \A n \in 1 .. Len(Events) : Events'[n] = Events[n]
    BY <1>3, <1>4, <1>14
  <2>4. missed' = missed
    <3>1. Events' # Events
      BY <2>1
    <3>2. QED BY <1>7, <3>1 DEF GaveUp
  <2>5. ASSUME NEW n \in 1 .. Len(Events'), LastQueued(e.Address, n)'
        PROVE  Events'[n] = e
    BY <2>1, <2>2, <2>5 DEF LastQueued
  <2>6. ASSUME NEW a, a # e.Address, NEW n \in 1 .. Len(Events'), LastQueued(a, n)'
        PROVE  n \in 1 .. Len(Events) /\ LastQueued(a, n) /\ Events'[n] = Events[n]
    <3>1. n # Len(Events) + 1
      BY <2>2, <2>6 DEF LastQueued
    <3>2. n \in 1 .. Len(Events)
      BY <2>1, <3>1
    <3>3. QED BY <2>1, <2>3, <2>6, <3>2 DEF LastQueued
  <2>7. QueueAgrees'
    <3>1. SUFFICES ASSUME ~ctxDone', NEW a \in Addresses \ raced', ~Unsent(a)',
                          NEW n \in 1 .. Len(Events'), LastQueued(a, n)'
                   PROVE  /\ Events'[n].IsAdded => a \in active'
                          /\ a \in active' \ missed' => Events'[n].IsAdded
      BY DEF QueueAgrees
    <3>2. CASE a = e.Address
      BY <1>2, <1>7, <1>11, <2>5, <3>1, <3>2
    <3>3. CASE a # e.Address
      <4>1. ~Unsent(a) /\ a \in Addresses \ raced
        BY <1>7, <1>13, <3>1, <3>3
      <4>2. n \in 1 .. Len(Events) /\ LastQueued(a, n) /\ Events'[n] = Events[n]
        BY <2>6, <3>1, <3>3
      <4>3. QED BY <1>2, <2>4, <3>1, <4>1, <4>2 DEF LoopInv, QueueAgrees
    <3>4. QED BY <3>2, <3>3
  <2>8. SchedulersFollowRegistry'
    <3>1. ASSUME NEW a \in Addresses, Settled(a)' PROVE Settled(a)
      <4>1. a # e.Address
        BY <2>1, <2>2, <3>1 DEF Settled
      <4>2. QED BY <1>6, <2>1, <2>3, <3>1, <4>1 DEF Settled
    <3>2. QED BY <1>2, <1>7, <2>4, <3>1 DEF LoopInv, SchedulersFollowRegistry, Running
  <2>9. QED BY <1>8, <1>9, <1>10, <2>7, <2>8 DEF LoopInv
<1>15. CASE MayGiveUp(e) /\ UNCHANGED Events
  <2>1. missed' = missed \cup {e.Address}
    <3>1. GaveUp = {e.Address}
      BY <1>6, <1>15 DEF GaveUp
    <3>2. QED BY <1>7, <3>1
  <2>2. ~ctxDone => e.IsAdded
    BY <1>15 DEF MayGiveUp
  <2>3. \A a, n : LastQueued(a, n)' <=> LastQueued(a, n)
    BY <1>15 DEF LastQueued
  <2>4. QueueAgrees'
    <3>1. SUFFICES ASSUME ~ctxDone', NEW a \in Addresses \ raced', ~Unsent(a)',
                          NEW n \in 1 .. Len(Events'), LastQueued(a, n)'
                   PROVE  /\ Events'[n].IsAdded => a \in active'
                          /\ a \in active' \ missed' => Events'[n].IsAdded
      BY DEF QueueAgrees
    <3>2. CASE a = e.Address
      BY <1>2, <1>7, <1>11, <2>1, <2>2, <3>1, <3>2
    <3>3. CASE a # e.Address
      BY <1>2, <1>7, <1>13, <1>15, <2>1, <2>3, <3>1, <3>3 DEF LoopInv, QueueAgrees
    <3>4. QED BY <3>2, <3>3
  <2>5. SchedulersFollowRegistry'
    <3>1. SUFFICES ASSUME ~ctxDone', NEW a \in Addresses \ raced', Settled(a)'
                   PROVE  /\ a \in Running' => a \in active'
                          /\ a \in active' \ missed' => a \in Running'
      BY DEF SchedulersFollowRegistry
    <3>2. CASE a = e.Address
      BY <1>2, <1>7, <1>11, <2>1, <2>2, <3>1, <3>2
    <3>3. CASE a # e.Address
      <4>1. Settled(a)
        BY <1>6, <1>15, <3>1, <3>3 DEF Settled
      <4>2. QED BY <1>2, <1>7, <2>1, <3>1, <3>3, <4>1 DEF LoopInv, SchedulersFollowRegistry, Running
    <3>4. QED BY <3>2, <3>3
  <2>6. QED BY <1>8, <1>9, <1>10, <2>4, <2>5 DEF LoopInv
<1>16. QED BY <1>1, <1>14, <1>15

\* What the event loop does to the schedulers with an event.
LEMMA HandleEffect ==
  ASSUME LoopTypeOK, HandleEvent
  PROVE  LET evt == Head(Events)
         IN /\ evt \in TargetEvent
            /\ evt.Address \in Running' <=> evt.IsAdded
            /\ \A a \in Addresses \ {evt.Address} : a \in Running' <=> a \in Running
            /\ activeSchedulers' \in [Addresses -> Target \cup {NoTarget}]
<1> DEFINE evt == Head(Events)
<1>1. evt \in TargetEvent
  BY DEF HandleEvent, Receive, LoopTypeOK, RegistryTypeOK
<1>2. /\ evt.Address \in Addresses
      /\ evt.IsAdded => evt.Target \in Target /\ evt.Target # NoTarget
  BY <1>1, RegistryAssumption DEF TargetEvent
<1>3. activeSchedulers \in [Addresses -> Target \cup {NoTarget}]
  BY DEF LoopTypeOK
<1> HIDE DEF evt
<1>4. CASE StartScheduler(evt)
  BY <1>1, <1>2, <1>3, <1>4 DEF StartScheduler, Running, evt
<1>5. CASE IgnoreDuplicate(evt)
  BY <1>1, <1>2, <1>3, <1>5 DEF IgnoreDuplicate, Running, evt
<1>6. CASE StopScheduler(evt)
  BY <1>1, <1>2, <1>3, <1>6 DEF StopScheduler, Running, evt
<1>7. CASE IgnoreUnknown(evt)
  BY <1>1, <1>2, <1>3, <1>7 DEF IgnoreUnknown, Running, schedulerVars, evt
<1>8. QED BY <1>4, <1>5, <1>6, <1>7 DEF HandleEvent, evt

\* Handling an event preserves the invariant: the scheduler of its address now
\* agrees with the event that was the oldest of the channel.
LEMMA HandleStep ==
  ASSUME LoopInv, LoopTypeOK', HandleEvent, History
  PROVE  LoopInv'
<1> DEFINE evt == Head(Events)
<1>1. /\ Events \in Seq(TargetEvent) /\ Events # << >>
      /\ Events' = Tail(Events)
      /\ UNCHANGED <<active, pending, ctxDone>>
  BY DEF HandleEvent, Receive, LoopInv, LoopTypeOK, RegistryTypeOK
<1>2. /\ evt \in TargetEvent
      /\ evt.Address \in Running' <=> evt.IsAdded
      /\ \A a \in Addresses \ {evt.Address} : a \in Running' <=> a \in Running
  BY HandleEffect DEF LoopInv
<1>3. \A h \in Handlers : Owed(h)' = Owed(h)
  BY <1>1 DEF Owed
<1>4. raced' = raced /\ missed' = missed
  <2>1. GaveUp = {}
    BY <1>3 DEF GaveUp
  <2>2. QED BY <1>3, <2>1, NothingCollected
<1>5. /\ Len(Events) \in Nat /\ Len(Events) > 0
      /\ Len(Events') = Len(Events) - 1
      /\ Events[1] = evt
      /\ \A n \in 1 .. Len(Events') : n + 1 \in 1 .. Len(Events) /\ Events'[n] = Events[n + 1]
  BY <1>1
<1> HIDE DEF evt
<1>6. OneEventEach' /\ ContendedIsRaced' /\ PendingAgrees'
  BY <1>1, <1>3, <1>4
     DEF LoopInv, OneEventEach, ContendedIsRaced, Contended, PendingAgrees
<1>7. \A a : Unsent(a)' <=> Unsent(a)
  BY <1>3 DEF Unsent
<1>8. ASSUME NEW a, NEW n \in 1 .. Len(Events'), LastQueued(a, n)'
      PROVE  LastQueued(a, n + 1)
  <2>1. n + 1 \in 1 .. Len(Events) /\ Events[n + 1].Address = a
    BY <1>5, <1>8 DEF LastQueued
  <2>2. ASSUME NEW m \in n + 1 + 1 .. Len(Events) PROVE Events[m].Address # a
    <3>1. m - 1 \in n + 1 .. Len(Events') /\ m - 1 \in 1 .. Len(Events')
      BY <1>5, <2>2
    <3>2. Events'[m - 1] = Events[(m - 1) + 1] /\ (m - 1) + 1 = m
      BY <1>5, <3>1
    <3>3. QED BY <1>8, <3>1, <3>2 DEF LastQueued
  <2>3. QED BY <2>1, <2>2 DEF LastQueued
<1>9. QueueAgrees'
  <2>1. SUFFICES ASSUME ~ctxDone', NEW a \in Addresses \ raced', ~Unsent(a)',
                        NEW n \in 1 .. Len(Events'), LastQueued(a, n)'
                 PROVE  /\ Events'[n].IsAdded => a \in active'
                        /\ a \in active' \ missed' => Events'[n].IsAdded
    BY DEF QueueAgrees
  <2>2. n + 1 \in 1 .. Len(Events) /\ Events'[n] = Events[n + 1] /\ LastQueued(a, n + 1)
    BY <1>5, <1>8, <2>1
  <2>3. QED BY <1>1, <1>4, <1>7, <2>1, <2>2 DEF LoopInv, QueueAgrees
<1>10. SchedulersFollowRegistry'
  <2>1. SUFFICES ASSUME ~ctxDone', NEW a \in Addresses \ raced', Settled(a)'
                 PROVE  /\ a \in Running' => a \in active'
                        /\ a \in active' \ missed' => a \in Running'
    BY DEF SchedulersFollowRegistry
  <2>2. \A m \in 2 .. Len(Events) : Events[m].Address # a
    <3>1. SUFFICES ASSUME NEW m \in 2 .. Len(Events) PROVE Events[m].Address # a
      OBVIOUS
    <3>2. m - 1 \in 1 .. Len(Events') /\ (m - 1) + 1 = m
      BY <1>5
    <3>3. QED BY <1>5, <2>1, <3>2 DEF Settled
  <2>3. ~Unsent(a)
    BY <1>3, <2>1 DEF Settled, Unsent
  <2>4. CASE a = evt.Address
    <3>1. LastQueued(a, 1)
      BY <1>5, <2>2, <2>4 DEF LastQueued
    <3>2. /\ evt.IsAdded => a \in active
          /\ a \in active \ missed => evt.IsAdded
      BY <1>1, <1>4, <1>5, <2>1, <2>3, <3>1 DEF LoopInv, QueueAgrees
    <3>3. QED BY <1>1, <1>2, <1>4, <2>4, <3>2
  <2>5. CASE a # evt.Address
    <3>1. Settled(a)
      <4>1. \A n \in 1 .. Len(Events) : n = 1 \/ n \in 2 .. Len(Events)
        BY <1>5
      <4>2. QED BY <1>5, <2>2, <2>3, <2>5, <4>1 DEF Settled, Unsent
    <3>2. QED BY <1>1, <1>2, <1>4, <2>1, <2>5, <3>1 DEF LoopInv, SchedulersFollowRegistry
  <2>6. QED BY <2>4, <2>5
<1>11. QED BY <1>6, <1>9, <1>10 DEF LoopInv

\* SIGTERM, a scrape and a stuttering step change nothing the invariant reads,
\* but ctxDone, which only makes it weaker.
LEMMA QuietStep ==
  ASSUME LoopInv, LoopTypeOK',
         UNCHANGED <<active, Events, pending, activeSchedulers, raced, missed>>,
         ctxDone => ctxDone'
  PROVE  LoopInv'
<1>1. \A h : Owed(h)' = Owed(h)
  BY DEF Owed
<1>2. OneEventEach' /\ ContendedIsRaced' /\ PendingAgrees'
  BY <1>1 DEF LoopInv, OneEventEach, ContendedIsRaced, Contended, PendingAgrees
<1>3. QueueAgrees'
  BY <1>1 DEF LoopInv, QueueAgrees, LastQueued, Unsent
<1>4. SchedulersFollowRegistry'
  BY <1>1 DEF LoopInv, SchedulersFollowRegistry, Settled, Running
<1>5. QED BY <1>2, <1>3, <1>4 DEF LoopInv

-----------------------------------------------------------------------------
(* The theorems.                                                           *)

\* No step leaves the types.
LEMMA LoopTypeStep == ASSUME LoopTypeOK, LoopNext PROVE LoopTypeOK'
<1>1. raced' \in SUBSET Addresses /\ missed' \in SUBSET Addresses
  <2>1. Contended' \subseteq Addresses
    BY DEF Contended
  <2>2. \A h \in Handlers : Owed(h) \subseteq Addresses
    <3>1. \A h \in Handlers : \A e \in pending[h] : e \in TargetEvent
      BY DEF LoopTypeOK, RegistryTypeOK
    <3>2. \A e \in TargetEvent : e.Address \in Addresses
      BY DEF TargetEvent
    <3>3. QED BY <3>1, <3>2 DEF Owed
  <2>3. GaveUp \subseteq Addresses
    BY <2>2 DEF GaveUp
  <2>4. QED BY <2>1, <2>3 DEF LoopNext, History, LoopTypeOK
<1>2. CASE RegistryNext /\ UNCHANGED schedulerVars
  BY <1>1, <1>2, RegistryTypeStep DEF LoopTypeOK, schedulerVars
<1>3. CASE HandleEvent
  <2>1. RegistryTypeOK'
    BY <1>3, RegistryTypeStep DEF LoopTypeOK, HandleEvent
  <2>2. activeSchedulers' \in [Addresses -> Target \cup {NoTarget}]
    BY <1>3, HandleEffect
  <2>3. pendingDeletes' \in SUBSET Addresses
    <3>1. Head(Events).Address \in Addresses
      BY <1>3, HandleEffect DEF TargetEvent
    <3>2. QED
      BY <1>3, <3>1 DEF HandleEvent, StartScheduler, IgnoreDuplicate, StopScheduler,
                        IgnoreUnknown, schedulerVars, LoopTypeOK
  <2>4. QED BY <1>1, <2>1, <2>2, <2>3 DEF LoopTypeOK
<1>4. CASE Scrape
  BY <1>1, <1>4 DEF Scrape, LoopTypeOK, RegistryTypeOK, registryVars
<1>5. QED BY <1>2, <1>3, <1>4 DEF LoopNext

\* The process starts with nothing active, owed, queued or scheduled.
LEMMA LoopInvInit == LoopInit => LoopInv
<1> SUFFICES ASSUME LoopInit PROVE LoopInv
  OBVIOUS
<1>1. LoopTypeOK
  BY RegistryTypeInit DEF LoopInit, LoopTypeOK
<1>2. \A h \in Handlers : pending[h] = {} /\ Owed(h) = {}
  BY DEF LoopInit, Init, Owed
<1>3. OneEventEach /\ ContendedIsRaced /\ PendingAgrees
  BY <1>2 DEF OneEventEach, ContendedIsRaced, Contended, PendingAgrees
<1>4. QueueAgrees
  BY DEF QueueAgrees, LoopInit, Init
<1>5. SchedulersFollowRegistry
  BY DEF SchedulersFollowRegistry, LoopInit, Init, Running
<1>6. QED BY <1>1, <1>3, <1>4, <1>5 DEF LoopInv

\* Every step of the composition preserves the invariant.
LEMMA LoopInvStep == LoopInv /\ [LoopNext]_loopVars => LoopInv'
<1>1. ASSUME LoopInv, LoopNext PROVE LoopInv'
  <2>1. LoopTypeOK'
    BY <1>1, LoopTypeStep DEF LoopInv
  <2>2. History
    BY <1>1 DEF LoopNext
  <2>3. CASE Operation /\ UNCHANGED schedulerVars
    BY <1>1, <2>1, <2>2, <2>3, OperationCollects, OperationStep DEF LoopInv, LoopTypeOK
  <2>4. CASE (\E h \in Handlers : emitEvent(h)) /\ UNCHANGED schedulerVars
    BY <1>1, <2>1, <2>2, <2>4, EmitStep
  <2>5. CASE (Cancel \/ Scrape) /\ UNCHANGED activeSchedulers
    <3>1. UNCHANGED <<active, Events, pending>> /\ (ctxDone => ctxDone')
      BY <2>5 DEF Cancel, Scrape, registryVars
    <3>2. raced' = raced /\ missed' = missed
      <4>1. \A h \in Handlers : Owed(h)' = Owed(h)
        BY <3>1 DEF Owed
      <4>2. GaveUp = {}
        BY <4>1 DEF GaveUp
      <4>3. QED BY <2>2, <4>1, <4>2, NothingCollected
    <3>3. QED BY <1>1, <2>1, <2>5, <3>1, <3>2, QuietStep
  <2>6. CASE HandleEvent
    BY <1>1, <2>1, <2>2, <2>6, HandleStep
  <2>7. QED
    BY <1>1, <2>3, <2>4, <2>5, <2>6 DEF LoopNext, RegistryNext, Operation, schedulerVars, Scrape
<1>2. ASSUME LoopInv, UNCHANGED loopVars PROVE LoopInv'
  <2>1. LoopTypeOK'
    BY <1>2 DEF LoopInv, LoopTypeOK, RegistryTypeOK, loopVars, registryVars, schedulerVars
  <2>2. QED BY <1>2, <2>1, QuietStep DEF loopVars, registryVars, schedulerVars
<1>3. QED BY <1>1, <1>2

\* Every reachable state of the composition is well-typed.
THEOREM LoopTypeCorrect == LoopSpec => []LoopTypeOK
<1>1. LoopInv => LoopTypeOK
  BY DEF LoopInv
<1>2. QED BY LoopInvInit, LoopInvStep, <1>1, PTL DEF LoopSpec

\* Once the events about an address have been handled, its scheduler runs
\* exactly when the registry says so, as long as its latest event neither
\* raced another goroutine's nor was a dropped add.
THEOREM SchedulersAgree == LoopSpec => []SchedulersFollowRegistry
<1>1. LoopInv => SchedulersFollowRegistry
  BY DEF LoopInv
<1>2. QED BY LoopInvInit, LoopInvStep, <1>1, PTL DEF LoopSpec

\* Handling an event is the abstract handling of that event.
LEMMA HandleMaps ==
  ASSUME LoopTypeOK, HandleEvent
  PROVE  [Deletion!Next]_(Deletion!vars)
<1> DEFINE evt == Head(Events)
<1>1. /\ evt.Address \in Addresses
      /\ evt.Address \in Running' <=> evt.IsAdded
      /\ \A a \in Addresses \ {evt.Address} : a \in Running' <=> a \in Running
      /\ Running \subseteq Addresses /\ Running' \subseteq Addresses
  BY HandleEffect DEF TargetEvent, Running
<1>2. CASE evt.IsAdded
  <2>1. pendingDeletes' = pendingDeletes \ {evt.Address}
    BY <1>2 DEF HandleEvent, StartScheduler, IgnoreDuplicate, StopScheduler, IgnoreUnknown
  <2>2. Running' = Running \cup {evt.Address}
    <3> HIDE DEF evt
    <3> QED BY <1>1, <1>2
  <2>3. Deletion!HandleAdd(evt.Address)
    BY <2>1, <2>2 DEF Deletion!HandleAdd
  <2>4. QED BY <1>1, <2>3 DEF Deletion!Next
<1>3. CASE StopScheduler(evt)
  <2>1. evt.Address \in Running /\ pendingDeletes' = pendingDeletes \cup {evt.Address}
    BY <1>3 DEF StopScheduler
  <2>2. Running' = Running \ {evt.Address}
    <3>1. ~evt.IsAdded
      BY <1>3 DEF StopScheduler
    <3> HIDE DEF evt
    <3> QED BY <1>1, <3>1
  <2>3. Deletion!HandleRemoval(evt.Address)
    BY <2>1, <2>2 DEF Deletion!HandleRemoval
  <2>4. QED BY <1>1, <2>3 DEF Deletion!Next
<1>4. CASE IgnoreUnknown(evt)
  BY <1>4 DEF IgnoreUnknown, schedulerVars, Running, Deletion!vars
<1>5. QED BY <1>2, <1>3, <1>4 DEF HandleEvent, StartScheduler, IgnoreDuplicate

\* metrics_cleaner.go:26-38: the loop keeps the marks as DeferredDeletion says, to
\* which MetricsCleaner, with all its interleavings, is equally true.
THEOREM LoopImplementsDeferredDeletion == LoopSpec => ImplementsDeletion
<1>1. LoopInit => Deletion!Init
  BY DEF LoopInit, Deletion!Init, Running
<1>2. LoopTypeOK /\ [LoopNext]_loopVars => [Deletion!Next]_(Deletion!vars)
  <2>1. ASSUME LoopTypeOK, Scrape PROVE [Deletion!Next]_(Deletion!vars)
    BY <2>1 DEF Scrape, Running, Deletion!Next, Deletion!Scrape
  <2>2. ASSUME UNCHANGED schedulerVars PROVE [Deletion!Next]_(Deletion!vars)
    BY <2>2 DEF schedulerVars, Running, Deletion!vars
  <2>3. QED BY <2>1, <2>2, HandleMaps DEF LoopNext, loopVars
<1>3. QED BY <1>1, <1>2, LoopTypeCorrect, PTL
          DEF LoopSpec, ImplementsDeletion, Deletion!Spec

\* In the abstract specification no scheduled target is marked.
LEMMA AbstractUnmarked == Deletion!Spec => []Deletion!Unmarked
<1>1. Deletion!Init => Deletion!Unmarked
  BY DEF Deletion!Init, Deletion!Unmarked
<1>2. Deletion!Unmarked /\ [Deletion!Next]_(Deletion!vars) => Deletion!Unmarked'
  BY DEF Deletion!Unmarked, Deletion!Next, Deletion!vars, Deletion!HandleAdd,
         Deletion!HandleRemoval, Deletion!Scrape
<1>3. QED BY <1>1, <1>2, PTL DEF Deletion!Spec

\* A running scheduler's target carries no mark for deletion, so no later scrape
\* deletes its series (metrics_cleaner.go:33): it follows from what the marks'
\* specification promises.
THEOREM RunningIsNotMarked == LoopSpec => []RunningNotMarked
<1>1. Deletion!Unmarked => RunningNotMarked
  BY DEF Deletion!Unmarked, RunningNotMarked
<1>2. QED BY <1>1, LoopImplementsDeferredDeletion, AbstractUnmarked, PTL
          DEF ImplementsDeletion

\* The composition implements the registry: the event loop only receives.
\* Every theorem of RegistryProofs therefore holds of it.
THEOREM ImplementsRegistry == LoopSpec => RegistrySpec
<1>1. LoopInit => Init
  BY DEF LoopInit
<1>2. [LoopNext]_loopVars => [RegistryNext \/ Receive]_registryVars
  BY DEF LoopNext, HandleEvent, Scrape, loopVars
<1>3. QED BY <1>1, <1>2, PTL DEF LoopSpec, RegistrySpec

\* A scheduler with no event under way probes a known target that the replica
\* owns: the invariant of the loop and the one of the registry together.
THEOREM RunningTargetsAreOwned == LoopSpec => []RunningIsOwned
<1>1. SchedulersFollowRegistry /\ ActiveIsOwned => RunningIsOwned
  BY DEF SchedulersFollowRegistry, ActiveIsOwned, RunningIsOwned
<1>2. QED BY <1>1, SchedulersAgree, ImplementsRegistry, ClaimsAreOwned, PTL
=============================================================================
