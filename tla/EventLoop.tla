----------------------------- MODULE EventLoop ------------------------------
(***************************************************************************)
(* The registry composed with the event loop of main.go, the only consumer *)
(* of Events: it starts and stops one TargetScheduler per address.         *)
(*                                                                         *)
(* The loop sees the registry only through the events, and the goroutines  *)
(* that send them do so after releasing the mutex.  The question is when   *)
(* the running schedulers are the active targets of the registry.          *)
(***************************************************************************)
EXTENDS Registry

VARIABLES
  activeSchedulers,  \* activeSchedulers[a]: the Target its scheduler probes
  pendingDeletes,    \* MetricsCleaner: addresses whose series the next scrape deletes
  raced,             \* history: see History below
  missed             \* history: see History below

schedulerVars == <<activeSchedulers, pendingDeletes>>
loopVars == <<registryVars, schedulerVars, raced, missed>>

Running == {a \in Addresses : activeSchedulers[a] # NoTarget}

-----------------------------------------------------------------------------
(* The body of the event loop.                                             *)

\* Mutant of StartScheduler: a restarted target keeps its old mark.
StartScheduler_NoAbort(evt) ==
  /\ evt.IsAdded
  /\ evt.Address \notin Running
  /\ activeSchedulers' = [activeSchedulers EXCEPT ![evt.Address] = evt.Target]
  /\ UNCHANGED pendingDeletes

StartScheduler(evt) ==
  /\ evt.IsAdded
  /\ evt.Address \notin Running
  /\ activeSchedulers' = [activeSchedulers EXCEPT ![evt.Address] = evt.Target]
  /\ pendingDeletes' = pendingDeletes \ {evt.Address}     \* AbortDeletion

\* The scheduler that runs keeps the Target it was started with.
IgnoreDuplicate(evt) ==
  /\ evt.IsAdded
  /\ evt.Address \in Running
  /\ pendingDeletes' = pendingDeletes \ {evt.Address}     \* AbortDeletion
  /\ UNCHANGED activeSchedulers

\* Mutant of StopScheduler: cancelled, but still in the map.
StopScheduler_KeepsEntry(evt) ==
  /\ ~evt.IsAdded
  /\ evt.Address \in Running
  /\ pendingDeletes' = pendingDeletes \cup {evt.Address}
  /\ UNCHANGED activeSchedulers

StopScheduler(evt) ==
  /\ ~evt.IsAdded
  /\ evt.Address \in Running
  /\ activeSchedulers' = [activeSchedulers EXCEPT ![evt.Address] = NoTarget]
  /\ pendingDeletes' = pendingDeletes \cup {evt.Address}  \* MarkForDeletion

IgnoreUnknown(evt) ==
  /\ ~evt.IsAdded
  /\ evt.Address \notin Running
  /\ UNCHANGED schedulerVars

HandleEvent ==
  /\ Receive
  /\ LET evt == Head(Events)
     IN \/ StartScheduler(evt)
        \/ IgnoreDuplicate(evt)
        \/ StopScheduler(evt)
        \/ IgnoreUnknown(evt)

\* MetricsCleaner.Handler, in one step (MetricsCleaner has its interleavings).
Scrape ==
  /\ pendingDeletes # {}
  /\ pendingDeletes' = {}
  /\ UNCHANGED <<registryVars, activeSchedulers>>

-----------------------------------------------------------------------------
(* History.  raced holds the addresses whose latest event was collected    *)
(* while another goroutine still had one to send for the same address, so  *)
(* that the two may enter Events in either order; missed those whose       *)
(* latest event was never sent.  Neither is read by an action.             *)

Owed(h) == {e.Address : e \in pending[h]}

Collected == UNION {Owed(h)' \ Owed(h) : h \in Handlers}

Contended ==
  {a \in Addresses : \E g, h \in Handlers : g # h /\ a \in Owed(g) \cap Owed(h)}

GaveUp ==
  IF Events' = Events THEN UNION {Owed(h) \ Owed(h)' : h \in Handlers} ELSE {}

History ==
  /\ raced' = (raced \ Collected) \cup (Collected \cap Contended')
  /\ missed' = (missed \ Collected) \cup GaveUp

-----------------------------------------------------------------------------
LoopInit ==
  /\ Init
  /\ activeSchedulers = [a \in Addresses |-> NoTarget]
  /\ pendingDeletes = {}
  /\ raced = {}
  /\ missed = {}

LoopNext ==
  /\ \/ RegistryNext /\ UNCHANGED schedulerVars
     \/ HandleEvent
     \/ Scrape
  /\ History

LoopSpec == LoopInit /\ [][LoopNext]_loopVars

\* The loop never stops receiving.  A goroutine blocked on Events is queued
\* first come, first served by the runtime, so it sends if there is room
\* again and again.
Emits(h) == emitEvent(h) /\ UNCHANGED schedulerVars /\ History
Handles == HandleEvent /\ History

LoopFairSpec ==
  /\ LoopSpec
  /\ WF_loopVars(Handles)
  /\ \A h \in Handlers : SF_loopVars(Emits(h))

-----------------------------------------------------------------------------
\* Type invariant.
LoopTypeOK ==
  /\ RegistryTypeOK
  /\ activeSchedulers \in [Addresses -> Target \cup {NoTarget}]
  /\ pendingDeletes \in SUBSET Addresses
  /\ raced \in SUBSET Addresses
  /\ missed \in SUBSET Addresses

\* No event about a is on its way to the loop.
Settled(a) ==
  /\ \A h \in Handlers : a \notin Owed(h)
  /\ \A n \in 1 .. Len(Events) : Events[n].Address # a

\* main.go:155, "handle target additions, rebalancing decisions, and
\* removals": as long as no two goroutines had events for an address at the
\* same time, once its events have been handled its scheduler runs only if
\* the registry says the target is active, and does run if it is active
\* and no add was dropped, whatever happened to other addresses, to the
\* capacity of Events and to this address before.
SchedulersFollowRegistry ==
  ~ctxDone =>
    \A a \in Addresses \ raced : Settled(a) =>
      /\ a \in Running => a \in active
      /\ a \in active \ missed => a \in Running

\* ADR 0008 end to end: a scheduler that runs with no event about it under way
\* probes a target that some discovery source still lists and that this
\* replica owns under the peers it knows now, unless its latest event raced.
RunningIsOwned ==
  ~ctxDone =>
    \A a \in Addresses \ raced :
      Settled(a) /\ a \in Running => a \in Known /\ shouldProcessTargetLocked(a)

\* registry.go:68, "Deletion events must never be silently dropped": before
\* shutdown every removal a goroutine owes stops the scheduler, however full
\* Events is and whatever the other goroutines send.
RemovalStopsScheduler ==
  \A h \in Handlers, a \in Addresses :
    (\E e \in pending[h] : e.Address = a /\ ~e.IsAdded)
      ~> (a \notin Running \/ ctxDone)

\* metrics_cleaner.go:33, the part that holds: the mark of a target is gone
\* as long as its scheduler runs, so no later scrape deletes its series.
RunningNotMarked == Running \cap pendingDeletes = {}

Deletion == INSTANCE DeferredDeletion
  WITH Targets <- Addresses, scheduled <- Running, marked <- pendingDeletes

\* metrics_cleaner.go:26-38, the loop's part: it marks a target when it stops its
\* scheduler and aborts at every add, the duplicates included, in whatever order
\* the events of an address come; with MetricsCleaner the marks of both agree.
ImplementsDeletion == Deletion!Spec

-----------------------------------------------------------------------------
(* What the repository says and the code does not guarantee.               *)

\* registry.go:68, "to avoid leaking target schedulers": when every event
\* about a has been handled, a target this replica gave up has no scheduler.
NoLeakedScheduler ==
  ~ctxDone => \A a \in Addresses : Settled(a) /\ a \in Running => a \in active

\* registry.go:20, active "Tracks whether this specific replica is currently
\* probing a target": when every event about a has been handled, an active
\* target has a scheduler.
ActiveIsProbed ==
  ~ctxDone => \A a \in Addresses : Settled(a) /\ a \in active => a \in Running

\* ADR 0023, a StaticTarget's attributes override a dynamic entry's: when
\* every event about a was sent in order and handled, what its scheduler
\* probes is the registry's entry.
SchedulerProbesEntry ==
  ~ctxDone =>
    \A a \in Addresses \ (raced \cup missed) :
      Settled(a) /\ a \in Running \cap active =>
        activeSchedulers[a].Options = targets[a].Options
=============================================================================
