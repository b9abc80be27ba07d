--------------------------- MODULE MetricsCleaner ---------------------------
(***************************************************************************)
(* Deferred deletion of the series of stopped targets                      *)
(* (pkg/server/metrics_cleaner.go), with the three parties that meet there:*)
(* the event loop of main.go, which marks a target after stopping its      *)
(* scheduler and aborts before starting one; the HTTP handlers, one per    *)
(* scrape, which serve, collect and delete in three steps; the probes,     *)
(* which create and update the series of their target as they run.         *)
(*                                                                         *)
(* Data abstraction: the series of a target in the five vectors that have  *)
(* the label "target" are one, which exists or not.                        *)
(***************************************************************************)
EXTENDS Naturals

CONSTANTS
  Targets,     \* target addresses
  Scrapes,     \* HTTP goroutines serving /metrics
  MaxJobs,     \* bound: queued jobs of one target
  MaxProbes    \* bound: running probes of one target

ASSUME CleanerAssumption ==
  /\ MaxJobs \in Nat \ {0}
  /\ MaxProbes \in Nat \ {0}

VARIABLES
  activeSchedulers,  \* targets with an entry in the map of that name
  cancelled,         \* targets with a cancelled scheduler that has not returned
  dropping,          \* targets with a scheduler that has found the queue full and not
                     \* counted the drop yet (bound: one at a time)
  loop,              \* the event loop: <<"idle">>, <<"start", t>> or <<"mark", t>>
  jobs,              \* jobs[t]: queued jobs of t
  probing,           \* probing[t]: running probes of t
  pendingDeletes,    \* pendingDeletes[t]: scrapes left before deletion, 0 for no entry
  pc,                \* pc[s]: "idle", "served" or "deleting"
  toDelete,          \* toDelete[s]: what scrape s collected and has to delete
  series,            \* targets that have series
  late               \* history: see Touch

cleanerVars == <<pendingDeletes, pc, toDelete>>
probeVars == <<cancelled, dropping, jobs, probing>>
loopVars == <<activeSchedulers, loop>>
seriesVars == <<series, late>>
vars == <<loopVars, probeVars, cleanerVars, seriesVars>>

Init ==
  /\ activeSchedulers = {}
  /\ cancelled = {}
  /\ dropping = {}
  /\ loop = <<"idle">>
  /\ jobs = [t \in Targets |-> 0]
  /\ probing = [t \in Targets |-> 0]
  /\ pendingDeletes = [t \in Targets |-> 0]
  /\ pc = [s \in Scrapes |-> "idle"]
  /\ toDelete = [s \in Scrapes |-> {}]
  /\ series = {}
  /\ late = {}

-----------------------------------------------------------------------------
(* The event loop.  Any event may arrive: EventLoop says which ones do.    *)

\* Mutant of AbortDeletion: the entry stays.
AbortDeletion_KeepsEntry(t) == UNCHANGED pendingDeletes

AbortDeletion(t) == pendingDeletes' = [pendingDeletes EXCEPT ![t] = 0]

\* An add event: the deletion is aborted first.
HandleAdd(t) ==
  /\ loop = <<"idle">>
  /\ AbortDeletion(t)
  /\ loop' = <<"start", t>>
  /\ UNCHANGED <<activeSchedulers, probeVars, pc, toDelete, seriesVars>>

\* Then, under schedMu, the scheduler is started unless it runs.
StartScheduler(t) ==
  /\ loop = <<"start", t>>
  /\ activeSchedulers' = activeSchedulers \cup {t}
  /\ loop' = <<"idle">>
  /\ late' = late \ {t}
  /\ UNCHANGED <<probeVars, cleanerVars, series>>

\* A removal event: the entry goes, its context is cancelled.
StopScheduler(t) ==
  /\ loop = <<"idle">>
  /\ t \in activeSchedulers
  /\ activeSchedulers' = activeSchedulers \ {t}
  /\ cancelled' = cancelled \cup {t}
  /\ loop' = <<"mark", t>>
  /\ UNCHANGED <<dropping, jobs, probing, cleanerVars, seriesVars>>

\* Mutant of Mark: the mark is not made.
Mark_Forgotten(t) == UNCHANGED pendingDeletes

\* Mutant of Mark: the deletion waits for two scrapes.
Mark_TwoScrapes(t) == pendingDeletes' = [pendingDeletes EXCEPT ![t] = 2]

Mark(t) == pendingDeletes' = [pendingDeletes EXCEPT ![t] = 1]

\* Then the target is marked for deletion after one scrape.
MarkForDeletion(t) ==
  /\ loop = <<"mark", t>>
  /\ Mark(t)
  /\ loop' = <<"idle">>
  /\ UNCHANGED <<activeSchedulers, probeVars, pc, toDelete, seriesVars>>

-----------------------------------------------------------------------------
(* A scrape: Handler.                                                      *)

\* The response has the series as they are now.
Serve(s) ==
  /\ pc[s] = "idle"
  /\ pc' = [pc EXCEPT ![s] = "served"]
  /\ UNCHANGED <<loopVars, probeVars, pendingDeletes, toDelete, seriesVars>>

\* Mutant of Expired: one scrape too many is awaited, and never comes.
Expired_OffByOne == {t \in Targets : pendingDeletes[t] > 1}

Expired == {t \in Targets : pendingDeletes[t] = 1}

\* Under c.mu: the marks that have no scrape left are collected.
Collect(s) ==
  /\ pc[s] = "served"
  /\ toDelete' = [toDelete EXCEPT ![s] = Expired]
  /\ pendingDeletes' = [t \in Targets |-> IF t \in Expired \/ pendingDeletes[t] = 0
                                          THEN 0 ELSE pendingDeletes[t] - 1]
  /\ pc' = [pc EXCEPT ![s] = "deleting"]
  /\ UNCHANGED <<loopVars, probeVars, seriesVars>>

\* deleteFn, outside the mutex, one target at a time.
Delete(s, t) ==
  /\ pc[s] = "deleting"
  /\ t \in toDelete[s]
  /\ toDelete' = [toDelete EXCEPT ![s] = @ \ {t}]
  /\ series' = series \ {t}
  /\ late' = late \ {t}
  /\ UNCHANGED <<loopVars, probeVars, pendingDeletes, pc>>

\* The handler returns.
Finish(s) ==
  /\ pc[s] = "deleting"
  /\ toDelete[s] = {}
  /\ pc' = [pc EXCEPT ![s] = "idle"]
  /\ UNCHANGED <<loopVars, probeVars, pendingDeletes, toDelete, seriesVars>>

-----------------------------------------------------------------------------
(* Probes.                                                                 *)

\* Something is still to delete, or to keep, the series of t.
Accounted(t) ==
  \/ t \in activeSchedulers
  \/ loop \in {<<"start", t>>, <<"mark", t>>}
  \/ pendingDeletes[t] > 0
  \/ \E s \in Scrapes : t \in toDelete[s]

\* WithLabelValues creates the series of t if it does not exist.  late has the
\* targets updated when nothing was left to delete their series.
Touch(t) ==
  /\ series' = series \cup {t}
  /\ late' = IF Accounted(t) THEN late ELSE late \cup {t}

\* TargetScheduler sends a job or, finding no room, is about to count a drop.  In
\* its select a cancelled one may still choose the send, but not the default.
Enqueue(t) ==
  /\ \/ /\ t \in activeSchedulers \cup cancelled
        /\ jobs[t] < MaxJobs
        /\ jobs' = [jobs EXCEPT ![t] = @ + 1]
        /\ UNCHANGED dropping
     \/ /\ t \in activeSchedulers \ dropping
        /\ dropping' = dropping \cup {t}
        /\ UNCHANGED jobs
  /\ UNCHANGED <<loopVars, cancelled, probing, cleanerVars, seriesVars>>

\* The default case counts the drop; its scheduler may be cancelled by now.
DropInc(t) ==
  /\ t \in dropping
  /\ dropping' = dropping \ {t}
  /\ Touch(t)
  /\ UNCHANGED <<loopVars, cancelled, jobs, probing, cleanerVars>>

\* A cancelled scheduler returns, but not with a drop to count.
SchedulerReturns(t) ==
  /\ t \in cancelled
  /\ t \notin dropping \/ t \in activeSchedulers
  /\ cancelled' = cancelled \ {t}
  /\ UNCHANGED <<loopVars, dropping, jobs, probing, cleanerVars, seriesVars>>

\* ProbeTarget: the traffic counter first,
ProbeStart(t) ==
  /\ jobs[t] > 0
  /\ probing[t] < MaxProbes
  /\ jobs' = [jobs EXCEPT ![t] = @ - 1]
  /\ probing' = [probing EXCEPT ![t] = @ + 1]
  /\ Touch(t)
  /\ UNCHANGED <<loopVars, cancelled, dropping, cleanerVars>>

\* then, after the network, latency and errors.
ProbeEnd(t) ==
  /\ probing[t] > 0
  /\ probing' = [probing EXCEPT ![t] = @ - 1]
  /\ Touch(t)
  /\ UNCHANGED <<loopVars, cancelled, dropping, jobs, cleanerVars>>

-----------------------------------------------------------------------------
Next ==
  \/ \E t \in Targets :
       \/ HandleAdd(t) \/ StartScheduler(t)
       \/ StopScheduler(t) \/ MarkForDeletion(t)
       \/ Enqueue(t) \/ DropInc(t) \/ SchedulerReturns(t)
       \/ ProbeStart(t) \/ ProbeEnd(t)
  \/ \E s \in Scrapes : Serve(s) \/ Collect(s) \/ Finish(s)
  \/ \E s \in Scrapes, t \in Targets : Delete(s, t)

Spec == Init /\ [][Next]_vars

\* The loop finishes the event it handles, a handler runs to its end, and
\* Prometheus keeps scraping.
FairSpec ==
  /\ Spec
  /\ \A t \in Targets : WF_vars(StartScheduler(t) \/ MarkForDeletion(t))
  /\ \A s \in Scrapes :
       /\ WF_vars(Serve(s) \/ Collect(s) \/ Finish(s))
       /\ \A t \in Targets : WF_vars(Delete(s, t))

-----------------------------------------------------------------------------
\* Type invariant.
TypeOK ==
  /\ activeSchedulers \in SUBSET Targets
  /\ cancelled \in SUBSET Targets /\ dropping \in SUBSET (activeSchedulers \cup cancelled)
  /\ loop \in {<<"idle">>} \cup ({"start", "mark"} \X Targets)
  /\ jobs \in [Targets -> 0 .. MaxJobs]
  /\ probing \in [Targets -> 0 .. MaxProbes]
  /\ pendingDeletes \in [Targets -> {0, 1}]
  /\ pc \in [Scrapes -> {"idle", "served", "deleting"}]
  /\ toDelete \in [Scrapes -> SUBSET Targets]
  /\ series \in SUBSET Targets
  /\ late \in SUBSET series

\* metrics_cleaner.go:33, what does hold: once its scheduler runs, a target has
\* no mark, so a scrape that collects from then on cannot delete its series.
ScheduledNotPending == \A t \in activeSchedulers : pendingDeletes[t] = 0

\* metrics.go:114, what does hold: series of a target are never forgotten by
\* the loop and the scrapes together, however these interleave; the only ones
\* with nothing left to delete them were updated late, by a probe or by a drop
\* that its scheduler counted after it was cancelled.
SeriesAccounted == \A t \in series : Accounted(t) \/ t \in late

\* metrics_cleaner.go:26: a marked target loses its series or runs again, and
\* no overlapping scrape swallows the mark.
MarkedIsDeleted ==
  \A t \in Targets :
    pendingDeletes[t] > 0 ~> (t \notin series \/ t \in activeSchedulers)

-----------------------------------------------------------------------------
\* An event is being handled from the abort to the start, and from the stop to
\* the mark; in between its target counts as scheduled.
InHand == {t \in Targets : loop \in {<<"start", t>>, <<"mark", t>>}}

Deletion == INSTANCE DeferredDeletion
  WITH scheduled <- activeSchedulers \cup InHand,
       marked <- {t \in Targets : pendingDeletes[t] > 0}

\* main.go:155-198 with metrics_cleaner.go:26-66: although the loop aborts before
\* it starts and marks after it stops, although scrapes overlap and probes come
\* late, the marks behave as if each event and each collection were one step.
ImplementsDeletion == Deletion!Spec

-----------------------------------------------------------------------------
(* What the repository says and the code does not guarantee.               *)

\* metrics_cleaner.go:33, "cancels a pending deletion if the target becomes
\* active again": no scrape deletes the series of an active target.
ActiveKeepsSeries ==
  [][\A t \in Targets : t \in series \ series' => t \notin activeSchedulers]_vars
=============================================================================
