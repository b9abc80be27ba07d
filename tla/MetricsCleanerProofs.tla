------------------------ MODULE MetricsCleanerProofs ------------------------
(***************************************************************************)
(* Proofs about MetricsCleaner, for any targets and any number of          *)
(* overlapping scrapes and probes.                                         *)
(***************************************************************************)
EXTENDS MetricsCleaner, TLAPS

-----------------------------------------------------------------------------
\* Between its two halves the event loop has aborted the deletion of the target
\* it starts, and has stopped the target it marks.
LoopInOrder ==
  \A t \in Targets :
    /\ loop = <<"start", t>> => pendingDeletes[t] = 0
    /\ loop = <<"mark", t>> => t \notin activeSchedulers

\* A scrape that has not collected has nothing to delete: collecting overwrites
\* no target.
CollectsAfresh == \A s \in Scrapes : pc[s] # "deleting" => toDelete[s] = {}

Inv ==
  /\ TypeOK
  /\ LoopInOrder
  /\ CollectsAfresh
  /\ ScheduledNotPending
  /\ SeriesAccounted

\* The initial state.
LEMMA InitInv == Init => Inv
<1> SUFFICES ASSUME Init PROVE Inv
  OBVIOUS
<1>1. TypeOK
  BY CleanerAssumption DEF Init, TypeOK
<1>2. QED BY <1>1 DEF Init, Inv, LoopInOrder, CollectsAfresh, ScheduledNotPending, SeriesAccounted

\* No two values of loop are the same by accident.
LEMMA LoopValues ==
  ASSUME NEW t, NEW u
  PROVE  /\ <<"start", t>> # <<"mark", u>>
         /\ <<"idle">> # <<"mark", u>> /\ <<"idle">> # <<"start", u>>
         /\ <<"start", t>> = <<"start", u>> => t = u
         /\ <<"mark", t>> = <<"mark", u>> => t = u
  OBVIOUS

\* Every step keeps the types.
LEMMA TypeStep == ASSUME TypeOK, [Next]_vars PROVE TypeOK'
<1> USE CleanerAssumption DEF cleanerVars, probeVars, loopVars, seriesVars
<1>1. ASSUME NEW t \in Targets, HandleAdd(t) PROVE TypeOK'
  BY <1>1 DEF TypeOK, HandleAdd, AbortDeletion
<1>2. ASSUME NEW t \in Targets, StartScheduler(t) PROVE TypeOK'
  BY <1>2 DEF TypeOK, StartScheduler
<1>3. ASSUME NEW t \in Targets, StopScheduler(t) PROVE TypeOK'
  BY <1>3 DEF TypeOK, StopScheduler
<1>4. ASSUME NEW t \in Targets, MarkForDeletion(t) PROVE TypeOK'
  BY <1>4 DEF TypeOK, MarkForDeletion, Mark
<1>5. ASSUME NEW t \in Targets, Enqueue(t) PROVE TypeOK'
  <2>1. jobs' \in [Targets -> 0 .. MaxJobs]
    BY <1>5 DEF TypeOK, Enqueue
  <2>2. QED BY <1>5, <2>1 DEF TypeOK, Enqueue
<1>6. ASSUME NEW t \in Targets, DropInc(t) PROVE TypeOK'
  <2>1. series' \in SUBSET Targets /\ late' \in SUBSET series'
    BY <1>6 DEF TypeOK, DropInc, Touch
  <2>2. QED BY <1>6, <2>1 DEF TypeOK, DropInc
<1>7. ASSUME NEW t \in Targets, SchedulerReturns(t) PROVE TypeOK'
  BY <1>7 DEF TypeOK, SchedulerReturns
<1>8. ASSUME NEW t \in Targets, ProbeStart(t) PROVE TypeOK'
  <2>1. series' \in SUBSET Targets /\ late' \in SUBSET series'
    BY <1>8 DEF TypeOK, ProbeStart, Touch
  <2>2. QED BY <1>8, <2>1 DEF TypeOK, ProbeStart
<1>9. ASSUME NEW t \in Targets, ProbeEnd(t) PROVE TypeOK'
  <2>1. series' \in SUBSET Targets /\ late' \in SUBSET series'
    BY <1>9 DEF TypeOK, ProbeEnd, Touch
  <2>2. QED BY <1>9, <2>1 DEF TypeOK, ProbeEnd
<1>10. ASSUME NEW s \in Scrapes, Serve(s) PROVE TypeOK'
  BY <1>10 DEF TypeOK, Serve
<1>11. ASSUME NEW s \in Scrapes, Collect(s) PROVE TypeOK'
  <2>1. pendingDeletes' \in [Targets -> {0, 1}]
    BY <1>11 DEF TypeOK, Collect, Expired
  <2>2. QED BY <1>11, <2>1 DEF TypeOK, Collect, Expired
<1>12. ASSUME NEW s \in Scrapes, Finish(s) PROVE TypeOK'
  BY <1>12 DEF TypeOK, Finish
<1>13. ASSUME NEW s \in Scrapes, NEW t \in Targets, Delete(s, t) PROVE TypeOK'
  BY <1>13 DEF TypeOK, Delete
<1>14. CASE UNCHANGED vars
  BY <1>14 DEF TypeOK, vars
<1>15. QED BY <1>1, <1>2, <1>3, <1>4, <1>5, <1>6, <1>7, <1>8, <1>9, <1>10, <1>11, <1>12, <1>13,
           <1>14 DEF Next

\* The abort precedes the start and the stop precedes the mark (main.go:155-185),
\* and a collection only takes marks away.
LEMMA OrderStep ==
  ASSUME Inv, [Next]_vars
  PROVE  LoopInOrder' /\ CollectsAfresh' /\ ScheduledNotPending'
<1> DEFINE Goal == LoopInOrder /\ CollectsAfresh /\ ScheduledNotPending
<1> USE DEF Inv, TypeOK, LoopInOrder, CollectsAfresh, ScheduledNotPending, cleanerVars,
            probeVars, loopVars, seriesVars
<1>1. ASSUME NEW t \in Targets, HandleAdd(t) PROVE Goal'
  BY <1>1, LoopValues DEF HandleAdd, AbortDeletion
<1>2. ASSUME NEW t \in Targets, StartScheduler(t) PROVE Goal'
  BY <1>2, LoopValues DEF StartScheduler
<1>3. ASSUME NEW t \in Targets, StopScheduler(t) PROVE Goal'
  BY <1>3, LoopValues DEF StopScheduler
<1>4. ASSUME NEW t \in Targets, MarkForDeletion(t) PROVE Goal'
  BY <1>4, LoopValues DEF MarkForDeletion, Mark
<1>5. ASSUME NEW t \in Targets,
             Enqueue(t) \/ DropInc(t) \/ SchedulerReturns(t) \/ ProbeStart(t) \/ ProbeEnd(t)
      PROVE  Goal'
  BY <1>5 DEF Enqueue, DropInc, SchedulerReturns, ProbeStart, ProbeEnd
<1>6. ASSUME NEW s \in Scrapes, Serve(s) PROVE Goal'
  BY <1>6 DEF Serve
<1>7. ASSUME NEW s \in Scrapes, Collect(s) PROVE Goal'
  <2>1. \A t \in Targets : pendingDeletes'[t] = 0
    BY <1>7 DEF Collect, Expired
  <2>2. CollectsAfresh'
    BY <1>7 DEF Collect
  <2>3. QED BY <1>7, <2>1, <2>2 DEF Collect
<1>8. ASSUME NEW s \in Scrapes, Finish(s) PROVE Goal'
  BY <1>8 DEF Finish
<1>9. ASSUME NEW s \in Scrapes, NEW t \in Targets, Delete(s, t) PROVE Goal'
  BY <1>9 DEF Delete
<1>10. CASE UNCHANGED vars
  BY <1>10 DEF vars
<1>11. QED BY <1>1, <1>2, <1>3, <1>4, <1>5, <1>6, <1>7, <1>8, <1>9, <1>10 DEF Next

\* Whoever gives up a target's series hands them on: the loop to the mark, the
\* mark to the scrape that collects it, the scrape by deleting them.
LEMMA SeriesStep == ASSUME Inv, [Next]_vars PROVE SeriesAccounted'
<1> USE DEF Inv, cleanerVars, probeVars, loopVars, seriesVars
<1> SUFFICES ASSUME NEW u \in Targets, u \in series'
             PROVE  Accounted(u)' \/ u \in late'
  <2>1. TypeOK'
    BY TypeStep
  <2>2. QED BY <2>1 DEF TypeOK, SeriesAccounted
<1>1. ASSUME NEW t \in Targets, HandleAdd(t) PROVE Accounted(u)' \/ u \in late'
  <2>1. CASE u = t
    BY <1>1, <2>1 DEF HandleAdd, Accounted
  <2>2. CASE u # t
    <3>1. Accounted(u) \/ u \in late
      BY <1>1 DEF HandleAdd, SeriesAccounted
    <3>2. pendingDeletes'[u] = pendingDeletes[u]
      BY <1>1, <2>2 DEF HandleAdd, AbortDeletion, TypeOK
    <3>3. QED BY <1>1, <3>1, <3>2, LoopValues DEF HandleAdd, Accounted
  <2>3. QED BY <2>1, <2>2
<1>2. ASSUME NEW t \in Targets, StartScheduler(t) PROVE Accounted(u)' \/ u \in late'
  <2>1. CASE u = t
    BY <1>2, <2>1 DEF StartScheduler, Accounted
  <2>2. CASE u # t
    <3>1. Accounted(u) \/ u \in late
      BY <1>2 DEF StartScheduler, SeriesAccounted
    <3>2. QED BY <1>2, <2>2, <3>1, LoopValues DEF StartScheduler, Accounted
  <2>3. QED BY <2>1, <2>2
<1>3. ASSUME NEW t \in Targets, StopScheduler(t) PROVE Accounted(u)' \/ u \in late'
  <2>1. Accounted(u) \/ u \in late
    BY <1>3 DEF StopScheduler, SeriesAccounted
  <2>2. QED BY <1>3, <2>1, LoopValues DEF StopScheduler, Accounted
<1>4. ASSUME NEW t \in Targets, MarkForDeletion(t) PROVE Accounted(u)' \/ u \in late'
  <2>1. CASE u = t
    <3>1. pendingDeletes'[u] = 1
      BY <1>4, <2>1 DEF MarkForDeletion, Mark, TypeOK
    <3>2. QED BY <3>1 DEF Accounted
  <2>2. CASE u # t
    <3>1. Accounted(u) \/ u \in late
      BY <1>4 DEF MarkForDeletion, SeriesAccounted
    <3>2. pendingDeletes'[u] = pendingDeletes[u]
      BY <1>4, <2>2 DEF MarkForDeletion, Mark, TypeOK
    <3>3. QED BY <1>4, <2>2, <3>1, <3>2, LoopValues DEF MarkForDeletion, Accounted
  <2>3. QED BY <2>1, <2>2
<1>5. ASSUME NEW t \in Targets, Touch(t), UNCHANGED <<loopVars, cleanerVars>>
      PROVE  Accounted(u)' \/ u \in late'
  <2>1. Accounted(u)' <=> Accounted(u)
    BY <1>5 DEF Accounted
  <2>2. CASE u = t
    BY <1>5, <2>1, <2>2 DEF Touch
  <2>3. CASE u # t
    BY <1>5, <2>1, <2>3 DEF Touch, SeriesAccounted
  <2>4. QED BY <2>2, <2>3
<1>6. ASSUME UNCHANGED <<loopVars, cleanerVars, seriesVars>>
      PROVE  Accounted(u)' \/ u \in late'
  BY <1>6 DEF Accounted, SeriesAccounted
<1>7. ASSUME NEW t \in Targets,
             Enqueue(t) \/ DropInc(t) \/ SchedulerReturns(t) \/ ProbeStart(t) \/ ProbeEnd(t)
      PROVE  Accounted(u)' \/ u \in late'
  <2>1. /\ UNCHANGED <<loopVars, cleanerVars>>
        /\ Touch(t) \/ UNCHANGED seriesVars
    BY <1>7 DEF Enqueue, DropInc, SchedulerReturns, ProbeStart, ProbeEnd
  <2>2. QED BY <1>5, <1>6, <2>1
<1>8. ASSUME NEW s \in Scrapes, Serve(s) \/ Finish(s)
      PROVE  Accounted(u)' \/ u \in late'
  BY <1>8 DEF Serve, Finish, Accounted, SeriesAccounted
<1>9. ASSUME NEW s \in Scrapes, Collect(s) PROVE Accounted(u)' \/ u \in late'
  <2>1. Accounted(u) \/ u \in late
    BY <1>9 DEF Collect, SeriesAccounted
  <2>2. CASE pendingDeletes[u] > 0
    <3>1. u \in toDelete'[s]
      BY <1>9, <2>2 DEF Collect, Expired, TypeOK
    <3>2. QED BY <3>1 DEF Accounted
  <2>3. ASSUME NEW z \in Scrapes, u \in toDelete[z] PROVE u \in toDelete'[z]
    BY <1>9, <2>3 DEF Collect, CollectsAfresh, TypeOK
  <2>4. QED BY <1>9, <2>1, <2>2, <2>3 DEF Collect, Accounted
<1>10. ASSUME NEW s \in Scrapes, NEW t \in Targets, Delete(s, t)
       PROVE  Accounted(u)' \/ u \in late'
  <2>1. u # t /\ u \in series
    BY <1>10 DEF Delete
  <2>2. Accounted(u) \/ u \in late
    BY <2>1 DEF SeriesAccounted
  <2>3. ASSUME NEW z \in Scrapes, u \in toDelete[z] PROVE u \in toDelete'[z]
    BY <1>10, <2>1, <2>3 DEF Delete, TypeOK
  <2>4. QED BY <1>10, <2>1, <2>2, <2>3 DEF Delete, Accounted
<1>11. CASE UNCHANGED vars
  BY <1>6, <1>11 DEF vars
<1>12. QED BY <1>1, <1>2, <1>3, <1>4, <1>7, <1>8, <1>9, <1>10, <1>11 DEF Next

\* The strengthened invariant holds in every reachable state.
LEMMA InvHolds == Spec => []Inv
<1>1. Inv /\ [Next]_vars => Inv'
  BY TypeStep, OrderStep, SeriesStep DEF Inv
<1>2. QED BY InitInv, <1>1, PTL DEF Spec

\* Every variable keeps its type: a mark is for one scrape, and the series that
\* were updated late exist.
THEOREM TypeCorrect == Spec => []TypeOK
<1>1. Inv => TypeOK
  BY DEF Inv
<1>2. QED BY InvHolds, <1>1, PTL

\* metrics_cleaner.go:33: no target whose scheduler runs is marked for deletion.
THEOREM ScheduledTargetsUnmarked == Spec => []ScheduledNotPending
<1>1. Inv => ScheduledNotPending
  BY DEF Inv
<1>2. QED BY InvHolds, <1>1, PTL

-----------------------------------------------------------------------------
(* The cleaner and the loop implement DeferredDeletion.                    *)

Scheduled == activeSchedulers \cup InHand
Marked == {t \in Targets : pendingDeletes[t] > 0}

\* The two halves of an add event: the abort is the abstract step.
LEMMA AddMaps ==
  ASSUME Inv, NEW t \in Targets
  PROVE  /\ HandleAdd(t) => Scheduled' = Scheduled \cup {t} /\ Marked' = Marked \ {t}
         /\ StartScheduler(t) => UNCHANGED <<Scheduled, Marked>>
<1>1. ASSUME HandleAdd(t) PROVE Scheduled' = Scheduled \cup {t} /\ Marked' = Marked \ {t}
  <2>1. InHand = {} /\ InHand' = {t}
    BY <1>1, LoopValues DEF HandleAdd, InHand
  <2>2. Marked' = Marked \ {t}
    BY <1>1 DEF HandleAdd, AbortDeletion, Marked, Inv, TypeOK
  <2>3. QED BY <1>1, <2>1, <2>2 DEF HandleAdd, Scheduled
<1>2. ASSUME StartScheduler(t) PROVE UNCHANGED <<Scheduled, Marked>>
  <2>1. InHand = {t} /\ InHand' = {}
    BY <1>2, LoopValues DEF StartScheduler, InHand
  <2>2. QED BY <1>2, <2>1 DEF StartScheduler, Scheduled, Marked, cleanerVars
<1>3. QED BY <1>1, <1>2

\* The two halves of a removal event: the mark is the abstract step.
LEMMA RemovalMaps ==
  ASSUME Inv, NEW t \in Targets
  PROVE  /\ StopScheduler(t) => UNCHANGED <<Scheduled, Marked>>
         /\ MarkForDeletion(t) => /\ t \in Scheduled
                                  /\ Scheduled' = Scheduled \ {t}
                                  /\ Marked' = Marked \cup {t}
<1>1. ASSUME StopScheduler(t) PROVE UNCHANGED <<Scheduled, Marked>>
  <2>1. InHand = {} /\ InHand' = {t}
    BY <1>1, LoopValues DEF StopScheduler, InHand
  <2>2. QED BY <1>1, <2>1 DEF StopScheduler, Scheduled, Marked, cleanerVars
<1>2. ASSUME MarkForDeletion(t)
      PROVE  t \in Scheduled /\ Scheduled' = Scheduled \ {t} /\ Marked' = Marked \cup {t}
  <2>1. InHand = {t} /\ InHand' = {}
    BY <1>2, LoopValues DEF MarkForDeletion, InHand
  <2>2. t \notin activeSchedulers
    BY <1>2 DEF MarkForDeletion, Inv, LoopInOrder
  <2>3. Marked' = Marked \cup {t}
    BY <1>2 DEF MarkForDeletion, Mark, Marked, Inv, TypeOK
  <2>4. QED BY <1>2, <2>1, <2>2, <2>3 DEF MarkForDeletion, Scheduled
<1>3. QED BY <1>1, <1>2

\* A scrape takes the marks when it collects; all its other steps, and those of
\* the probes, are invisible.
LEMMA ScrapeMaps ==
  ASSUME Inv, NEW s \in Scrapes, Collect(s)
  PROVE  Marked' = {} /\ UNCHANGED Scheduled
BY DEF Collect, Expired, Marked, Scheduled, InHand, loopVars, Inv, TypeOK

\* Every step of the cleaner, the loop and the probes is a step of the abstract
\* specification or invisible to it.
LEMMA DeletionStep ==
  ASSUME Inv, [Next]_vars
  PROVE  [Deletion!Next]_(Deletion!vars)
<1> USE DEF Deletion!vars, Deletion!Next, Scheduled, Marked
<1>1. ASSUME NEW t \in Targets,
             HandleAdd(t) \/ StartScheduler(t) \/ StopScheduler(t) \/ MarkForDeletion(t)
      PROVE  [Deletion!Next]_(Deletion!vars)
  <2>1. CASE HandleAdd(t)
    BY <2>1, AddMaps DEF Deletion!HandleAdd
  <2>2. CASE StartScheduler(t) \/ StopScheduler(t)
    BY <2>2, AddMaps, RemovalMaps
  <2>3. CASE MarkForDeletion(t)
    BY <2>3, RemovalMaps DEF Deletion!HandleRemoval
  <2>4. QED BY <1>1, <2>1, <2>2, <2>3
<1>2. ASSUME NEW s \in Scrapes, Collect(s) PROVE [Deletion!Next]_(Deletion!vars)
  BY <1>2, ScrapeMaps DEF Deletion!Scrape
<1>3. CASE UNCHANGED <<activeSchedulers, loop, pendingDeletes>>
  BY <1>3 DEF InHand
<1>4. \/ \E t \in Targets :
           HandleAdd(t) \/ StartScheduler(t) \/ StopScheduler(t) \/ MarkForDeletion(t)
      \/ \E s \in Scrapes : Collect(s)
      \/ UNCHANGED <<activeSchedulers, loop, pendingDeletes>>
  BY DEF Next, vars, loopVars, cleanerVars, Enqueue, DropInc, SchedulerReturns, ProbeStart,
         ProbeEnd, Serve, Finish, Delete
<1>5. QED BY <1>1, <1>2, <1>3, <1>4

\* metrics_cleaner.go and the loop, in their many steps, implement the marks'
\* specification, in which handling an event and a scrape are one step each.
THEOREM ImplementsDeferredDeletion == Spec => ImplementsDeletion
<1>1. Init => Deletion!Init
  BY DEF Init, Deletion!Init, InHand
<1>2. QED BY <1>1, InvHolds, DeletionStep, PTL DEF Spec, ImplementsDeletion, Deletion!Spec

-----------------------------------------------------------------------------
\* metrics.go:114: whatever scrapes overlap, the series of a target are those of
\* a target that runs, are bound to be deleted, or were updated late.
THEOREM NoSeriesForgotten == Spec => []SeriesAccounted
<1>1. Inv => SeriesAccounted
  BY DEF Inv
<1>2. QED BY InvHolds, <1>1, PTL
=============================================================================
