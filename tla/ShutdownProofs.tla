--------------------------- MODULE ShutdownProofs ---------------------------
(***************************************************************************)
(* Proofs about Shutdown, for any goroutines, workers and capacities.      *)
(***************************************************************************)
EXTENDS Shutdown, TLAPS

-----------------------------------------------------------------------------
\* What main has waited for when it closes a channel.
LoopDoneIsFinal == loopDone => eventsClosed /\ Events = << >>
JobsClosedAfterLoop == jobsClosed => loopDone

\* main leaves its first step at SIGTERM only, and closes Events when the members
\* of informerGroup have nothing left to send.
EventsClosedAfterGroup ==
  eventsClosed => ctxDone /\ \A h \in Grouped : owed[h] = {}
MainAfterSigterm == main # "serve" => ctxDone

\* When schedulerWG.Wait has returned no scheduler is left that started before,
\* and main closes Events, and then jobs, only after that.
EarlySchedulersGone == main \notin BeforeWait => early = {} /\ earlyLeaving = 0
EventsClosedAfterSchedulers == eventsClosed => main \notin BeforeWait

Inv ==
  /\ TypeOK
  /\ LoopDoneIsFinal
  /\ JobsClosedAfterLoop
  /\ EventsClosedAfterGroup
  /\ MainAfterSigterm
  /\ EarlySchedulersGone
  /\ EventsClosedAfterSchedulers

\* The initial state.
LEMMA InitInv == Init => Inv
<1> SUFFICES ASSUME Init PROVE Inv
  OBVIOUS
<1>1. Events \in Seq(Event) /\ Len(Events) <= EventsCap
  BY ShutdownAssumption DEF Init
<1>2. jobs \in 0 .. QueueSize /\ leaving \in 0 .. MaxLeaving /\ earlyLeaving \in 0 .. leaving
  BY ShutdownAssumption DEF Init
<1>3. TypeOK
  BY <1>1, <1>2 DEF Init, TypeOK, Steps
<1>4. QED BY <1>3 DEF Init, Inv, LoopDoneIsFinal, JobsClosedAfterLoop,
                      EventsClosedAfterGroup, MainAfterSigterm, EarlySchedulersGone,
                      EventsClosedAfterSchedulers

\* The steps of main (main.go:200-230).
LEMMA MainStep == ASSUME Inv, Main PROVE Inv'
<1> USE DEF Inv, LoopDoneIsFinal, JobsClosedAfterLoop,
           EventsClosedAfterGroup, MainAfterSigterm, EarlySchedulersGone,
           EventsClosedAfterSchedulers, BeforeWait, eventVars, schedulerVars, jobVars
<1>1. CASE CancelSchedulers
  BY <1>1 DEF CancelSchedulers, TypeOK, Steps
<1>2. CASE SchedulersGone
  BY <1>2 DEF SchedulersGone, TypeOK, Steps
<1>3. CASE CloseEvents
  BY <1>3 DEF CloseEvents, TypeOK, Steps
<1>4. CASE CloseJobs
  BY <1>4 DEF CloseJobs, TypeOK, Steps
<1>5. CASE WorkersGone
  BY <1>5 DEF WorkersGone, TypeOK, Steps
<1>6. CASE Goodbye
  BY <1>6 DEF Goodbye, TypeOK, Steps
<1>7. QED BY <1>1, <1>2, <1>3, <1>4, <1>5, <1>6 DEF Main

\* The steps of the informers' goroutines: what they owe, and emitEvent.
LEMMA SenderStep ==
  ASSUME Inv, NEW h \in Handlers,
         \/ \E events \in SUBSET Event : Collect(h, events)
         \/ \E e \in owed[h] : emitEvent(h, e)
  PROVE  Inv'
<1> USE DEF Inv, LoopDoneIsFinal, JobsClosedAfterLoop,
           EventsClosedAfterGroup, MainAfterSigterm, EarlySchedulersGone,
           EventsClosedAfterSchedulers, BeforeWait, schedulerVars, jobVars
<1>1. ASSUME NEW events \in SUBSET Event, Collect(h, events) PROVE Inv'
  BY <1>1 DEF Collect, TypeOK
<1>2. ASSUME NEW e \in owed[h], emitEvent(h, e) PROVE Inv'
  <2>1. e \in Event /\ owed' \in [Handlers -> SUBSET Event]
    BY <1>2 DEF emitEvent, TypeOK
  <2>2. Events' \in Seq(Event) /\ Len(Events') <= EventsCap
    <3>1. Events \in Seq(Event) /\ Len(Events) <= EventsCap /\ EventsCap \in Nat
      BY ShutdownAssumption DEF TypeOK
    <3>2. CASE HasRoom /\ Events' = Append(Events, e)
      <4>1. Events' \in Seq(Event) /\ Len(Events') = Len(Events) + 1
        BY <2>1, <3>1, <3>2
      <4>2. QED BY <3>1, <3>2, <4>1 DEF HasRoom
    <3>3. CASE Events' = Events
      BY <3>1, <3>3
    <3>4. QED BY <1>2, <3>2, <3>3 DEF emitEvent
  <2>3. panicked' \in BOOLEAN
    BY <1>2 DEF emitEvent, TypeOK
  <2>4. LoopDoneIsFinal'
    BY <1>2 DEF emitEvent
  <2>5. EventsClosedAfterGroup'
    BY <1>2 DEF emitEvent, TypeOK
  <2>6. TypeOK'
    BY <1>2, <2>1, <2>2, <2>3 DEF emitEvent, TypeOK
  <2>7. QED BY <1>2, <2>4, <2>5, <2>6 DEF emitEvent
<1>3. QED BY <1>1, <1>2

\* The steps of the event loop.
LEMMA LoopStep == ASSUME Inv, HandleEvent \/ LoopReturns PROVE Inv'
<1> USE DEF Inv, LoopDoneIsFinal, JobsClosedAfterLoop,
           EventsClosedAfterGroup, MainAfterSigterm, EarlySchedulersGone,
           EventsClosedAfterSchedulers, BeforeWait, schedulerVars, jobVars
<1>1. CASE HandleEvent
  <2>1. Head(Events) \in Event /\ Events' \in Seq(Event) /\ Len(Events') <= EventsCap
    BY <1>1, ShutdownAssumption DEF HandleEvent, TypeOK
  <2>2. Head(Events).Address \in Targets
    BY <2>1 DEF Event
  <2>3. /\ scheduled' \in SUBSET Targets
        /\ running' \in SUBSET scheduled'
        /\ leaving' \in 0 .. MaxLeaving
    BY <1>1, <2>2, ShutdownAssumption
    DEF HandleEvent, StartScheduler, StopScheduler, IgnoreEvent, TypeOK
  <2>4. early' \in SUBSET running' /\ earlyLeaving' \in 0 .. leaving'
    BY <1>1, <2>2, ShutdownAssumption
    DEF HandleEvent, StartScheduler, StopScheduler, IgnoreEvent, TypeOK
  <2>5. EarlySchedulersGone'
    BY <1>1 DEF HandleEvent, StartScheduler, StopScheduler, IgnoreEvent
  <2>6. QED BY <1>1, <2>1, <2>3, <2>4, <2>5 DEF HandleEvent, TypeOK
<1>2. CASE LoopReturns
  BY <1>2 DEF LoopReturns, TypeOK
<1>3. QED BY <1>1, <1>2

\* SIGTERM, the schedulers and the workers: none of them touches what main has
\* closed, and a worker that has exited does nothing more.
LEMMA OtherStep ==
  ASSUME Inv,
         \/ Cancel \/ Enqueue \/ SchedulerReturns
         \/ \E w \in Workers : TakeJob(w) \/ ProbeEnds(w) \/ WorkerExits(w)
  PROVE  Inv'
<1> USE DEF Inv, LoopDoneIsFinal, JobsClosedAfterLoop,
           EventsClosedAfterGroup, MainAfterSigterm, EarlySchedulersGone,
           EventsClosedAfterSchedulers, BeforeWait, eventVars, schedulerVars, jobVars
<1>1. CASE Cancel
  BY <1>1 DEF Cancel, TypeOK
<1>2. CASE Enqueue
  <2>1. jobs' \in 0 .. QueueSize
    BY <1>2, ShutdownAssumption DEF Enqueue, TypeOK
  <2>2. panicked' \in BOOLEAN
    BY <1>2 DEF Enqueue, TypeOK
  <2>3. UNCHANGED <<ctxDone, main, eventVars, schedulerVars, jobsClosed, worker>>
    BY <1>2 DEF Enqueue
  <2>4. QED BY <2>1, <2>2, <2>3 DEF TypeOK
<1>3. CASE SchedulerReturns
  BY <1>3, ShutdownAssumption DEF SchedulerReturns, TypeOK
<1>4. ASSUME NEW w \in Workers, TakeJob(w) PROVE Inv'
  BY <1>4, ShutdownAssumption DEF TakeJob, TypeOK
<1>5. ASSUME NEW w \in Workers, ProbeEnds(w) PROVE Inv'
  BY <1>5 DEF ProbeEnds, TypeOK
<1>6. ASSUME NEW w \in Workers, WorkerExits(w) PROVE Inv'
  BY <1>6 DEF WorkerExits, TypeOK
<1>7. QED BY <1>1, <1>2, <1>3, <1>4, <1>5, <1>6

\* The strengthened invariant holds in every reachable state.
LEMMA InvHolds == Spec => []Inv
<1>1. ASSUME Inv, [Next]_vars PROVE Inv'
  <2>1. CASE UNCHANGED vars
    BY <1>1, <2>1
    DEF Inv, vars, eventVars, schedulerVars, jobVars, TypeOK,
        LoopDoneIsFinal, JobsClosedAfterLoop, EventsClosedAfterGroup, MainAfterSigterm,
        EarlySchedulersGone, EventsClosedAfterSchedulers
  <2>2. CASE Next
    BY <1>1, <2>2, MainStep, SenderStep, LoopStep, OtherStep DEF Next
  <2>3. QED BY <1>1, <2>1, <2>2
<1>2. QED BY InitInv, <1>1, PTL DEF Spec

\* Every variable keeps its type; neither channel holds more than its capacity.
THEOREM TypeCorrect == Spec => []TypeOK
<1>1. Inv => TypeOK
  BY DEF Inv
<1>2. QED BY InvHolds, <1>1, PTL

\* main.go:219: when jobs is closed the event loop has handled all events, so the
\* schedulers can only become fewer.
THEOREM NoSchedulerStartsLate == Spec => NothingStartsLate
<1>1. ASSUME Inv, Next, jobsClosed
      PROVE  running' \subseteq running /\ scheduled' = scheduled
  <2>1. Events = << >> /\ loopDone
    BY <1>1 DEF Inv, JobsClosedAfterLoop, LoopDoneIsFinal
  <2>2. ~HandleEvent
    BY <2>1 DEF HandleEvent
  <2>3. CASE Main
    BY <2>3 DEF Main, CancelSchedulers, SchedulersGone, CloseEvents, CloseJobs, WorkersGone,
                Goodbye, schedulerVars
  <2>4. CASE SchedulerReturns
    BY <2>4 DEF SchedulerReturns
  <2>5. CASE UNCHANGED schedulerVars
    BY <2>5 DEF schedulerVars
  <2>6. Main \/ SchedulerReturns \/ UNCHANGED schedulerVars
    BY <1>1, <2>2 DEF Next, Cancel, Collect, emitEvent, LoopReturns, Enqueue, TakeJob,
                      ProbeEnds, WorkerExits
  <2>7. QED BY <2>3, <2>4, <2>5, <2>6
<1>2. Inv /\ [Next]_vars =>
        [jobsClosed => running' \subseteq running /\ scheduled' = scheduled]_vars
  BY <1>1
<1>3. QED BY InvHolds, <1>2, PTL DEF Spec, NothingStartsLate

\* main.go:211 and 214: a send on a closed channel is one of a goroutine outside
\* informerGroup, or of a scheduler that started after schedulerWG.Wait returned;
\* every scheduler that started before has returned when jobs is closed.
THEOREM WaitedForNeverPanic == Spec => OnlyStragglersPanic
<1> DEFINE Straggler ==
             /\ ctxDone
             /\ \/ eventsClosed /\ \E h \in Handlers \ Grouped : owed'[h] # owed[h]
                \/ /\ jobsClosed
                   /\ early = {} /\ earlyLeaving = 0
                   /\ running # {} \/ leaving > 0
<1>1. ASSUME Inv, Next, panicked', ~panicked
      PROVE  Straggler
  <2>1. CASE Enqueue
    <3>1. jobsClosed /\ (running # {} \/ leaving > 0)
      BY <1>1, <2>1 DEF Enqueue
    <3>2. ctxDone
      BY <1>1, <3>1
      DEF Inv, JobsClosedAfterLoop, LoopDoneIsFinal, EventsClosedAfterGroup
    <3>3. early = {} /\ earlyLeaving = 0
      BY <1>1, <3>1
      DEF Inv, JobsClosedAfterLoop, LoopDoneIsFinal, EventsClosedAfterSchedulers,
          EarlySchedulersGone
    <3>4. QED BY <3>1, <3>2, <3>3
  <2>2. ASSUME NEW h \in Handlers, NEW e \in owed[h], emitEvent(h, e)
        PROVE  Straggler
    <3>1. eventsClosed
      BY <1>1, <2>2 DEF emitEvent
    <3>2. ctxDone /\ h \notin Grouped
      BY <1>1, <2>2, <3>1 DEF Inv, EventsClosedAfterGroup
    <3>3. owed'[h] = owed[h] \ {e}
      BY <1>1, <2>2 DEF emitEvent, Inv, TypeOK
    <3>4. QED BY <2>2, <3>1, <3>2, <3>3
  <2>3. CASE UNCHANGED panicked
    BY <1>1, <2>3
  <2>4. \/ Enqueue
        \/ \E h \in Handlers : \E e \in owed[h] : emitEvent(h, e)
        \/ UNCHANGED panicked
    BY <1>1 DEF Next, Cancel, Main, CancelSchedulers, SchedulersGone, CloseEvents, CloseJobs,
                WorkersGone, Goodbye, Collect, HandleEvent, LoopReturns, SchedulerReturns,
                TakeJob, ProbeEnds, WorkerExits
  <2>5. QED BY <2>1, <2>2, <2>3, <2>4
<1>2. Inv /\ [Next]_vars => [panicked' /\ ~panicked => Straggler]_vars
  BY <1>1
<1>3. QED BY InvHolds, <1>2, PTL DEF Spec, OnlyStragglersPanic
=============================================================================
