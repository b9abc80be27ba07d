------------------------------ MODULE Shutdown ------------------------------
(***************************************************************************)
(* Graceful termination (main.go:200-230): the order in which main waits   *)
(* for and closes things, against everything that runs meanwhile: the      *)
(* informers' goroutines that still owe events, the event loop that starts *)
(* and stops schedulers, the schedulers that send jobs, the workers.       *)
(*                                                                         *)
(* A send on a closed channel panics.  In a select it counts as ready, so  *)
(* Go may choose it although ctx.Done() is ready too.                      *)
(*                                                                         *)
(* Data abstraction: a job is one of a number of jobs, and which addresses *)
(* the registry would add or remove is arbitrary (Registry says which).    *)
(***************************************************************************)
EXTENDS Naturals, Sequences

CONSTANTS
  Targets,      \* target addresses
  Handlers,     \* goroutines that send on registry.Events
  Grouped,      \* those of them that belong to informerGroup
  Workers,      \* goroutines of the worker pool
  EventsCap,    \* capacity of registry.Events
  QueueSize,    \* capacity of jobs
  MaxLeaving    \* bound: cancelled schedulers that have not returned

ASSUME ShutdownAssumption ==
  /\ Grouped \subseteq Handlers
  /\ EventsCap \in Nat \ {0}
  /\ QueueSize \in Nat \ {0}
  /\ MaxLeaving \in Nat

VARIABLES
  ctxDone,       \* SIGTERM was received: every context is cancelled
  main,          \* where main is, see Steps
  owed,          \* owed[h]: events goroutine h has still to send
  last,          \* goroutines that began an operation after SIGTERM
  Events,        \* registry.Events
  eventsClosed,
  loopDone,      \* the event loop returned
  scheduled,     \* activeSchedulers: targets with an entry in the map
  running,       \* targets whose entry's scheduler has not returned
  leaving,       \* number of stopped schedulers that have not returned
  early,         \* history: those of running that started before schedulerWG.Wait
                 \* returned
  earlyLeaving,  \* history: how many of leaving started before that
  jobs,          \* number of queued jobs
  jobsClosed,
  worker,        \* worker[w]: "idle", "probing" or "exited"
  panicked       \* the process died of a send on a closed channel

eventVars == <<owed, last, Events, eventsClosed, loopDone>>
schedulerVars == <<scheduled, running, leaving, early, earlyLeaving>>
jobVars == <<jobs, jobsClosed>>
vars == <<ctxDone, main, eventVars, schedulerVars, jobVars, worker, panicked>>

Steps == {"serve", "waitSchedulers", "waitInformers", "waitLoop", "waitWorkers",
          "shutdownServer", "goodbye"}

Event == [Address : Targets, IsAdded : BOOLEAN]

Init ==
  /\ ctxDone = FALSE
  /\ main = "serve"
  /\ owed = [h \in Handlers |-> {}]
  /\ last = {}
  /\ Events = << >>
  /\ eventsClosed = FALSE
  /\ loopDone = FALSE
  /\ scheduled = {}
  /\ running = {}
  /\ leaving = 0
  /\ early = {}
  /\ earlyLeaving = 0
  /\ jobs = 0
  /\ jobsClosed = FALSE
  /\ worker = [w \in Workers |-> "idle"]
  /\ panicked = FALSE

-----------------------------------------------------------------------------
(* SIGTERM and main.                                                       *)

Cancel ==
  /\ ~ctxDone
  /\ ctxDone' = TRUE
  /\ UNCHANGED <<main, eventVars, schedulerVars, jobVars, worker, panicked>>

\* main cancels the schedulers' contexts, which derive from ctx: no effect.
CancelSchedulers ==
  /\ main = "serve"
  /\ ctxDone
  /\ main' = "waitSchedulers"
  /\ UNCHANGED <<ctxDone, eventVars, schedulerVars, jobVars, worker, panicked>>

\* Mutant of SchedulersGone: main does not wait for the schedulers.
SchedulersGone_NoWait ==
  /\ main = "waitSchedulers"
  /\ main' = "waitInformers"
  /\ UNCHANGED <<ctxDone, eventVars, schedulerVars, jobVars, worker, panicked>>

\* schedulerWG.Wait() returns when the counter is 0, now.
SchedulersGone ==
  /\ main = "waitSchedulers"
  /\ running = {} /\ leaving = 0
  /\ main' = "waitInformers"
  /\ UNCHANGED <<ctxDone, eventVars, schedulerVars, jobVars, worker, panicked>>

\* Mutant of CloseEvents: main waits for the loop before it closes Events.
CloseEvents_AfterLoop ==
  /\ main = "waitInformers"
  /\ \A h \in Grouped : owed[h] = {}
  /\ loopDone
  /\ main' = "waitLoop"
  /\ eventsClosed' = TRUE
  /\ UNCHANGED <<ctxDone, owed, last, Events, loopDone, schedulerVars, jobVars, worker,
                 panicked>>

\* informerGroup.Wait() returns, and main closes Events.
CloseEvents ==
  /\ main = "waitInformers"
  /\ \A h \in Grouped : owed[h] = {}
  /\ main' = "waitLoop"
  /\ eventsClosed' = TRUE
  /\ UNCHANGED <<ctxDone, owed, last, Events, loopDone, schedulerVars, jobVars, worker,
                 panicked>>

\* Mutant of CloseJobs: main does not wait for the event loop.
CloseJobs_NoWait ==
  /\ main = "waitLoop"
  /\ main' = "waitWorkers"
  /\ jobsClosed' = TRUE
  /\ UNCHANGED <<ctxDone, eventVars, schedulerVars, jobs, worker, panicked>>

\* The event loop is done, and main closes jobs.
CloseJobs ==
  /\ main = "waitLoop"
  /\ loopDone
  /\ main' = "waitWorkers"
  /\ jobsClosed' = TRUE
  /\ UNCHANGED <<ctxDone, eventVars, schedulerVars, jobs, worker, panicked>>

AllWorkersGone == \A w \in Workers : worker[w] = "exited"

\* workerWG.Wait() returns.
WorkersGone ==
  /\ main = "waitWorkers"
  /\ AllWorkersGone
  /\ main' = "shutdownServer"
  /\ UNCHANGED <<ctxDone, eventVars, schedulerVars, jobVars, worker, panicked>>

\* srv.Shutdown returns, within its 5 s, and main does.
Goodbye ==
  /\ main = "shutdownServer"
  /\ main' = "goodbye"
  /\ UNCHANGED <<ctxDone, eventVars, schedulerVars, jobVars, worker, panicked>>

Main ==
  \/ CancelSchedulers \/ SchedulersGone \/ CloseEvents \/ CloseJobs
  \/ WorkersGone \/ Goodbye

-----------------------------------------------------------------------------
(* Goroutines of the informers.                                            *)

\* An operation of the registry ends its critical section.  A notification may
\* still be delivered after SIGTERM (bound: one); a member of informerGroup has
\* returned when the channel is closed.
Collect(h, events) ==
  /\ owed[h] = {}
  /\ h \notin last
  /\ h \in Grouped => ~eventsClosed
  /\ owed' = [owed EXCEPT ![h] = events]
  /\ last' = IF ctxDone THEN last \cup {h} ELSE last
  /\ UNCHANGED <<ctxDone, main, Events, eventsClosed, loopDone, schedulerVars, jobVars,
                 worker, panicked>>

\* Mutant of HasRoom: one event more than the buffer holds.
HasRoom_OffByOne == Len(Events) <= EventsCap

HasRoom == Len(Events) < EventsCap

\* emitEvent may return without sending: at shutdown, or an add on a channel
\* that stayed full for 100 ms.
MayGiveUp(e) == ctxDone \/ (e.IsAdded /\ ~HasRoom)

emitEvent(h, e) ==
  /\ e \in owed[h]
  /\ owed' = [owed EXCEPT ![h] = @ \ {e}]
  /\ \/ /\ ~eventsClosed
        /\ HasRoom
        /\ Events' = Append(Events, e)
        /\ UNCHANGED panicked
     \/ /\ MayGiveUp(e)
        /\ UNCHANGED <<Events, panicked>>
     \/ /\ eventsClosed
        /\ panicked' = TRUE
        /\ UNCHANGED Events
  /\ UNCHANGED <<ctxDone, main, last, eventsClosed, loopDone, schedulerVars, jobVars,
                 worker>>

-----------------------------------------------------------------------------
(* The event loop.                                                         *)

\* Where main is until schedulerWG.Wait() has returned.
BeforeWait == {"serve", "waitSchedulers"}

StartScheduler(t) ==
  /\ t \notin scheduled
  /\ scheduled' = scheduled \cup {t}
  /\ running' = running \cup {t}
  /\ early' = IF main \in BeforeWait THEN early \cup {t} ELSE early
  /\ UNCHANGED <<leaving, earlyLeaving>>

StopScheduler(t) ==
  /\ t \in scheduled
  /\ scheduled' = scheduled \ {t}
  /\ running' = running \ {t}
  /\ early' = early \ {t}
  /\ leaving' = IF t \in running THEN leaving + 1 ELSE leaving
  /\ earlyLeaving' = IF t \in early THEN earlyLeaving + 1 ELSE earlyLeaving

\* A duplicate add or the removal of an unknown target.
IgnoreEvent(e) ==
  /\ e.IsAdded <=> e.Address \in scheduled
  /\ UNCHANGED <<schedulerVars>>

HandleEvent ==
  /\ Events # << >>
  /\ leaving < MaxLeaving
  /\ Events' = Tail(Events)
  /\ LET e == Head(Events)
     IN \/ e.IsAdded /\ StartScheduler(e.Address)
        \/ ~e.IsAdded /\ StopScheduler(e.Address)
        \/ IgnoreEvent(e)
  /\ UNCHANGED <<ctxDone, main, owed, last, eventsClosed, loopDone, jobVars, worker,
                 panicked>>

\* The range over Events ends when the channel is closed and empty.
LoopReturns ==
  /\ ~loopDone
  /\ eventsClosed
  /\ Events = << >>
  /\ loopDone' = TRUE
  /\ UNCHANGED <<ctxDone, main, owed, last, Events, eventsClosed, schedulerVars, jobVars,
                 worker, panicked>>

-----------------------------------------------------------------------------
(* Schedulers.                                                             *)

\* enqueue: the job is sent, or dropped, or the send panics.
Enqueue ==
  /\ running # {} \/ leaving > 0
  /\ \/ ~jobsClosed /\ jobs < QueueSize /\ jobs' = jobs + 1 /\ UNCHANGED panicked
     \/ jobsClosed /\ panicked' = TRUE /\ UNCHANGED jobs
  /\ UNCHANGED <<ctxDone, main, eventVars, schedulerVars, jobsClosed, worker>>

\* A scheduler whose context is cancelled returns: one that has its entry in the
\* map, or one of those stopped before, early or not.
SchedulerReturns ==
  /\ \/ \E t \in running :
          /\ ctxDone
          /\ running' = running \ {t}
          /\ early' = early \ {t}
          /\ UNCHANGED <<leaving, earlyLeaving>>
     \/ /\ leaving > 0
        /\ leaving' = leaving - 1
        /\ \/ leaving > earlyLeaving /\ UNCHANGED earlyLeaving
           \/ earlyLeaving > 0 /\ earlyLeaving' = earlyLeaving - 1
        /\ UNCHANGED <<running, early>>
  /\ UNCHANGED <<ctxDone, main, eventVars, scheduled, jobVars, worker, panicked>>

-----------------------------------------------------------------------------
(* Workers.                                                                *)

TakeJob(w) ==
  /\ worker[w] = "idle"
  /\ jobs > 0
  /\ jobs' = jobs - 1
  /\ worker' = [worker EXCEPT ![w] = "probing"]
  /\ UNCHANGED <<ctxDone, main, eventVars, schedulerVars, jobsClosed, panicked>>

\* The probe's context derives from ctx and has a timeout.
ProbeEnds(w) ==
  /\ worker[w] = "probing"
  /\ worker' = [worker EXCEPT ![w] = "idle"]
  /\ UNCHANGED <<ctxDone, main, eventVars, schedulerVars, jobVars, panicked>>

MayExit == ctxDone \/ (jobsClosed /\ jobs = 0)

WorkerExits(w) ==
  /\ worker[w] = "idle"
  /\ MayExit
  /\ worker' = [worker EXCEPT ![w] = "exited"]
  /\ UNCHANGED <<ctxDone, main, eventVars, schedulerVars, jobVars, panicked>>

-----------------------------------------------------------------------------
OnePerAddress(events) == \A e, f \in events : e.Address = f.Address => e = f

\* The process is over when main returns or a goroutine panics.
Next ==
  /\ main # "goodbye" /\ ~panicked
  /\ \/ Cancel
     \/ Main
     \/ \E h \in Handlers, events \in SUBSET Event :
          OnePerAddress(events) /\ Collect(h, events)
     \/ \E h \in Handlers : \E e \in owed[h] : emitEvent(h, e)
     \/ HandleEvent
     \/ LoopReturns
     \/ Enqueue
     \/ SchedulerReturns
     \/ \E w \in Workers : TakeJob(w) \/ ProbeEnds(w) \/ WorkerExits(w)

Spec == Init /\ [][Next]_vars

\* Every goroutine runs: main, the loop, a sender (after SIGTERM its select is
\* always ready), a cancelled scheduler, a worker; a probe has a timeout.
\* SIGTERM itself is not assumed.
FairSpec ==
  /\ Spec
  /\ WF_vars(Next /\ Main)
  /\ WF_vars(Next /\ (HandleEvent \/ LoopReturns))
  /\ \A h \in Handlers : WF_vars(Next /\ \E e \in owed[h] : emitEvent(h, e))
  /\ WF_vars(Next /\ SchedulerReturns)
  /\ \A w \in Workers : WF_vars(Next /\ (ProbeEnds(w) \/ WorkerExits(w)))

-----------------------------------------------------------------------------
\* Type invariant.
TypeOK ==
  /\ ctxDone \in BOOLEAN
  /\ main \in Steps
  /\ owed \in [Handlers -> SUBSET Event]
  /\ last \in SUBSET Handlers
  /\ Events \in Seq(Event) /\ Len(Events) <= EventsCap
  /\ eventsClosed \in BOOLEAN
  /\ loopDone \in BOOLEAN
  /\ scheduled \in SUBSET Targets
  /\ running \in SUBSET scheduled
  /\ leaving \in 0 .. MaxLeaving
  /\ early \in SUBSET running
  /\ earlyLeaving \in 0 .. leaving
  /\ jobs \in 0 .. QueueSize
  /\ jobsClosed \in BOOLEAN
  /\ worker \in [Workers -> {"idle", "probing", "exited"}]
  /\ panicked \in BOOLEAN

\* ADR 0007: after SIGTERM the process ends, whatever is queued, full, blocked
\* or in flight; no goroutine waits for another for ever.
SigtermEnds == ctxDone ~> (main = "goodbye" \/ panicked)

\* main.go:219: the loop handled every event that entered the channel before
\* jobs is closed, so no scheduler starts after that.
NothingStartsLate ==
  [][jobsClosed => running' \subseteq running /\ scheduled' = scheduled]_vars

\* main.go:211 waits for the schedulers and main.go:214 for informerGroup, "Wait
\* for informers to fully stop, then close registry": what main waited for never
\* sends on a channel that main closed.  The process dies of such a send only
\* after SIGTERM, and then in a goroutine outside informerGroup that was still
\* delivering a notification when Events was closed, or in a scheduler that the
\* loop started from the backlog after schedulerWG.Wait had returned: every
\* scheduler started before that has returned when jobs is closed.
OnlyStragglersPanic ==
  [][panicked' /\ ~panicked =>
       /\ ctxDone
       /\ \/ eventsClosed /\ \E h \in Handlers \ Grouped : owed'[h] # owed[h]
          \/ /\ jobsClosed
             /\ early = {} /\ earlyLeaving = 0
             /\ running # {} \/ leaving > 0]_vars

-----------------------------------------------------------------------------
(* What the repository says and the code does not guarantee.               *)

\* ROADMAP.md:48, "close jobs strictly after all schedulers terminate".
JobsClosedAfterSchedulers == jobsClosed => running = {} /\ leaving = 0
=============================================================================
