------------------------------ MODULE Pipeline ------------------------------
(***************************************************************************)
(* The way of a probe (pkg/prober/worker.go, dispatcher.go): one scheduler *)
(* per target feeds a bounded queue of jobs, a fixed pool of workers takes *)
(* them, a semaphore bounds the probes on the network, and every attempt   *)
(* ends up in the metrics.  Targets that hang share all of this with       *)
(* targets that answer.                                                    *)
(*                                                                         *)
(* Time is abstracted: the timer of a probe may fire when the target hangs,*)
(* when the probe waited for a token, which may take any part of its       *)
(* timeout, or when the timeout is not positive.                           *)
(***************************************************************************)
EXTENDS Probers, Integers, Sequences, FiniteSets

CONSTANTS
  Targets,              \* target addresses
  Deployments,          \* the environments and fleets to start with
  Unset,                \* a variable that is empty or not a number; no target
  DefaultWorkers,       \* 50 in the code
  DefaultQueueSize,     \* 10000
  DefaultTimeout,       \* 5
  DefaultInterval,      \* 2
  MaxWorkers,           \* bound: goroutines of the pool
  MaxTicks              \* bound: attempts of one target

Workers == 1 .. MaxWorkers

Variables ==
  {"WORKERS", "QUEUE_SIZE", "MAX_CONCURRENT_PROBES", "PROBE_TIMEOUT_SECONDS",
   "PROBE_INTERVAL_SECONDS"}

\* A Target: its Scheme, the scheme url.Parse finds in its Address, whether the
\* Address does not parse at all, the flag.
Target == [scheme : STRING, addressScheme : STRING, malformed : BOOLEAN,
           insecureSkipVerify : BOOLEAN]

ASSUME PipelineAssumption ==
  /\ Deployments \subseteq [environ : [Variables -> Int \cup {Unset}], fleet : [Targets -> Target]]
  /\ {DefaultWorkers, DefaultQueueSize, DefaultTimeout, DefaultInterval} \subseteq Nat \ {0}
  /\ MaxWorkers \in Nat /\ MaxTicks \in Nat
  /\ Unset \notin Int \cup Targets

VARIABLES
  environ,     \* the process's environment
  fleet,       \* fleet[t]: the Target t stands for
  ctxDone,     \* SIGTERM was received
  panicked,    \* the process died
  scheduler,   \* scheduler[t]: "new", "waiting" for a tick, "due", "dropping" an
               \* attempt that it has not counted yet, or "returned"
  ticks,       \* ticks[t]: number of attempts that became due
  jobs,        \* the queue
  worker,      \* worker[w]: see Worker
  sem,         \* number of tokens in the semaphore's channel
  traffic,     \* TrafficCounter by target
  dropped,     \* DroppedProbesTotal by target
  latency,     \* number of observations of LatencyHistogram by target
  errors,      \* ErrorCounter by target
  saturation,  \* SaturationGauge
  expiry       \* targets with a TLSCertExpiryGauge

config == <<environ, fleet>>
metrics == <<traffic, dropped, latency, errors, saturation, expiry>>
schedulerVars == <<scheduler, ticks>>
vars == <<config, ctxDone, panicked, schedulerVars, jobs, worker, sem, metrics>>

\* The stages of a worker that has a job: "received" it; "saturated": the gauge
\* is raised; "acquire": the traffic is counted, the token is not held;
\* "execute": with the token, if there is a semaphore; "record": Execute returned
\* category; "observed": the latency is, the error is not counted; "counted".
\* waited: for a token; answer is what the target did, "none" if it was not asked.
Worker ==
  [stage : {"idle", "received", "saturated", "acquire", "execute", "record", "observed",
            "counted", "exited"},
   target : Targets \cup {Unset}, waited : BOOLEAN, answer : Outcomes \cup {"none"},
   category : allCategories \cup {""}]

Idle == [stage |-> "idle", target |-> Unset, waited |-> FALSE, answer |-> "none", category |-> ""]

-----------------------------------------------------------------------------
(* Configuration (env.GetInt, main.go).                                    *)

GetInt(name, defaultVal) == IF environ[name] = Unset THEN defaultVal ELSE environ[name]

numWorkers == GetInt("WORKERS", DefaultWorkers)
jobQueueSize == GetInt("QUEUE_SIZE", DefaultQueueSize)
probeTimeout == GetInt("PROBE_TIMEOUT_SECONDS", DefaultTimeout)
probeInterval == GetInt("PROBE_INTERVAL_SECONDS", DefaultInterval)

\* Mutant of maxConcurrentProbes: half the workers.
maxConcurrentProbes_Half == GetInt("MAX_CONCURRENT_PROBES", numWorkers \div 2)

maxConcurrentProbes == GetInt("MAX_CONCURRENT_PROBES", numWorkers * 2)

\* The workers started: none for a number that is not positive.
Pool == {w \in Workers : w <= numWorkers}

\* A bound that is not positive means no semaphore.
Bounded == maxConcurrentProbes > 0

-----------------------------------------------------------------------------
\* The channel of jobs cannot be made with a negative capacity.
Init ==
  /\ \E d \in Deployments : environ = d.environ /\ fleet = d.fleet
  /\ ctxDone = FALSE
  /\ panicked = (jobQueueSize < 0)
  /\ scheduler = [t \in Targets |-> "new"]
  /\ ticks = [t \in Targets |-> 0]
  /\ jobs = << >>
  /\ worker = [w \in Workers |-> Idle]
  /\ sem = 0
  /\ traffic = [t \in Targets |-> 0]
  /\ dropped = [t \in Targets |-> 0]
  /\ latency = [t \in Targets |-> 0]
  /\ errors = [t \in Targets |-> 0]
  /\ saturation = 0
  /\ expiry = {}

Cancel ==
  /\ ~ctxDone
  /\ ctxDone' = TRUE
  /\ UNCHANGED <<config, panicked, schedulerVars, jobs, worker, sem, metrics>>

-----------------------------------------------------------------------------
(* TargetScheduler.                                                        *)

\* NewTicker panics if the interval is not positive; else the first attempt
\* is due at once.
StartScheduler(t) ==
  /\ scheduler[t] = "new"
  /\ ticks[t] < MaxTicks
  /\ IF probeInterval > 0
     THEN /\ scheduler' = [scheduler EXCEPT ![t] = "due"]
          /\ ticks' = [ticks EXCEPT ![t] = @ + 1]
          /\ UNCHANGED panicked
     ELSE panicked' = TRUE /\ UNCHANGED schedulerVars
  /\ UNCHANGED <<config, ctxDone, jobs, worker, sem, metrics>>

\* A tick while an attempt is due is kept or lost by the ticker's channel: the
\* attempts that follow count as ticks of their own.
Tick(t) ==
  /\ scheduler[t] = "waiting"
  /\ ticks[t] < MaxTicks
  /\ scheduler' = [scheduler EXCEPT ![t] = "due"]
  /\ ticks' = [ticks EXCEPT ![t] = @ + 1]
  /\ UNCHANGED <<config, ctxDone, panicked, jobs, worker, sem, metrics>>

\* A worker with target t that has no verdict, or needs it no more.
Holds(stage, t) == [Idle EXCEPT !.stage = stage, !.target = t]

\* A worker's receive: ProbeTarget has not begun.
Receive(w, t) == worker' = [worker EXCEPT ![w] = Holds("received", t)]

\* Mutant of HasRoom: one job more than the queue holds.
HasRoom_OffByOne == Len(jobs) <= jobQueueSize

HasRoom == Len(jobs) < jobQueueSize

\* enqueue: the select takes a ready case, either one if both are, and the
\* default if none is.  A queue without capacity hands over to a worker that
\* waits.
Enqueue(t) ==
  /\ scheduler[t] = "due"
  /\ \/ /\ HasRoom
        /\ jobs' = Append(jobs, t)
        /\ scheduler' = [scheduler EXCEPT ![t] = "waiting"]
        /\ UNCHANGED worker
     \/ /\ jobQueueSize = 0
        /\ \E w \in Pool : worker[w].stage = "idle" /\ Receive(w, t)
        /\ scheduler' = [scheduler EXCEPT ![t] = "waiting"]
        /\ UNCHANGED jobs
     \/ /\ ~HasRoom /\ ~ctxDone
        /\ scheduler' = [scheduler EXCEPT ![t] = "dropping"]
        /\ UNCHANGED <<jobs, worker>>
  /\ UNCHANGED <<config, ctxDone, panicked, ticks, sem, metrics>>

DropInc(t) ==
  /\ dropped' = [dropped EXCEPT ![t] = @ + 1]
  /\ UNCHANGED <<traffic, latency, errors, saturation, expiry>>

\* Mutant of Drop: the dropped probe is not counted.
Drop_Uncounted(t) ==
  /\ scheduler[t] = "dropping"
  /\ scheduler' = [scheduler EXCEPT ![t] = "waiting"]
  /\ UNCHANGED <<config, ctxDone, panicked, ticks, jobs, worker, sem, metrics>>

\* The default case counts the drop, after SIGTERM too.
Drop(t) ==
  /\ scheduler[t] = "dropping"
  /\ DropInc(t)
  /\ scheduler' = [scheduler EXCEPT ![t] = "waiting"]
  /\ UNCHANGED <<config, ctxDone, panicked, ticks, jobs, worker, sem>>

\* Mutant of SchedulerReturns: the attempt that is due then counts as dropped.
SchedulerReturns_CountsDrop(t) ==
  /\ ctxDone
  /\ scheduler[t] \in {"waiting", "due"}
  /\ scheduler' = [scheduler EXCEPT ![t] = "returned"]
  /\ IF scheduler[t] = "due" THEN DropInc(t) ELSE UNCHANGED metrics
  /\ UNCHANGED <<config, ctxDone, panicked, ticks, jobs, worker, sem>>

\* A scheduler whose context is cancelled returns, with an attempt due or not.
SchedulerReturns(t) ==
  /\ ctxDone
  /\ scheduler[t] \in {"waiting", "due"}
  /\ scheduler' = [scheduler EXCEPT ![t] = "returned"]
  /\ UNCHANGED <<config, ctxDone, panicked, ticks, jobs, worker, sem, metrics>>

-----------------------------------------------------------------------------
(* WorkerPool, ProbeTarget and Dispatcher.Execute.                         *)

TakeJob(w) ==
  /\ worker[w].stage = "idle"
  /\ jobs # << >>
  /\ jobs' = Tail(jobs)
  /\ Receive(w, Head(jobs))
  /\ UNCHANGED <<config, ctxDone, panicked, schedulerVars, sem, metrics>>

WorkerExits(w) ==
  /\ worker[w].stage = "idle"
  /\ ctxDone
  /\ worker' = [worker EXCEPT ![w].stage = "exited"]
  /\ UNCHANGED <<config, ctxDone, panicked, schedulerVars, jobs, sem, metrics>>

\* ProbeTarget begins: saturation first, then traffic.
SaturationInc(w) ==
  /\ worker[w].stage = "received"
  /\ worker' = [worker EXCEPT ![w].stage = "saturated"]
  /\ saturation' = saturation + 1
  /\ UNCHANGED <<config, ctxDone, panicked, schedulerVars, jobs, sem, traffic, dropped, latency,
                 errors, expiry>>

TrafficInc(w) ==
  LET t == worker[w].target
  IN /\ worker[w].stage = "saturated"
     /\ worker' = [worker EXCEPT ![w].stage = "acquire"]
     /\ traffic' = [traffic EXCEPT ![t] = @ + 1]
     /\ UNCHANGED <<config, ctxDone, panicked, schedulerVars, jobs, sem, dropped, latency, errors,
                    saturation, expiry>>

\* The scheme whose prober runs: that of the target, else that of its address.
Resolve(t) ==
  IF fleet[t].scheme \in Schemes THEN {fleet[t].scheme} ELSE {fleet[t].addressScheme} \cap Schemes

HasToken == ~Bounded \/ sem < maxConcurrentProbes

TakeToken(w) ==
  /\ HasToken
  /\ sem' = IF Bounded THEN sem + 1 ELSE sem
  /\ worker' = [worker EXCEPT ![w].stage = "execute"]

\* Mutant of ReleaseToken: kept by a probe whose scheme is unknown.
ReleaseToken_Resolved(w) ==
  sem' = IF Bounded /\ Resolve(worker[w].target) # {} THEN sem - 1 ELSE sem

ReleaseToken(w) == sem' = IF Bounded THEN sem - 1 ELSE sem

\* The probe's context may be done before it holds a token.
MayGiveUp(w) == worker[w].waited \/ probeTimeout <= 0 \/ ctxDone

Returns(w, answer, category) ==
  worker' = [worker EXCEPT ![w].stage = "record", ![w].answer = answer, ![w].category = category]

\* The wait for a token, against the probe's context.
Acquire(w) ==
  /\ worker[w].stage = "acquire"
  /\ \/ TakeToken(w)
     \/ ~HasToken /\ ~worker[w].waited
        /\ worker' = [worker EXCEPT ![w].waited = TRUE] /\ UNCHANGED sem
     \/ Bounded /\ MayGiveUp(w) /\ Returns(w, "none", "timeout") /\ UNCHANGED sem
  /\ UNCHANGED <<config, ctxDone, panicked, schedulerVars, jobs, metrics>>

\* Mutant of TimesOut: probes have no timeout.
TimesOut_Never(w, answer) == FALSE

\* The probe's context expires before the target, if it is asked at all, answers.
TimesOut(w, answer) ==
  /\ answer # "malformed"
  /\ answer = "hang" \/ worker[w].waited \/ probeTimeout <= 0

\* The prober returns: with what the target did, or of its context.
Probe(w) ==
  LET t == worker[w].target
  IN /\ worker[w].stage = "execute"
     /\ ReleaseToken(w)
     /\ \/ /\ Resolve(t) = {}
           /\ Returns(w, "none", "unknown_error")
           /\ UNCHANGED expiry
        \/ \E s \in Resolve(t) : \E answer \in Answers(s, fleet[t]) :
             \/ /\ answer # "hang"
                /\ probeTimeout > 0 \/ answer = "malformed"
                /\ Returns(w, answer, probers(s, answer))
                /\ expiry' = IF RecordsExpiry(s, answer) THEN expiry \cup {t} ELSE expiry
             \/ /\ TimesOut(w, answer)
                /\ Returns(w, answer, probers(s, "hang"))
                /\ UNCHANGED expiry
             \/ /\ ctxDone /\ answer # "malformed"
                /\ Returns(w, answer, probers(s, "cut"))
                /\ UNCHANGED expiry
     /\ UNCHANGED <<config, ctxDone, panicked, schedulerVars, jobs, traffic, dropped, latency,
                    errors, saturation>>

\* ProbeTarget ends: latency, the error if there is one, the deferred saturation.
LatencyObserve(w) ==
  LET t == worker[w].target
  IN /\ worker[w].stage = "record"
     /\ worker' = [worker EXCEPT ![w] =
                     Holds(IF worker[w].category = "" THEN "counted" ELSE "observed", t)]
     /\ latency' = [latency EXCEPT ![t] = @ + 1]
     /\ UNCHANGED <<config, ctxDone, panicked, schedulerVars, jobs, sem, traffic, dropped, errors,
                    saturation, expiry>>

ErrorInc(w) ==
  LET t == worker[w].target
  IN /\ worker[w].stage = "observed"
     /\ worker' = [worker EXCEPT ![w].stage = "counted"]
     /\ errors' = [errors EXCEPT ![t] = @ + 1]
     /\ UNCHANGED <<config, ctxDone, panicked, schedulerVars, jobs, sem, traffic, dropped, latency,
                    saturation, expiry>>

SaturationDec(w) ==
  /\ worker[w].stage = "counted"
  /\ worker' = [worker EXCEPT ![w] = Idle]
  /\ saturation' = saturation - 1
  /\ UNCHANGED <<config, ctxDone, panicked, schedulerVars, jobs, sem, traffic, dropped, latency,
                 errors, expiry>>

\* The steps of ProbeTarget.
ProbeTarget(w) ==
  \/ SaturationInc(w) \/ TrafficInc(w)
  \/ Acquire(w) \/ Probe(w)
  \/ LatencyObserve(w) \/ ErrorInc(w) \/ SaturationDec(w)

-----------------------------------------------------------------------------
Next ==
  /\ ~panicked
  /\ \/ Cancel
     \/ \E t \in Targets :
          StartScheduler(t) \/ Tick(t) \/ Enqueue(t) \/ Drop(t) \/ SchedulerReturns(t)
     \/ \E w \in Pool : TakeJob(w) \/ WorkerExits(w) \/ ProbeTarget(w)

Spec == Init /\ [][Next]_vars

\* Each worker runs: a probe ends, if not by the target's answer by its
\* timeout, and a worker that looks for a job takes one again and again.
FairSpec ==
  /\ Spec
  /\ \A w \in Workers :
       /\ WF_vars(Next /\ w \in Pool /\ ProbeTarget(w))
       /\ WF_vars(Next /\ w \in Pool /\ TakeJob(w))

-----------------------------------------------------------------------------
\* Type invariant.
TypeOK ==
  /\ [environ |-> environ, fleet |-> fleet] \in Deployments
  /\ ctxDone \in BOOLEAN /\ panicked \in BOOLEAN
  /\ scheduler \in [Targets -> {"new", "waiting", "due", "dropping", "returned"}]
  /\ jobs \in Seq(Targets)
  /\ Len(jobs) <= jobQueueSize \/ jobs = << >>
  /\ worker \in [Workers -> Worker]
  /\ sem \in 0 .. MaxWorkers
  /\ {ticks, traffic, dropped, latency, errors} \subseteq [Targets -> 0 .. MaxTicks]
  /\ saturation \in 0 .. MaxWorkers
  /\ expiry \subseteq Targets

\* The workers in one of these stages, and those of them with t.
At(stages) == {w \in Workers : worker[w].stage \in stages}
AtWith(stages, t) == {w \in At(stages) : worker[w].target = t}

\* The traffic is not counted yet; it is, and the latency is not; the gauge is up.
Accepted == {"received", "saturated"}
Busy == {"acquire", "execute", "record"}
Saturated == Busy \cup {"saturated", "observed", "counted"}

\* dispatcher.go:45, "Ensure release upon completion": a token is held by the
\* probes on the network and by nobody else, whichever way they return, so the
\* semaphore neither runs dry nor admits more probes than it has tokens.
TokensHeld ==
  /\ sem = IF Bounded THEN Cardinality(At({"execute"})) ELSE 0
  /\ Bounded => sem <= maxConcurrentProbes

\* Attempts of t that are due, queued or taken by a worker that has not counted
\* them as traffic.
Open(t) ==
  (IF scheduler[t] = "due" THEN 1 ELSE 0) + Cardinality({n \in 1 .. Len(jobs) : jobs[n] = t})
    + Cardinality(AtWith(Accepted, t))

\* Attempts of t that became due and of which nothing is left.
Lost(t) ==
  ticks[t] - (Open(t) + (IF scheduler[t] = "dropping" THEN 1 ELSE 0) + dropped[t] + traffic[t])

\* ADR 0004, the golden signals: between any two of the single updates, every
\* attempt of a target is open, dropped or counted as traffic, and only a
\* scheduler that returned may have given up one; every probe counted as traffic
\* is under way or has its latency, an error is never counted before the latency
\* or twice, and saturation is the number of probes that raised it.
SignalsAgree ==
  /\ \A t \in Targets :
       /\ Lost(t) = 0 \/ (Lost(t) = 1 /\ scheduler[t] = "returned")
       /\ traffic[t] = Cardinality(AtWith(Busy, t)) + latency[t]
       /\ errors[t] + Cardinality(AtWith({"observed"}, t)) <= latency[t]
  /\ saturation = Cardinality(At(Saturated))

\* The abstract state: the open attempts of each target, those that found no
\* room, each worker's probe, and the probes whose error is not counted yet.
OpenAttempts == [t \in Targets |-> Open(t)]
Dropping == {t \in Targets : scheduler[t] = "dropping"}
Probing ==
  [w \in Workers |-> IF w \in At(Busy \cup {"observed"}) THEN worker[w].target ELSE Unset]

Attempt == INSTANCE Attempts
  WITH Slots <- Workers, Free <- Unset, open <- OpenAttempts, refused <- Dropping, slot <- Probing,
       failing <- At({"observed"}), begun <- traffic, ended <- latency, failed <- errors,
       stopping <- ctxDone

\* ADR 0004 and 0006: whatever queue, workers, tokens and timeouts do to it, an
\* attempt finds no room before SIGTERM and is counted as dropped, or begins
\* once, ends once and fails at most once in the worker that began it, and the
\* counters change at these moments only.
ImplementsAttempts == Attempt!Spec

\* prober.go:31, the hints: before SIGTERM a category tells what the target did,
\* except for the answers listed in Misclassified, which all get a wrong one.
\* Only a probe that had to wait for its token, or one without a timeout to speak
\* of, may call another answer a timeout.
VerdictFits ==
  ~ctxDone =>
    \A w \in At({"record"}) :
      LET t        == worker[w].target
          answer   == worker[w].answer
          category == worker[w].category
      IN \/ \E s \in Resolve(t) : category \in Fitting(answer) <=> ~Misclassified(s, answer)
         \/ Resolve(t) = {} /\ category = "unknown_error"
         \/ category = "timeout" /\ MayGiveUp(w)

\* main.go:61, "default 2x workers to prevent false drops": unless the operator
\* allows fewer concurrent probes than workers, a timeout is the target's.
NoFalseTimeout ==
  ~ctxDone /\ probeTimeout > 0 /\ environ["MAX_CONCURRENT_PROBES"] \notin 1 .. numWorkers - 1 =>
    \A w \in At(Busy) : worker[w].category = "timeout" => worker[w].answer = "hang"

\* ADR 0006, bounded concurrency: targets that hang delay the others for no
\* longer than their timeouts; a full queue always gets room again.
QueueMoves ==
  (Pool # {} /\ jobs # << >> /\ Len(jobs) = jobQueueSize)
    ~> (Len(jobs) < jobQueueSize \/ ctxDone \/ panicked)
=============================================================================
