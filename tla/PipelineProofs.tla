--------------------------- MODULE PipelineProofs ---------------------------
(***************************************************************************)
(* Proofs about Pipeline, for any targets, deployments, pool and queue     *)
(* sizes.                                                                  *)
(***************************************************************************)
EXTENDS Pipeline, FiniteSetTheorems, TLAPS

-----------------------------------------------------------------------------
(* Counting the jobs of a target.                                          *)

Queued(s, t) == {n \in 1 .. Len(s) : s[n] = t}

\* The jobs of a target in the queue are finitely many.
LEMMA QueuedFinite ==
  ASSUME NEW S, NEW s \in Seq(S), NEW t
  PROVE  IsFiniteSet(Queued(s, t)) /\ Cardinality(Queued(s, t)) \in Nat
<1>1. IsFiniteSet(1 .. Len(s))
  BY FS_Interval
<1>2. Queued(s, t) \subseteq 1 .. Len(s)
  BY DEF Queued
<1>3. QED BY <1>1, <1>2, FS_Subset, FS_CardinalityType

\* A job sent adds one to its target and nothing to the others.
LEMMA QueuedAppend ==
  ASSUME NEW S, NEW s \in Seq(S), NEW u \in S, NEW t
  PROVE  Cardinality(Queued(Append(s, u), t)) =
           Cardinality(Queued(s, t)) + (IF u = t THEN 1 ELSE 0)
<1>1. CASE u = t
  <2>1. Queued(Append(s, u), t) = Queued(s, t) \cup {Len(s) + 1}
    BY <1>1 DEF Queued
  <2>2. Len(s) + 1 \notin Queued(s, t)
    BY DEF Queued
  <2>3. QED BY <1>1, <2>1, <2>2, QueuedFinite, FS_AddElement
<1>2. CASE u # t
  <2>1. Queued(Append(s, u), t) = Queued(s, t)
    BY <1>2 DEF Queued
  <2>2. QED BY <1>2, <2>1, QueuedFinite
<1>3. QED BY <1>1, <1>2

\* A job taken is one less of its target.
LEMMA QueuedTail ==
  ASSUME NEW S, NEW s \in Seq(S), s # << >>, NEW t
  PROVE  Cardinality(Queued(s, t)) =
           Cardinality(Queued(Tail(s), t)) + (IF Head(s) = t THEN 1 ELSE 0)
<1> DEFINE D == Queued(s, t) \ {1}
           Q == Queued(Tail(s), t)
           f == [n \in Q |-> n + 1]
<1>1. /\ Len(s) \in Nat /\ Len(s) >= 1 /\ Len(Tail(s)) = Len(s) - 1
      /\ \A n \in 1 .. Len(Tail(s)) : Tail(s)[n] = s[n + 1]
  OBVIOUS
<1>2. \A n \in Q : n + 1 \in D
  BY <1>1 DEF Queued
<1>3. f \in [Q -> D]
  BY <1>2
<1>4. \A m, n \in Q : f[m] = f[n] => m = n
  BY DEF Queued
<1>5. \A d \in D : \E n \in Q : f[n] = d
  <2>1. SUFFICES ASSUME NEW d \in D PROVE d - 1 \in Q /\ f[d - 1] = d
    OBVIOUS
  <2>2. d - 1 \in Q
    BY <1>1 DEF Queued
  <2>3. QED BY <2>2 DEF Queued
<1>6. f \in Bijection(Q, D)
  BY <1>3, <1>4, <1>5 DEF Bijection, Injection, Surjection, IsInjective
<1>7. Cardinality(D) = Cardinality(Q)
  <2>1. IsFiniteSet(Q)
    <3>1. Tail(s) \in Seq(S)
      OBVIOUS
    <3>2. QED BY <3>1, QueuedFinite
  <2>2. ExistsBijection(Q, D)
    BY <1>6 DEF ExistsBijection
  <2>3. QED BY <2>1, <2>2, FS_Bijection
<1>8. 1 \in Queued(s, t) <=> Head(s) = t
  BY <1>1 DEF Queued
<1>9. Cardinality(D) = IF 1 \in Queued(s, t) THEN Cardinality(Queued(s, t)) - 1
                                            ELSE Cardinality(Queued(s, t))
  BY QueuedFinite, FS_RemoveElement
<1>10. Cardinality(Queued(s, t)) \in Nat
  BY QueuedFinite
<1>11. QED BY Z3, <1>7, <1>8, <1>9, <1>10

-----------------------------------------------------------------------------
(* The probers.                                                            *)

-----------------------------------------------------------------------------
(* The probers.                                                            *)

\* A prober returns a category, or success, whatever the target did.
LEMMA ProbersType ==
  ASSUME NEW s \in Schemes, NEW answer PROVE probers(s, answer) \in allCategories \cup {""}
<1>1. \A err, statusCode : MapToCategory(err, statusCode) \in allCategories \cup {""}
  BY DEF MapToCategory, allCategories
<1>2. ProbeGRPCTarget(answer) \in allCategories \cup {""}
  BY DEF ProbeGRPCTarget, allCategories
<1>3. "unknown_error" \in allCategories
  BY DEF allCategories
<1>4. ProbeHTTPTarget(s, answer) \in allCategories \cup {""}
  <2> DEFINE statusCode == IF answer = "badStatus" THEN 503 ELSE 200
  <2>1. ProbeHTTPTarget(s, answer) \in
          {"unknown_error", MapToCategory(GoError(s, answer), statusCode)}
    BY DEF ProbeHTTPTarget
  <2> HIDE DEF statusCode
  <2>2. QED BY <1>1, <1>3, <2>1
<1>5. /\ ProbeTCPTarget(answer) \in allCategories \cup {""}
      /\ ProbeTLSTarget(answer) \in allCategories \cup {""}
      /\ ProbeDNSTarget(answer) \in allCategories \cup {""}
  BY <1>1, <1>3 DEF ProbeTCPTarget, ProbeTLSTarget, ProbeDNSTarget
<1>6. QED BY <1>2, <1>4, <1>5 DEF probers, Schemes

\* What a target of some scheme may do is an outcome.
LEMMA AnswersType ==
  ASSUME NEW s, NEW target, NEW answer \in Answers(s, target) PROVE answer \in Outcomes
  BY DEF Answers, Outcomes, BadCertificates

\* A prober whose context expired reports a timeout.
LEMMA HangIsTimeout == ASSUME NEW s \in Schemes PROVE probers(s, "hang") = "timeout"
<1>1. "DeadlineExceeded" \in GoError(s, "hang")
  BY DEF GoError
<1>2. QED BY <1>1
          DEF probers, Schemes, ProbeHTTPTarget, ProbeTCPTarget, ProbeTLSTarget, ProbeDNSTarget,
              ProbeGRPCTarget, GrpcCode, GoError, MapToCategory

\* The errors that stand for a target's answers.
LEMMA ErrorOf ==
  ASSUME NEW s
  PROVE  /\ \A a \in {"ok", "badStatus", "slowBody"} : GoError(s, a) = {}
         /\ \A a \in {"refused", "reset", "alert"} : GoError(s, a) = {"OpError"}
         /\ s # "dns" => GoError(s, "noHost") = {"OpError", "DNSError"}
         /\ s = "dns" => GoError(s, "noHost") = {"DNSError"}
         /\ GoError(s, "untrusted") = {"UnknownAuthorityError"}
         /\ GoError(s, "wrongHost") = {"HostnameError"}
         /\ GoError(s, "expired") = {"CertificateInvalidError"}
         /\ s # "https" => GoError(s, "plaintext") = {"RecordHeaderError"}
         /\ s = "https" => GoError(s, "plaintext") = {"ErrSchemeMismatch"}
  BY DEF GoError

\* The category is one whose hint fits what the target did, unless the answer is
\* one of those the code misjudges, and never a timeout.
Judged(s, answer, category) ==
  /\ category \in Fitting(answer) <=> ~Misclassified(s, answer)
  /\ category # "timeout"

\* The category of the error that stands for an answer.
LEMMA ErrorJudged ==
  ASSUME NEW s \in Schemes \ {"grpc"}, NEW target, NEW answer \in Answers(s, target),
         answer \notin {"hang", "malformed"}, NEW c \in {0, 200, 503},
         answer = "badStatus" <=> c = 503
  PROVE  Judged(s, answer, MapToCategory(GoError(s, answer), c))
<1> DEFINE category == MapToCategory(GoError(s, answer), c)
<1>1. answer \in {"ok", "slowBody", "badStatus", "noHost", "refused", "reset", "alert",
                  "untrusted", "wrongHost", "plaintext", "expired"}
  BY DEF Answers, BadCertificates, Schemes
<1>2. CASE answer \in {"ok", "slowBody"}
  <2>1. category = ""
    <3>1. GoError(s, answer) = {}
      BY <1>2, ErrorOf
    <3>2. MapToCategory({}, c) = ""
      BY <1>2 DEF MapToCategory
    <3>3. QED BY <3>1, <3>2
  <2>2. Fitting(answer) = {""} /\ ~Misclassified(s, answer)
    BY <1>2 DEF Fitting, Misclassified, BadCertificates
  <2>3. QED BY <2>1, <2>2 DEF Judged
<1>3. CASE answer = "badStatus"
  <2>1. category = "http_error"
    <3>1. GoError(s, answer) = {}
      BY <1>3, ErrorOf
    <3>2. MapToCategory({}, c) = "http_error"
      BY <1>3 DEF MapToCategory
    <3>3. QED BY <3>1, <3>2
  <2>2. Fitting(answer) = {"http_error"} /\ ~Misclassified(s, answer)
    BY <1>3 DEF Fitting, Misclassified, BadCertificates
  <2>3. QED BY <2>1, <2>2 DEF Judged
<1>4. CASE answer = "noHost"
  <2>1. category = "dns_error"
    <3>1. GoError(s, answer) \in {{"DNSError"}, {"OpError", "DNSError"}}
      BY <1>4, ErrorOf
    <3>2. QED BY <3>1 DEF MapToCategory
  <2>2. Fitting(answer) = {"dns_error"} /\ ~Misclassified(s, answer)
    BY <1>4 DEF Fitting, Misclassified, BadCertificates
  <2>3. QED BY <2>1, <2>2 DEF Judged
<1>5. CASE answer \in {"refused", "reset", "alert"}
  <2>1. category = "connection_refused"
    <3>1. GoError(s, answer) = {"OpError"}
      BY <1>5, ErrorOf
    <3>2. MapToCategory({"OpError"}, c) = "connection_refused"
      BY <1>5 DEF MapToCategory
    <3>3. QED BY <3>1, <3>2
  <2>2. /\ Fitting("refused") = {"connection_refused"}
        /\ Fitting("alert") = {"tls_error"} /\ Fitting("reset") = {"unknown_error"}
    BY DEF Fitting, BadCertificates
  <2>3. Misclassified(s, answer) <=> answer \in {"reset", "alert"}
    BY <1>5 DEF Misclassified
  <2>4. QED BY <1>5, <2>1, <2>2, <2>3 DEF Judged
<1>6. CASE answer \in {"untrusted", "wrongHost"} \/ (answer = "plaintext" /\ s # "https")
  <2>1. category = "tls_error"
    <3>1. GoError(s, answer) \in {{"UnknownAuthorityError"}, {"HostnameError"},
                                 {"RecordHeaderError"}}
      BY <1>6, ErrorOf
    <3>2. QED BY <3>1 DEF MapToCategory
  <2>2. Fitting(answer) = {"tls_error"} /\ ~Misclassified(s, answer)
    BY <1>6 DEF Fitting, Misclassified, BadCertificates
  <2>3. QED BY <2>1, <2>2 DEF Judged
<1>7. CASE answer = "expired" \/ (answer = "plaintext" /\ s = "https")
  <2>1. category = "unknown_error"
    <3>1. GoError(s, answer) \in {{"CertificateInvalidError"}, {"ErrSchemeMismatch"}}
      BY <1>7, ErrorOf
    <3>2. QED BY <3>1 DEF MapToCategory
  <2>2. Fitting(answer) = {"tls_error"} /\ Misclassified(s, answer)
    BY <1>7 DEF Fitting, Misclassified, BadCertificates
  <2>3. QED BY <2>1, <2>2 DEF Judged
<1>8. QED BY <1>1, <1>2, <1>3, <1>4, <1>5, <1>6, <1>7

\* What the probers make of an answer.
LEMMA AnswerJudged ==
  ASSUME NEW s \in Schemes, NEW target, NEW answer \in Answers(s, target), answer # "hang"
  PROVE  Judged(s, answer, probers(s, answer))
<1>1. CASE answer = "malformed"
  <2>1. probers(s, answer) = "unknown_error"
    <3>1. s \in ParseAddress
      BY <1>1 DEF Answers, BadCertificates
    <3>2. QED BY <1>1, <3>1 DEF ParseAddress, probers, ProbeHTTPTarget, ProbeTCPTarget
  <2>2. Fitting(answer) = {"unknown_error"} /\ ~Misclassified(s, answer)
    BY <1>1 DEF Fitting, Misclassified, BadCertificates
  <2>3. QED BY <2>1, <2>2 DEF Judged
<1>2. CASE s \in {"http", "https"} /\ answer # "malformed"
  <2>1. probers(s, answer) = MapToCategory(GoError(s, answer),
                                           IF answer = "badStatus" THEN 503 ELSE 200)
    BY <1>2 DEF probers, ProbeHTTPTarget
  <2>2. s # "grpc" /\ answer \notin {"hang", "malformed"}
    BY <1>2
  <2>3. QED BY <2>1, <2>2, ErrorJudged
<1>3. CASE s \in {"tcp", "tls", "dns"} /\ answer # "malformed"
  <2>1. probers(s, answer) = MapToCategory(GoError(s, answer), 0)
    BY <1>3 DEF probers, ProbeTCPTarget, ProbeTLSTarget, ProbeDNSTarget
  <2>2. s # "grpc" /\ answer # "badStatus" /\ answer \notin {"hang", "malformed"}
    BY <1>3 DEF Answers, BadCertificates
  <2>3. QED BY <2>1, <2>2, ErrorJudged
<1>4. CASE s = "grpc" /\ answer # "malformed"
  <2>1. /\ answer \in {"ok", "noHost", "refused", "reset", "notServing", "noService",
                       "unimplemented", "denied"}
        /\ probers(s, answer) = ProbeGRPCTarget(answer)
    BY <1>4 DEF Answers, BadCertificates, probers
  <2>2. CASE answer \in {"ok", "notServing", "noService", "unimplemented", "denied"}
    <3>1. ~Misclassified(s, answer)
      BY <2>2 DEF Misclassified
    <3>2. ProbeGRPCTarget(answer) \in Fitting(answer) /\ ProbeGRPCTarget(answer) # "timeout"
      BY <2>2 DEF ProbeGRPCTarget, GrpcCode, Fitting, BadCertificates
    <3>3. QED BY <2>1, <3>1, <3>2 DEF Judged
  <2>3. CASE answer \in {"noHost", "refused", "reset"}
    <3>1. ProbeGRPCTarget(answer) = "connection_refused"
      BY <2>3 DEF ProbeGRPCTarget, GrpcCode
    <3>2. /\ Fitting("refused") = {"connection_refused"}
          /\ Fitting("noHost") = {"dns_error"} /\ Fitting("reset") = {"unknown_error"}
      BY DEF Fitting, BadCertificates
    <3>3. Misclassified(s, answer) <=> answer \in {"noHost", "reset"}
      BY <1>4, <2>3 DEF Misclassified
    <3>4. QED BY <2>1, <2>3, <3>1, <3>2, <3>3 DEF Judged
  <2>4. QED BY <2>1, <2>2, <2>3
<1>5. QED BY <1>1, <1>2, <1>3, <1>4 DEF Schemes

-----------------------------------------------------------------------------
(* The inductive invariant.                                                *)

\* The types, without the bounds of the counters.
Types ==
  /\ [environ |-> environ, fleet |-> fleet] \in Deployments
  /\ ctxDone \in BOOLEAN /\ panicked \in BOOLEAN
  /\ scheduler \in [Targets -> {"new", "waiting", "due", "dropping", "returned"}]
  /\ jobs \in Seq(Targets)
  /\ Len(jobs) <= jobQueueSize \/ jobs = << >>
  /\ worker \in [Workers -> Worker]
  /\ sem \in Int /\ saturation \in Int
  /\ ticks \in [Targets -> Nat] /\ traffic \in [Targets -> Nat]
  /\ dropped \in [Targets -> Nat] /\ latency \in [Targets -> Nat]
  /\ errors \in [Targets -> Nat]
  /\ \A t \in Targets : ticks[t] <= MaxTicks
  /\ expiry \subseteq Targets

\* What a worker of the pool may hold: a job with no category before its probe
\* returns or after it is recorded, and no wait for a token before it asks.
Proper(v) ==
  /\ v.target \in Targets
  /\ v.stage # "record" => v.category = ""
  /\ v.stage \in Accepted => ~v.waited

\* A worker with a job belongs to the pool.
Placed ==
  \A w \in Workers : worker[w].stage \notin {"idle", "exited"} => w \in Pool /\ Proper(worker[w])

\* The premise of NoFalseTimeout.
Roomy ==
  ~ctxDone /\ probeTimeout > 0 /\ environ["MAX_CONCURRENT_PROBES"] \notin 1 .. numWorkers - 1

\* As many tokens as workers: nobody waits for one.
NeverWaits == Roomy => \A w \in At(Busy) : ~worker[w].waited

\* The verdict of a worker.
Fits(v) ==
  \/ \E s \in Resolve(v.target) : v.category \in Fitting(v.answer) <=> ~Misclassified(s, v.answer)
  \/ Resolve(v.target) = {} /\ v.category = "unknown_error"
  \/ v.category = "timeout" /\ (v.waited \/ probeTimeout <= 0)

\* A timeout of a probe that did not wait is the target's.
Earned(v) == v.category = "timeout" => v.answer = "hang" \/ v.waited \/ probeTimeout <= 0

\* What VerdictFits and NoFalseTimeout have in common.
Verdicts == ~ctxDone => \A w \in At({"record"}) : Fits(worker[w]) /\ Earned(worker[w])

Inv == Types /\ Placed /\ TokensHeld /\ SignalsAgree /\ Verdicts /\ NeverWaits

-----------------------------------------------------------------------------
(* The configuration.                                                      *)

\* The settings are integers.
LEMMA ConfigType ==
  ASSUME Types
  PROVE  /\ numWorkers \in Int /\ jobQueueSize \in Int /\ probeTimeout \in Int
         /\ probeInterval \in Int /\ maxConcurrentProbes \in Int
         /\ environ["MAX_CONCURRENT_PROBES"] \in Int \cup {Unset}
<1>1. environ \in [Variables -> Int \cup {Unset}]
  BY PipelineAssumption DEF Types
<1>2. \A v \in Variables, d \in Int : GetInt(v, d) \in Int
  BY <1>1 DEF GetInt
<1>3. /\ numWorkers \in Int /\ jobQueueSize \in Int /\ probeTimeout \in Int
      /\ probeInterval \in Int
  BY <1>2, PipelineAssumption
     DEF numWorkers, jobQueueSize, probeTimeout, probeInterval, Variables
<1>4. maxConcurrentProbes \in Int
  BY <1>2, <1>3 DEF maxConcurrentProbes, Variables
<1>5. QED BY <1>1, <1>3, <1>4 DEF Variables

\* The settings stay what they are.
LEMMA ConfigKept ==
  ASSUME environ' = environ
  PROVE  /\ numWorkers' = numWorkers /\ jobQueueSize' = jobQueueSize
         /\ probeTimeout' = probeTimeout /\ maxConcurrentProbes' = maxConcurrentProbes
         /\ Pool' = Pool /\ (Bounded <=> Bounded')
  BY DEF numWorkers, jobQueueSize, probeTimeout, maxConcurrentProbes, Pool, Bounded, GetInt,
         Workers

\* Every step keeps the deployment.
LEMMA DeploymentKept ==
  ASSUME [Next]_vars PROVE UNCHANGED config /\ (ctxDone => ctxDone')
<1>1. CASE Cancel
  BY <1>1 DEF Cancel
<1>2. ASSUME NEW t \in Targets,
             StartScheduler(t) \/ Tick(t) \/ Enqueue(t) \/ Drop(t) \/ SchedulerReturns(t)
      PROVE  UNCHANGED config /\ UNCHANGED ctxDone
  BY <1>2 DEF StartScheduler, Tick, Enqueue, Drop, SchedulerReturns
<1>3. ASSUME NEW w \in Pool, TakeJob(w) \/ WorkerExits(w) \/ ProbeTarget(w)
      PROVE  UNCHANGED config /\ UNCHANGED ctxDone
  BY <1>3 DEF TakeJob, WorkerExits, ProbeTarget, SaturationInc, TrafficInc, Acquire, Probe,
              LatencyObserve, ErrorInc, SaturationDec
<1>4. CASE UNCHANGED vars
  BY <1>4 DEF vars
<1>5. QED BY <1>1, <1>2, <1>3, <1>4 DEF Next

-----------------------------------------------------------------------------
(* Counting workers.                                                       *)

One(b) == IF b THEN 1 ELSE 0

\* Two finite sets that differ in at most one element.
LEMMA CountDiffers ==
  ASSUME NEW A, NEW B, IsFiniteSet(A), NEW w, A \ {w} = B \ {w}
  PROVE  /\ IsFiniteSet(B) /\ Cardinality(A) \in Nat /\ Cardinality(B) \in Nat
         /\ Cardinality(B) = Cardinality(A) - One(w \in A) + One(w \in B)
<1>1. /\ IsFiniteSet(A \ {w}) /\ Cardinality(A) \in Nat
      /\ Cardinality(A \ {w}) = IF w \in A THEN Cardinality(A) - 1 ELSE Cardinality(A)
  BY FS_RemoveElement, FS_CardinalityType
<1>2. B = IF w \in B THEN (B \ {w}) \cup {w} ELSE B \ {w}
  OBVIOUS
<1>3. IsFiniteSet(B) /\ Cardinality(B) \in Nat
  <2>1. IsFiniteSet((B \ {w}) \cup {w}) /\ IsFiniteSet(B \ {w})
    BY <1>1, FS_AddElement
  <2>2. QED BY <1>2, <2>1, FS_CardinalityType
<1>4. Cardinality(B \ {w}) = IF w \in B THEN Cardinality(B) - 1 ELSE Cardinality(B)
  BY <1>3, FS_RemoveElement
<1>5. QED BY <1>1, <1>3, <1>4 DEF One

\* The sets of workers that the invariant counts.
LEMMA WorkersFinite ==
  ASSUME NEW S
  PROVE  /\ IsFiniteSet(At(S)) /\ Cardinality(At(S)) \in 0 .. MaxWorkers
         /\ \A t : IsFiniteSet(AtWith(S, t)) /\ Cardinality(AtWith(S, t)) \in Nat
<1>1. IsFiniteSet(Workers) /\ Cardinality(Workers) = MaxWorkers
  <2>1. MaxWorkers \in Nat
    BY PipelineAssumption
  <2>2. QED BY <2>1, FS_Interval DEF Workers
<1>2. ASSUME NEW A \in SUBSET Workers
      PROVE  IsFiniteSet(A) /\ Cardinality(A) \in Nat /\ Cardinality(A) <= MaxWorkers
  BY <1>1, FS_Subset, FS_CardinalityType, PipelineAssumption
<1>3. At(S) \in SUBSET Workers
  BY DEF At
<1>4. \A t : AtWith(S, t) \in SUBSET Workers
  BY DEF At, AtWith
<1>5. QED BY <1>2, <1>3, <1>4, PipelineAssumption

\* 1 for a worker in one of these stages with this target.
Has(v, S, t) == One(v.stage \in S /\ v.target = t)

\* A step of one worker changes the counts by that worker.
LEMMA CountMoves ==
  ASSUME worker \in [Workers -> Worker], NEW w \in Workers, NEW v,
         worker' = [worker EXCEPT ![w] = v], NEW S
  PROVE  Cardinality(At(S)') =
           Cardinality(At(S)) - One(worker[w].stage \in S) + One(v.stage \in S)
<1>1. worker'[w] = v /\ \A x \in Workers \ {w} : worker'[x] = worker[x]
  OBVIOUS
<1>2. /\ w \in At(S) <=> worker[w].stage \in S
      /\ w \in At(S)' <=> v.stage \in S
  BY <1>1 DEF At
<1>3. IsFiniteSet(At(S)) /\ At(S) \ {w} = At(S)' \ {w}
  BY <1>1, WorkersFinite DEF At
<1>4. Cardinality(At(S)') = Cardinality(At(S)) - One(w \in At(S)) + One(w \in At(S)')
  BY <1>3, CountDiffers
<1>5. QED BY <1>2, <1>4 DEF One

\* The same for the workers with one target.
LEMMA CountWithMoves ==
  ASSUME worker \in [Workers -> Worker], NEW w \in Workers, NEW v,
         worker' = [worker EXCEPT ![w] = v], NEW S, NEW t
  PROVE  Cardinality(AtWith(S, t)') =
           Cardinality(AtWith(S, t)) - Has(worker[w], S, t) + Has(v, S, t)
<1>1. worker'[w] = v /\ \A x \in Workers \ {w} : worker'[x] = worker[x]
  OBVIOUS
<1>2. /\ w \in AtWith(S, t) <=> worker[w].stage \in S /\ worker[w].target = t
      /\ w \in AtWith(S, t)' <=> v.stage \in S /\ v.target = t
  BY <1>1 DEF At, AtWith
<1>3. AtWith(S, t) \ {w} = AtWith(S, t)' \ {w}
  BY <1>1 DEF At, AtWith
<1>4. IsFiniteSet(AtWith(S, t))
  BY WorkersFinite
<1>5. Cardinality(AtWith(S, t)') =
        Cardinality(AtWith(S, t)) - One(w \in AtWith(S, t)) + One(w \in AtWith(S, t)')
  BY <1>3, <1>4, CountDiffers
<1>6. QED BY <1>2, <1>5 DEF One, Has

-----------------------------------------------------------------------------
(* Places, verdicts and tokens.                                            *)

\* What a step that changes no worker and no token keeps.
LEMMA WorkersStay ==
  ASSUME Inv, UNCHANGED config, UNCHANGED <<worker, sem>>, ctxDone => ctxDone',
         ctxDone' \in BOOLEAN
  PROVE  Placed' /\ TokensHeld' /\ Verdicts' /\ NeverWaits'
<1>1. environ' = environ /\ fleet' = fleet /\ worker' = worker /\ sem' = sem
  BY DEF config
<1>2. /\ numWorkers' = numWorkers /\ probeTimeout' = probeTimeout
      /\ maxConcurrentProbes' = maxConcurrentProbes /\ Pool' = Pool /\ (Bounded <=> Bounded')
  BY <1>1, ConfigKept
<1>3. \A S : At(S)' = At(S)
  BY <1>1 DEF At
<1>4. Placed'
  BY <1>1, <1>2 DEF Inv, Placed
<1>5. TokensHeld'
  BY <1>1, <1>2, <1>3 DEF Inv, TokensHeld
<1>6. Verdicts'
  BY <1>1, <1>2, <1>3 DEF Inv, Verdicts, Fits, Earned, Resolve
<1>7. NeverWaits'
  BY <1>1, <1>2, <1>3 DEF Inv, NeverWaits, Roomy
<1>8. QED BY <1>4, <1>5, <1>6, <1>7

\* A worker that takes a token or gives one back.
LEMMA TokensMove ==
  ASSUME Types, TokensHeld, environ' = environ, NEW w \in Workers, NEW v \in Worker,
         worker' = [worker EXCEPT ![w] = v],
         ~Bounded => sem' = sem,
         Bounded => sem' = sem - One(worker[w].stage = "execute") + One(v.stage = "execute"),
         Bounded /\ v.stage = "execute" /\ worker[w].stage # "execute" =>
           sem < maxConcurrentProbes
  PROVE  TokensHeld'
<1> DEFINE n == Cardinality(At({"execute"}))
<1>1. worker \in [Workers -> Worker] /\ maxConcurrentProbes \in Int
  BY ConfigType DEF Types
<1>2. maxConcurrentProbes' = maxConcurrentProbes /\ (Bounded <=> Bounded')
  BY ConfigKept
<1>3. CASE ~Bounded
  BY <1>2, <1>3 DEF TokensHeld
<1>4. CASE Bounded
  <2>1. n' = n - One(worker[w].stage \in {"execute"}) + One(v.stage \in {"execute"})
    BY <1>1, CountMoves
  <2>2. sem = n /\ sem <= maxConcurrentProbes
    BY <1>4 DEF TokensHeld
  <2>3. sem' = n'
    BY <1>4, <2>1, <2>2 DEF One
  <2>4. sem \in Nat
    BY <2>2, WorkersFinite
  <2>5. sem' <= maxConcurrentProbes
    BY <1>1, <1>4, <2>2, <2>4 DEF One
  <2>6. QED BY <1>2, <1>4, <2>3, <2>5 DEF TokensHeld
<1>5. QED BY <1>3, <1>4

\* What a step of one worker has to show for itself.
LEMMA WorkerMoves ==
  ASSUME Inv, UNCHANGED config, UNCHANGED ctxDone, NEW w \in Pool, NEW v \in Worker,
         worker' = [worker EXCEPT ![w] = v],
         v.stage \notin {"idle", "exited"} => Proper(v),
         ~ctxDone /\ v.stage = "record" => Fits(v) /\ Earned(v),
         Roomy /\ v.stage \in Busy => ~v.waited
  PROVE  Placed' /\ Verdicts' /\ NeverWaits'
<1>1. environ' = environ /\ fleet' = fleet /\ w \in Workers
  BY DEF config, Pool
<1>2. /\ numWorkers' = numWorkers /\ probeTimeout' = probeTimeout /\ Pool' = Pool
  BY <1>1, ConfigKept
<1>3. worker \in [Workers -> Worker]
  BY DEF Inv, Types
<1>4. worker'[w] = v /\ \A x \in Workers \ {w} : worker'[x] = worker[x]
  BY <1>1, <1>3
<1>5. Placed'
  BY <1>2, <1>4 DEF Inv, Placed, Proper
<1>6. Verdicts'
  <2>1. SUFFICES ASSUME ~ctxDone, NEW x \in Workers, worker'[x].stage = "record"
                 PROVE  Fits(worker[x])' /\ Earned(worker[x])'
    BY DEF Verdicts, At
  <2>2. Fits(worker'[x]) /\ Earned(worker'[x])
    <3>1. CASE x = w
      BY <1>4, <2>1, <3>1
    <3>2. CASE x # w
      <4>1. worker'[x] = worker[x]
        BY <1>4, <3>2
      <4>2. Fits(worker[x]) /\ Earned(worker[x])
        BY <2>1, <4>1 DEF Inv, Verdicts, At
      <4>3. QED BY <4>1, <4>2
    <3>3. QED BY <3>1, <3>2
  <2>3. QED BY <1>1, <1>2, <2>2 DEF Fits, Earned, Resolve
<1>7. NeverWaits'
  BY <1>1, <1>2, <1>4 DEF Inv, NeverWaits, Roomy, At
<1>8. QED BY <1>5, <1>6, <1>7

-----------------------------------------------------------------------------
(* The open attempts.                                                      *)

\* The attempts of a target that are due, queued, or accepted by a worker.
LEMMA OpenIs ==
  ASSUME NEW t
  PROVE  Open(t) = One(scheduler[t] = "due") + Cardinality(Queued(jobs, t))
                     + Cardinality(AtWith(Accepted, t))
  BY DEF Open, One, Queued

LEMMA OpenType ==
  ASSUME Types, NEW t
  PROVE  /\ One(scheduler[t] = "due") \in Nat /\ Cardinality(Queued(jobs, t)) \in Nat
         /\ Cardinality(AtWith(Accepted, t)) \in Nat /\ Open(t) \in Nat
<1>1. /\ Cardinality(Queued(jobs, t)) \in Nat /\ Cardinality(AtWith(Accepted, t)) \in Nat
      /\ One(scheduler[t] = "due") \in Nat
  BY QueuedFinite, WorkersFinite DEF Types, One
<1>2. QED BY <1>1, OpenIs

\* The queue and the workers stay: the attempt of one scheduler is open, or not.
LEMMA SchedulerOpens ==
  ASSUME Types, NEW t \in Targets, NEW state,
         scheduler' = [scheduler EXCEPT ![t] = state], UNCHANGED <<jobs, worker>>
  PROVE  /\ scheduler'[t] = state /\ \A u \in Targets \ {t} : scheduler'[u] = scheduler[u]
         /\ \A u \in Targets \ {t} : Open(u)' = Open(u)
         /\ Open(t)' = Open(t) - One(scheduler[t] = "due") + One(state = "due")
<1>1. scheduler'[t] = state /\ \A u \in Targets \ {t} : scheduler'[u] = scheduler[u]
  BY DEF Types
<1>2. \A u : Queued(jobs, u)' = Queued(jobs, u) /\ AtWith(Accepted, u)' = AtWith(Accepted, u)
  BY DEF Queued, AtWith, At
<1>3. ASSUME NEW u
      PROVE  Open(u)' = One(scheduler'[u] = "due") + Cardinality(Queued(jobs, u))
                          + Cardinality(AtWith(Accepted, u))
  BY <1>2 DEF Open, One, Queued
<1>4. \A u \in Targets \ {t} : Open(u)' = Open(u)
  BY <1>1, <1>3, OpenIs
<1>5. Open(t)' = Open(t) - One(scheduler[t] = "due") + One(state = "due")
  <2>1. One(state = "due") \in Nat
    BY DEF One
  <2>2. Open(t)' = One(state = "due") + Cardinality(Queued(jobs, t))
                     + Cardinality(AtWith(Accepted, t))
    BY <1>1, <1>3
  <2>3. Open(t) = One(scheduler[t] = "due") + Cardinality(Queued(jobs, t))
                    + Cardinality(AtWith(Accepted, t))
    BY OpenIs
  <2>4. QED BY <2>1, <2>2, <2>3, OpenType
<1>6. QED BY <1>1, <1>4, <1>5

\* The schedulers and the queue stay: the job of one worker is open, or not.
LEMMA WorkerOpens ==
  ASSUME Types, NEW w \in Workers, NEW v \in Worker, worker' = [worker EXCEPT ![w] = v],
         UNCHANGED <<scheduler, jobs>>, NEW t
  PROVE  Open(t)' = Open(t) - Has(worker[w], Accepted, t) + Has(v, Accepted, t)
<1> DEFINE a == Cardinality(AtWith(Accepted, t))
<1>1. Open(t)' = One(scheduler[t] = "due") + Cardinality(Queued(jobs, t)) + a'
  BY DEF Open, One, Queued
<1>2. a' = a - Has(worker[w], Accepted, t) + Has(v, Accepted, t)
  <2>1. worker \in [Workers -> Worker]
    BY DEF Types
  <2>2. QED BY <2>1, CountWithMoves, ZenonT(60)
<1>3. Has(worker[w], Accepted, t) \in Nat /\ Has(v, Accepted, t) \in Nat
  BY DEF Has, One
<1>4. Open(t) = One(scheduler[t] = "due") + Cardinality(Queued(jobs, t)) + a
  BY OpenIs
<1> HIDE DEF a
<1>5. a \in Nat
  BY OpenType DEF a
<1>6. QED BY <1>1, <1>2, <1>3, <1>4, <1>5, OpenType

\* A worker that receives a job.
LEMMA Received ==
  ASSUME Types, NEW w \in Workers, worker[w].stage = "idle", NEW t \in Targets, Receive(w, t)
  PROVE  /\ Holds("received", t) \in Worker
         /\ Holds("received", t).stage = "received" /\ Proper(Holds("received", t))
         /\ worker' = [worker EXCEPT ![w] = Holds("received", t)]
         /\ \A u : Cardinality(AtWith(Accepted, u)') =
                     Cardinality(AtWith(Accepted, u)) + One(u = t)
         /\ \A S : S \cap {"idle", "received"} = {} =>
              /\ Cardinality(At(S)') = Cardinality(At(S))
              /\ \A u : Cardinality(AtWith(S, u)') = Cardinality(AtWith(S, u))
<1> DEFINE v == Holds("received", t)
<1>1. /\ v \in Worker /\ v.stage = "received" /\ v.target = t /\ v.category = ""
      /\ v.waited = FALSE
  BY DEF Holds, Idle, Worker
<1>2. Proper(v)
  BY <1>1 DEF Proper
<1>3. worker \in [Workers -> Worker] /\ worker' = [worker EXCEPT ![w] = v]
  BY DEF Types, Receive
<1> HIDE DEF v
<1>4. ASSUME NEW u
      PROVE  Cardinality(AtWith(Accepted, u)') = Cardinality(AtWith(Accepted, u)) + One(u = t)
  <2>1. Has(worker[w], Accepted, u) = 0 /\ Has(v, Accepted, u) = One(u = t)
    BY <1>1 DEF Has, One, Accepted
  <2>2. Cardinality(AtWith(Accepted, u)') =
          Cardinality(AtWith(Accepted, u)) - Has(worker[w], Accepted, u) + Has(v, Accepted, u)
    BY <1>1, <1>3, CountWithMoves
  <2>3. Cardinality(AtWith(Accepted, u)) \in Nat /\ One(u = t) \in Nat
    BY WorkersFinite DEF One
  <2>4. QED BY <2>1, <2>2, <2>3
<1>5. ASSUME NEW S, S \cap {"idle", "received"} = {}
      PROVE  /\ Cardinality(At(S)') = Cardinality(At(S))
             /\ \A u : Cardinality(AtWith(S, u)') = Cardinality(AtWith(S, u))
  <2>1. worker[w].stage \notin S /\ v.stage \notin S
    BY <1>1, <1>5
  <2>2. At(S)' = At(S)
    BY <1>3, <2>1 DEF At
  <2>3. \A u : AtWith(S, u)' = AtWith(S, u)
    BY <1>3, <2>1 DEF At, AtWith
  <2>4. QED BY <2>2, <2>3
<1>6. QED BY <1>1, <1>2, <1>3, <1>4, <1>5 DEF v

\* enqueue: an attempt stays open unless there is no room for it.
LEMMA EnqueueOpens ==
  ASSUME Types, NEW t \in Targets, Enqueue(t)
  PROVE  /\ \A u \in Targets \ {t} : Open(u)' = Open(u)
         /\ Open(t)' = Open(t) - One(scheduler'[t] = "dropping")
         /\ Open(t) > 0
<1>1. scheduler[t] = "due"
  BY DEF Enqueue
<1>2. One(scheduler[t] = "due") = 1 /\ One("waiting" = "due") = 0 /\ One("dropping" = "due") = 0
      /\ One("dropping" = "dropping") = 1 /\ One("waiting" = "dropping") = 0
  BY <1>1 DEF One
<1>3. Open(t) > 0 /\ Open(t) \in Nat
  BY <1>2, OpenIs, OpenType
<1>4. ASSUME scheduler' = [scheduler EXCEPT ![t] = "waiting"]
      PROVE  scheduler'[t] = "waiting" /\ \A u \in Targets \ {t} : scheduler'[u] = scheduler[u]
  BY <1>4 DEF Types
<1>5. CASE scheduler' = [scheduler EXCEPT ![t] = "waiting"] /\ jobs' = Append(jobs, t)
             /\ UNCHANGED worker
  <2>1. ASSUME NEW u \in Targets
        PROVE  Cardinality(Queued(jobs, u)') =
                 Cardinality(Queued(jobs, u)) + (IF t = u THEN 1 ELSE 0)
    <3>1. jobs \in Seq(Targets) /\ Queued(jobs, u)' = Queued(Append(jobs, t), u)
      BY <1>5 DEF Types, Queued
    <3>2. QED BY <3>1, QueuedAppend
  <2>2. ASSUME NEW u
        PROVE  Open(u)' = One(scheduler'[u] = "due") + Cardinality(Queued(jobs, u)')
                            + Cardinality(AtWith(Accepted, u))
    <3>1. AtWith(Accepted, u)' = AtWith(Accepted, u)
      BY <1>5 DEF AtWith, At
    <3>2. QED BY <3>1 DEF Open, One, Queued
  <2>3. ASSUME NEW u \in Targets \ {t} PROVE Open(u)' = Open(u)
    <3>1. Cardinality(Queued(jobs, u)') = Cardinality(Queued(jobs, u))
      BY <2>1, OpenType
    <3>2. QED BY <1>4, <1>5, <2>2, <3>1, OpenIs
  <2>4. Open(t)' = Open(t)
    <3>1. Open(t)' = 0 + (Cardinality(Queued(jobs, t)) + 1) + Cardinality(AtWith(Accepted, t))
      BY <1>2, <1>4, <1>5, <2>1, <2>2
    <3>2. Open(t) = 1 + Cardinality(Queued(jobs, t)) + Cardinality(AtWith(Accepted, t))
      BY <1>2, OpenIs
    <3>3. QED BY <3>1, <3>2, OpenType
  <2>5. QED BY <1>2, <1>3, <1>4, <1>5, <2>3, <2>4
<1>6. ASSUME NEW w \in Pool, worker[w].stage = "idle", Receive(w, t),
             scheduler' = [scheduler EXCEPT ![t] = "waiting"], UNCHANGED jobs
      PROVE  /\ \A u \in Targets : Open(u)' = Open(u)
             /\ scheduler'[t] = "waiting"
  <2>1. \A u : Cardinality(AtWith(Accepted, u)') = Cardinality(AtWith(Accepted, u)) + One(u = t)
    BY <1>6, Received DEF Pool
  <2>2. ASSUME NEW u
        PROVE  Open(u)' = One(scheduler'[u] = "due") + Cardinality(Queued(jobs, u))
                            + Cardinality(AtWith(Accepted, u)')
    BY <1>6 DEF Open, One, Queued
  <2>3. ASSUME NEW u \in Targets \ {t} PROVE Open(u)' = Open(u)
    <3>1. Cardinality(AtWith(Accepted, u)') = Cardinality(AtWith(Accepted, u))
      BY <2>1, OpenType DEF One
    <3>2. QED BY <1>4, <1>6, <2>2, <3>1, OpenIs
  <2>4. Open(t)' = Open(t)
    <3>1. Open(t)' = 0 + Cardinality(Queued(jobs, t)) + (Cardinality(AtWith(Accepted, t)) + 1)
      BY <1>2, <1>4, <1>6, <2>1, <2>2 DEF One
    <3>2. Open(t) = 1 + Cardinality(Queued(jobs, t)) + Cardinality(AtWith(Accepted, t))
      BY <1>2, OpenIs
    <3>3. QED BY <3>1, <3>2, OpenType
  <2>5. QED BY <1>4, <1>6, <2>3, <2>4
<1>7. CASE scheduler' = [scheduler EXCEPT ![t] = "dropping"] /\ UNCHANGED <<jobs, worker>>
  <2>1. /\ scheduler'[t] = "dropping" /\ \A u \in Targets \ {t} : Open(u)' = Open(u)
        /\ Open(t)' = Open(t) - One(scheduler[t] = "due") + One("dropping" = "due")
    BY <1>7, SchedulerOpens
  <2>2. QED BY <1>2, <1>3, <2>1
<1>8. CASE scheduler' = [scheduler EXCEPT ![t] = "waiting"] /\ UNCHANGED jobs
             /\ \E w \in Pool : worker[w].stage = "idle" /\ Receive(w, t)
  BY <1>2, <1>3, <1>6, <1>8
<1>9. QED BY <1>5, <1>7, <1>8 DEF Enqueue

\* A job taken from the queue stays open.
LEMMA TakeJobOpens ==
  ASSUME Types, NEW w \in Pool, TakeJob(w)
  PROVE  /\ Head(jobs) \in Targets /\ Receive(w, Head(jobs)) /\ worker[w].stage = "idle"
         /\ \A u : Open(u)' = Open(u)
<1>1. PICK t \in Targets : t = Head(jobs)
  BY DEF Types, TakeJob
<1>2. /\ w \in Workers /\ worker[w].stage = "idle" /\ jobs # << >> /\ jobs' = Tail(jobs)
      /\ Receive(w, t) /\ UNCHANGED scheduler
  BY <1>1 DEF TakeJob, schedulerVars, Pool
<1>3. ASSUME NEW u PROVE Open(u)' = Open(u)
  <2>1. jobs \in Seq(Targets) /\ Tail(jobs) \in Seq(Targets)
    BY <1>2 DEF Types
  <2>2. Queued(jobs, u)' = Queued(Tail(jobs), u)
    BY <1>2 DEF Queued
  <2>3. /\ Cardinality(Queued(jobs, u)) = Cardinality(Queued(jobs, u)') + One(u = t)
        /\ Cardinality(Queued(jobs, u)') \in Nat
    BY <1>1, <1>2, <2>1, <2>2, QueuedTail, QueuedFinite DEF One
  <2>4. Cardinality(AtWith(Accepted, u)') = Cardinality(AtWith(Accepted, u)) + One(u = t)
    BY <1>2, Received
  <2>5. Open(u)' = One(scheduler[u] = "due") + Cardinality(Queued(jobs, u)')
                     + Cardinality(AtWith(Accepted, u)')
    BY <1>2 DEF Open, One, Queued
  <2>6. One(u = t) \in Nat
    BY DEF One
  <2>7. QED BY <2>3, <2>4, <2>5, <2>6, OpenIs, OpenType
<1>4. QED BY <1>1, <1>2, <1>3

-----------------------------------------------------------------------------
(* The counters.                                                           *)

\* SignalsAgree, by target.
Signals(t) ==
  /\ Lost(t) = 0 \/ (Lost(t) = 1 /\ scheduler[t] = "returned")
  /\ traffic[t] = Cardinality(AtWith(Busy, t)) + latency[t]
  /\ errors[t] + Cardinality(AtWith({"observed"}, t)) <= latency[t]

LEMMA SignalsIff ==
  SignalsAgree <=> (\A t \in Targets : Signals(t)) /\ saturation = Cardinality(At(Saturated))
  BY DEF SignalsAgree, Signals

\* What Lost subtracts.
LEMMA LostIs ==
  ASSUME NEW t
  PROVE  Lost(t) = ticks[t] - (Open(t) + One(scheduler[t] = "dropping") + dropped[t] + traffic[t])
  BY DEF Lost, One

\* All of it is natural numbers.
LEMMA CountersType ==
  ASSUME Types, NEW t \in Targets
  PROVE  /\ ticks[t] \in Nat /\ dropped[t] \in Nat /\ traffic[t] \in Nat /\ latency[t] \in Nat
         /\ errors[t] \in Nat /\ Open(t) \in Nat /\ One(scheduler[t] = "dropping") \in Nat
         /\ Cardinality(AtWith(Busy, t)) \in Nat /\ Cardinality(AtWith({"observed"}, t)) \in Nat
<1>1. Open(t) \in Nat /\ One(scheduler[t] = "dropping") \in Nat
  BY OpenType DEF One
<1>2. Cardinality(AtWith(Busy, t)) \in Nat /\ Cardinality(AtWith({"observed"}, t)) \in Nat
  BY WorkersFinite
<1>3. QED BY <1>1, <1>2 DEF Types

\* A step that loses no attempt, or the one of a scheduler that returns.
Keeps(t) ==
  \/ Lost(t)' = Lost(t) /\ (scheduler[t] = "returned" => scheduler'[t] = "returned")
  \/ Lost(t)' = 1 /\ scheduler'[t] = "returned"

\* A step of a scheduler, or of nobody.
LEMMA SignalsStay ==
  ASSUME SignalsAgree, UNCHANGED <<traffic, latency, errors, saturation>>,
         \A t \in Targets : Keeps(t),
         \A S : S \cap {"idle", "received"} = {} =>
           /\ Cardinality(At(S)') = Cardinality(At(S))
           /\ \A t : Cardinality(AtWith(S, t)') = Cardinality(AtWith(S, t))
  PROVE  SignalsAgree'
<1>1. /\ Cardinality(At(Saturated)') = Cardinality(At(Saturated))
      /\ \A t : Cardinality(AtWith(Busy, t)') = Cardinality(AtWith(Busy, t))
      /\ \A t : Cardinality(AtWith({"observed"}, t)') = Cardinality(AtWith({"observed"}, t))
  <2>1. /\ Saturated \cap {"idle", "received"} = {} /\ Busy \cap {"idle", "received"} = {}
        /\ {"observed"} \cap {"idle", "received"} = {}
    BY DEF Saturated, Busy
  <2>2. QED BY <2>1
<1>2. ASSUME NEW t \in Targets PROVE Signals(t)'
  <2>1. Signals(t) /\ Keeps(t)
    BY SignalsIff
  <2>2. /\ traffic'[t] = Cardinality(AtWith(Busy, t)') + latency'[t]
        /\ errors'[t] + Cardinality(AtWith({"observed"}, t)') <= latency'[t]
    BY <1>1, <2>1 DEF Signals
  <2>3. QED BY <2>1, <2>2 DEF Signals, Keeps
<1>3. QED BY <1>1, <1>2, SignalsIff DEF SignalsAgree, Signals

\* The counters of t move as worker w, that goes on as v, does.
Moves(w, v, t) ==
  /\ traffic'[t] = traffic[t] + Has(worker[w], Accepted, t) - Has(v, Accepted, t)
  /\ traffic'[t] - latency'[t] =
       traffic[t] - latency[t] - Has(worker[w], Busy, t) + Has(v, Busy, t)
  /\ errors'[t] - errors[t] - Has(worker[w], {"observed"}, t) + Has(v, {"observed"}, t)
       <= latency'[t] - latency[t]

\* The two counts of probes move with it.
LEMMA ProbesMove ==
  ASSUME worker \in [Workers -> Worker], NEW w \in Workers, NEW v,
         worker' = [worker EXCEPT ![w] = v], NEW t
  PROVE  /\ Cardinality(AtWith(Busy, t)') =
              Cardinality(AtWith(Busy, t)) - Has(worker[w], Busy, t) + Has(v, Busy, t)
         /\ Cardinality(AtWith({"observed"}, t)') =
              Cardinality(AtWith({"observed"}, t)) - Has(worker[w], {"observed"}, t)
                + Has(v, {"observed"}, t)
<1>1. Cardinality(AtWith(Busy, t)') =
        Cardinality(AtWith(Busy, t)) - Has(worker[w], Busy, t) + Has(v, Busy, t)
  BY CountWithMoves, ZenonT(60)
<1>2. Cardinality(AtWith({"observed"}, t)') =
        Cardinality(AtWith({"observed"}, t)) - Has(worker[w], {"observed"}, t)
          + Has(v, {"observed"}, t)
  BY CountWithMoves, ZenonT(60)
<1>3. QED BY <1>1, <1>2

\* A step of a worker moves its probe from one count to the next.
LEMMA SignalsMove ==
  ASSUME Types, Types', SignalsAgree, NEW w \in Workers, NEW v \in Worker,
         worker' = [worker EXCEPT ![w] = v],
         UNCHANGED <<scheduler, ticks, jobs, dropped>>,
         \A t \in Targets : Moves(w, v, t),
         saturation' =
           saturation - One(worker[w].stage \in Saturated) + One(v.stage \in Saturated)
  PROVE  SignalsAgree'
<1>1. ASSUME NEW t \in Targets PROVE Signals(t)'
  <2> DEFINE busy == Cardinality(AtWith(Busy, t))
             observed == Cardinality(AtWith({"observed"}, t))
  <2>1. Signals(t) /\ worker \in [Workers -> Worker] /\ Moves(w, v, t)
    BY SignalsIff DEF Types
  <2>2. /\ ticks[t] \in Nat /\ dropped[t] \in Nat /\ traffic[t] \in Nat /\ latency[t] \in Nat
        /\ errors[t] \in Nat /\ Open(t) \in Nat /\ One(scheduler[t] = "dropping") \in Nat
        /\ busy \in Nat /\ observed \in Nat
        /\ traffic'[t] \in Nat /\ latency'[t] \in Nat /\ errors'[t] \in Nat
    BY CountersType DEF Types
  <2>3. \A S : Has(worker[w], S, t) \in Nat /\ Has(v, S, t) \in Nat
    BY DEF Has, One
  <2>4. Keeps(t)
    <3>1. Open(t)' = Open(t) - Has(worker[w], Accepted, t) + Has(v, Accepted, t)
      BY WorkerOpens
    <3>2. Lost(t)' = ticks[t] - (Open(t)' + One(scheduler[t] = "dropping") + dropped[t]
                                   + traffic'[t])
      BY DEF Lost, One
    <3>3. QED BY <2>1, <2>2, <2>3, <3>1, <3>2, LostIs DEF Keeps, Moves
  <2>5. traffic'[t] = busy' + latency'[t]
    <3>1. busy' = busy - Has(worker[w], Busy, t) + Has(v, Busy, t)
      BY <2>1, ProbesMove
    <3>2. traffic[t] = busy + latency[t]
      BY <2>1 DEF Signals
    <3>3. QED BY <2>1, <2>2, <2>3, <3>1, <3>2 DEF Moves
  <2>6. errors'[t] + observed' <= latency'[t]
    <3>1. observed' = observed - Has(worker[w], {"observed"}, t) + Has(v, {"observed"}, t)
      BY <2>1, ProbesMove
    <3>2. errors[t] + observed <= latency[t]
      BY <2>1 DEF Signals
    <3>3. QED BY <2>1, <2>2, <2>3, <3>1, <3>2 DEF Moves
  <2>7. QED BY <2>1, <2>4, <2>5, <2>6 DEF Signals, Keeps
<1>2. (saturation = Cardinality(At(Saturated)))'
  <2>1. Cardinality(At(Saturated)') = Cardinality(At(Saturated))
            - One(worker[w].stage \in Saturated) + One(v.stage \in Saturated)
    BY CountMoves DEF Types
  <2>2. QED BY <2>1, SignalsIff
<1>3. QED BY <1>1, <1>2, SignalsIff DEF SignalsAgree, Signals

-----------------------------------------------------------------------------
(* The actions of the schedulers.                                          *)

\* No worker moves.
LEMMA CountsStay ==
  ASSUME UNCHANGED worker
  PROVE  \A S : S \cap {"idle", "received"} = {} =>
           /\ Cardinality(At(S)') = Cardinality(At(S))
           /\ \A t : Cardinality(AtWith(S, t)') = Cardinality(AtWith(S, t))
<1>1. ASSUME NEW S PROVE At(S)' = At(S) /\ \A t : AtWith(S, t)' = AtWith(S, t)
  BY DEF At, AtWith
<1>2. QED BY <1>1

\* The attempts that a scheduler in this state holds.
Held(state) == One(state = "due") + One(state = "dropping")

\* No attempt of t comes or goes unless it is counted, but for the one that a
\* scheduler abandons.
Settles(t, state) ==
  ticks'[t] - ticks[t] = Held(state) - Held(scheduler[t]) + (dropped'[t] - dropped[t])
Abandons(t, state) ==
  /\ state = "returned" /\ scheduler[t] = "due"
  /\ ticks'[t] = ticks[t] /\ dropped'[t] = dropped[t]

\* a and c give way to b and e.
LEMMA Balance ==
  ASSUME NEW k \in Int, NEW k2 \in Int, NEW o \in Int, NEW a \in Int, NEW b \in Int,
         NEW c \in Int, NEW e \in Int, NEW d \in Int, NEW d2 \in Int, NEW n \in Int,
         k2 - k = b + e - (a + c) + (d2 - d)
  PROVE  k2 - (o - a + b + e + d2 + n) = k - (o + c + d + n)
  OBVIOUS

\* What a step of one scheduler has to show for itself.
LEMMA SchedulerKeeps ==
  ASSUME Inv, NEW t \in Targets, NEW state \in {"waiting", "due", "dropping", "returned"},
         scheduler[t] # "returned", scheduler' = [scheduler EXCEPT ![t] = state],
         UNCHANGED <<config, ctxDone, panicked, jobs, worker, sem, traffic, latency, errors,
                     saturation, expiry>>,
         ticks' \in [Targets -> Nat], \A u \in Targets : ticks'[u] <= MaxTicks,
         dropped' \in [Targets -> Nat],
         \A u \in Targets \ {t} : ticks'[u] = ticks[u] /\ dropped'[u] = dropped[u],
         Settles(t, state) \/ Abandons(t, state)
  PROVE  Inv'
<1>1. Types /\ environ' = environ
  BY DEF Inv, config
<1>2. Types'
  <2>1. scheduler' \in [Targets -> {"new", "waiting", "due", "dropping", "returned"}]
    BY <1>1 DEF Types
  <2>2. QED BY <1>1, <2>1, ConfigKept DEF Types, config
<1>3. ASSUME NEW u \in Targets PROVE Keeps(u)
  <2>1. /\ scheduler'[t] = state /\ \A x \in Targets \ {t} : scheduler'[x] = scheduler[x]
        /\ \A x \in Targets \ {t} : Open(x)' = Open(x)
        /\ Open(t)' = Open(t) - One(scheduler[t] = "due") + One(state = "due")
    BY <1>1, SchedulerOpens
  <2>2. Lost(u)' = ticks'[u] - (Open(u)' + One(scheduler'[u] = "dropping") + dropped'[u]
                                  + traffic[u])
    BY DEF Lost, One
  <2>3. CASE u # t
    <3>1. Lost(u)' = Lost(u)
      BY <2>1, <2>2, <2>3, LostIs
    <3>2. QED BY <2>1, <2>3, <3>1 DEF Keeps
  <2>4. CASE u = t
    <3>1. /\ ticks[t] \in Nat /\ dropped[t] \in Nat /\ traffic[t] \in Nat /\ Open(t) \in Nat
          /\ ticks'[t] \in Nat /\ dropped'[t] \in Nat
      BY <1>1, CountersType
    <3>2. /\ One(scheduler[t] = "due") \in Nat /\ One(scheduler[t] = "dropping") \in Nat
          /\ One(state = "due") \in Nat /\ One(state = "dropping") \in Nat
      BY DEF One
    <3>3. Lost(t) = ticks[t] - (Open(t) + One(scheduler[t] = "dropping") + dropped[t]
                                  + traffic[t])
      BY LostIs
    <3>4. Lost(t)' = ticks'[t] - (Open(t) - One(scheduler[t] = "due") + One(state = "due")
                                    + One(state = "dropping") + dropped'[t] + traffic[t])
      BY <2>1, <2>2, <2>4
    <3>5. CASE Settles(t, state)
      <4>1. Lost(t)' = Lost(t)
        <5>1. ticks'[t] - ticks[t] =
                One(state = "due") + One(state = "dropping")
                  - (One(scheduler[t] = "due") + One(scheduler[t] = "dropping"))
                  + (dropped'[t] - dropped[t])
          BY <3>1, <3>2, <3>5 DEF Settles, Held
        <5>2. ticks'[t] - (Open(t) - One(scheduler[t] = "due") + One(state = "due")
                              + One(state = "dropping") + dropped'[t] + traffic[t]) =
                ticks[t] - (Open(t) + One(scheduler[t] = "dropping") + dropped[t] + traffic[t])
          BY <3>1, <3>2, <5>1, Balance
        <5>3. QED BY <2>4, <3>3, <3>4, <5>2
      <4>2. QED BY <2>1, <2>4, <4>1 DEF Keeps
    <3>6. CASE Abandons(t, state)
      <4>1. /\ state = "returned" /\ scheduler[t] = "due"
            /\ ticks'[t] = ticks[t] /\ dropped'[t] = dropped[t]
        BY <3>6 DEF Abandons
      <4>2. /\ One(scheduler[t] = "due") = 1 /\ One(scheduler[t] = "dropping") = 0
            /\ One(state = "due") = 0 /\ One(state = "dropping") = 0
        BY <4>1 DEF One
      <4>3. Lost(t) = 0
        <5>1. Signals(t)
          BY SignalsIff DEF Inv
        <5>2. QED BY <4>1, <5>1 DEF Signals
      <4>4. Lost(t)' = 1
        BY <3>1, <3>3, <3>4, <4>1, <4>2, <4>3
      <4>5. QED BY <2>1, <2>4, <4>1, <4>4 DEF Keeps
    <3>7. QED BY <3>5, <3>6
  <2>5. QED BY <2>3, <2>4
<1>4. SignalsAgree'
  BY <1>3, CountsStay, SignalsStay DEF Inv
<1>5. Placed' /\ TokensHeld' /\ Verdicts' /\ NeverWaits'
  BY <1>1, WorkersStay DEF Types
<1>6. QED BY <1>2, <1>4, <1>5 DEF Inv

\* The start of a scheduler and a tick: one more attempt is due.
LEMMA AttemptKeeps ==
  ASSUME Inv, NEW t \in Targets, scheduler[t] \in {"new", "waiting"}, ticks[t] < MaxTicks,
         scheduler' = [scheduler EXCEPT ![t] = "due"], ticks' = [ticks EXCEPT ![t] = @ + 1],
         UNCHANGED <<config, ctxDone, panicked, jobs, worker, sem, metrics>>
  PROVE  Inv'
<1>1. /\ ticks \in [Targets -> Nat] /\ dropped \in [Targets -> Nat]
      /\ \A u \in Targets : ticks[u] <= MaxTicks
  BY DEF Inv, Types
<1>2. ticks' \in [Targets -> Nat]
  BY <1>1
<1>3. \A u \in Targets : ticks'[u] <= MaxTicks
  BY <1>1, PipelineAssumption
<1>4. Held(scheduler[t]) = 0 /\ Held("due") = 1
  BY DEF Held, One
<1>5. ticks'[t] = ticks[t] + 1 /\ dropped'[t] = dropped[t]
      /\ ticks[t] \in Nat /\ dropped[t] \in Nat
  BY <1>1 DEF metrics
<1>6. Settles(t, "due")
  BY <1>4, <1>5 DEF Settles
<1>7. QED BY <1>1, <1>2, <1>3, <1>6, SchedulerKeeps DEF metrics

\* A scheduler that returns loses the attempt that is due.
LEMMA SchedulerReturnsKeeps ==
  ASSUME Inv, NEW t \in Targets, SchedulerReturns(t) PROVE Inv'
<1>1. /\ ticks \in [Targets -> Nat] /\ dropped \in [Targets -> Nat]
      /\ \A u \in Targets : ticks[u] <= MaxTicks
  BY DEF Inv, Types
<1>2. /\ scheduler[t] \in {"waiting", "due"}
      /\ scheduler' = [scheduler EXCEPT ![t] = "returned"]
      /\ UNCHANGED <<config, ctxDone, panicked, ticks, jobs, worker, sem, metrics>>
  BY DEF SchedulerReturns
<1>3. CASE scheduler[t] = "due"
  <2>1. Abandons(t, "returned")
    BY <1>2, <1>3 DEF Abandons, metrics
  <2>2. QED BY <1>1, <1>2, <1>3, <2>1, SchedulerKeeps DEF metrics
<1>4. CASE scheduler[t] = "waiting"
  <2>1. Held(scheduler[t]) = 0 /\ Held("returned") = 0
    BY <1>4 DEF Held, One
  <2>2. /\ ticks'[t] = ticks[t] /\ dropped'[t] = dropped[t]
        /\ ticks[t] \in Nat /\ dropped[t] \in Nat
    BY <1>1, <1>2 DEF metrics
  <2>3. Settles(t, "returned")
    BY <2>1, <2>2 DEF Settles
  <2>4. QED BY <1>1, <1>2, <2>3, SchedulerKeeps DEF metrics
<1>5. QED BY <1>2, <1>3, <1>4

\* A drop that is counted.
LEMMA DropKeeps ==
  ASSUME Inv, NEW t \in Targets, Drop(t) PROVE Inv'
<1>1. /\ ticks \in [Targets -> Nat] /\ dropped \in [Targets -> Nat]
      /\ \A u \in Targets : ticks[u] <= MaxTicks
  BY DEF Inv, Types
<1>2. /\ scheduler[t] = "dropping" /\ scheduler' = [scheduler EXCEPT ![t] = "waiting"]
      /\ dropped' = [dropped EXCEPT ![t] = @ + 1]
      /\ UNCHANGED <<config, ctxDone, panicked, ticks, jobs, worker, sem, traffic, latency,
                     errors, saturation, expiry>>
  BY DEF Drop, DropInc
<1>3. dropped' \in [Targets -> Nat]
  BY <1>1, <1>2
<1>4. Held(scheduler[t]) = 1 /\ Held("waiting") = 0
  BY <1>2 DEF Held, One
<1>5. /\ ticks'[t] = ticks[t] /\ dropped'[t] = dropped[t] + 1
      /\ ticks[t] \in Nat /\ dropped[t] \in Nat
  BY <1>1, <1>2
<1>6. Settles(t, "waiting")
  BY <1>4, <1>5 DEF Settles
<1>7. QED BY <1>1, <1>2, <1>3, <1>6, SchedulerKeeps

-----------------------------------------------------------------------------
(* The ways to a worker.                                                   *)

\* A job received has no token, no verdict and no metric yet.
LEMMA ReceiveKeeps ==
  ASSUME Inv, NEW w \in Pool, NEW t \in Targets, worker[w].stage = "idle", Receive(w, t),
         UNCHANGED <<config, ctxDone, sem>>
  PROVE  /\ Placed' /\ TokensHeld' /\ Verdicts' /\ NeverWaits'
         /\ worker' \in [Workers -> Worker]
         /\ \A S : S \cap {"idle", "received"} = {} =>
              /\ Cardinality(At(S)') = Cardinality(At(S))
              /\ \A u : Cardinality(AtWith(S, u)') = Cardinality(AtWith(S, u))
<1> DEFINE v == Holds("received", t)
<1>1. /\ Types /\ environ' = environ /\ w \in Workers /\ sem' = sem /\ sem \in Int
      /\ worker \in [Workers -> Worker]
  BY DEF Inv, Types, config, Pool
<1>2. /\ v \in Worker /\ v.stage = "received" /\ Proper(v)
      /\ worker' = [worker EXCEPT ![w] = v]
      /\ \A S : S \cap {"idle", "received"} = {} =>
           /\ Cardinality(At(S)') = Cardinality(At(S))
           /\ \A u : Cardinality(AtWith(S, u)') = Cardinality(AtWith(S, u))
  BY <1>1, Received
<1> HIDE DEF v
<1>3. TokensHeld'
  <2>1. One(worker[w].stage = "execute") = 0 /\ One(v.stage = "execute") = 0
    BY <1>2 DEF One
  <2>2. sem' = sem - One(worker[w].stage = "execute") + One(v.stage = "execute")
    BY <1>1, <2>1
  <2>3. QED BY <1>1, <1>2, <2>2, TokensMove DEF Inv
<1>4. v.stage \notin Busy
  BY <1>2 DEF Busy
<1>5. Placed' /\ Verdicts' /\ NeverWaits'
  BY <1>2, <1>4, WorkerMoves
<1>6. QED BY <1>1, <1>2, <1>3, <1>5

\* An attempt is queued, handed to a worker, or about to be dropped.
LEMMA EnqueueKeeps ==
  ASSUME Inv, NEW t \in Targets, Enqueue(t) PROVE Inv'
<1>1. /\ Types /\ environ' = environ /\ fleet' = fleet /\ scheduler[t] = "due"
      /\ UNCHANGED <<config, ctxDone, panicked, ticks, sem, metrics>>
  BY DEF Inv, Enqueue, config
<1>2. /\ \E state \in {"waiting", "dropping"} : scheduler' = [scheduler EXCEPT ![t] = state]
      /\ \/ UNCHANGED worker
         \/ \E w \in Pool : worker[w].stage = "idle" /\ Receive(w, t)
      /\ jobs' = jobs \/ (HasRoom /\ jobs' = Append(jobs, t))
  BY DEF Enqueue
<1>3. /\ Placed' /\ TokensHeld' /\ Verdicts' /\ NeverWaits'
      /\ worker' \in [Workers -> Worker]
      /\ \A S : S \cap {"idle", "received"} = {} =>
           /\ Cardinality(At(S)') = Cardinality(At(S))
           /\ \A u : Cardinality(AtWith(S, u)') = Cardinality(AtWith(S, u))
  <2>1. CASE UNCHANGED worker
    <3>1. worker' \in [Workers -> Worker]
      BY <1>1, <2>1 DEF Types
    <3>2. Placed' /\ TokensHeld' /\ Verdicts' /\ NeverWaits'
      BY <1>1, <2>1, WorkersStay DEF Types
    <3>3. QED BY <2>1, <3>1, <3>2, CountsStay
  <2>2. CASE \E w \in Pool : worker[w].stage = "idle" /\ Receive(w, t)
    BY <1>1, <2>2, ReceiveKeeps
  <2>3. QED BY <1>2, <2>1, <2>2
<1>4. /\ scheduler' \in [Targets -> {"new", "waiting", "due", "dropping", "returned"}]
      /\ \A u \in Targets \ {t} : scheduler'[u] = scheduler[u]
  BY <1>1, <1>2 DEF Types
<1>5. Types'
  <2>1. jobs' \in Seq(Targets) /\ (Len(jobs') <= jobQueueSize \/ jobs' = << >>)
    <3>1. CASE jobs' = jobs
      BY <1>1, <3>1 DEF Types
    <3>2. CASE HasRoom /\ jobs' = Append(jobs, t)
      <4>1. jobs' \in Seq(Targets) /\ Len(jobs') = Len(jobs) + 1 /\ Len(jobs) \in Nat
        BY <1>1, <3>2 DEF Types
      <4>2. Len(jobs') <= jobQueueSize
        BY <1>1, <3>2, <4>1, ConfigType DEF HasRoom
      <4>3. QED BY <4>1, <4>2
    <3>3. QED BY <1>2, <3>1, <3>2
  <2>2. QED BY <1>1, <1>3, <1>4, <2>1, ConfigKept DEF Types, metrics
<1>6. ASSUME NEW u \in Targets PROVE Keeps(u)
  <2>1. Lost(u)' = ticks[u] - (Open(u)' + One(scheduler'[u] = "dropping") + dropped[u]
                                  + traffic[u])
    BY <1>1 DEF Lost, One, metrics
  <2>2. /\ \A x \in Targets \ {t} : Open(x)' = Open(x)
        /\ Open(t)' = Open(t) - One(scheduler'[t] = "dropping")
    BY <1>1, EnqueueOpens
  <2>3. CASE u # t
    <3>1. Lost(u)' = Lost(u)
      BY <1>4, <2>1, <2>2, <2>3, LostIs
    <3>2. QED BY <1>4, <2>3, <3>1 DEF Keeps
  <2>4. CASE u = t
    <3>1. One(scheduler[t] = "dropping") = 0 /\ One(scheduler'[t] = "dropping") \in Nat
      BY <1>1 DEF One
    <3>2. /\ ticks[t] \in Nat /\ dropped[t] \in Nat /\ traffic[t] \in Nat /\ Open(t) \in Nat
      BY <1>1, CountersType
    <3>3. Lost(t)' = ticks[t] - (Open(t) - One(scheduler'[t] = "dropping")
                                   + One(scheduler'[t] = "dropping") + dropped[t] + traffic[t])
      BY <2>1, <2>2, <2>4
    <3>4. Lost(t) = ticks[t] - (Open(t) + 0 + dropped[t] + traffic[t])
      BY <3>1, LostIs
    <3>5. Lost(t)' = Lost(t)
      BY <3>1, <3>2, <3>3, <3>4
    <3>6. QED BY <1>1, <2>4, <3>5 DEF Keeps
  <2>5. QED BY <2>3, <2>4
<1>7. SignalsAgree'
  BY <1>1, <1>3, <1>6, SignalsStay DEF Inv, metrics
<1>8. QED BY <1>3, <1>5, <1>7 DEF Inv

\* A worker takes the job at the head of the queue.
LEMMA TakeJobKeeps ==
  ASSUME Inv, NEW w \in Pool, TakeJob(w) PROVE Inv'
<1>1. /\ Types /\ environ' = environ /\ fleet' = fleet
      /\ UNCHANGED <<config, ctxDone, panicked, scheduler, ticks, sem, metrics>>
      /\ jobs # << >> /\ jobs' = Tail(jobs)
  BY DEF Inv, TakeJob, config, schedulerVars
<1>2. PICK t \in Targets : t = Head(jobs)
  BY <1>1 DEF Types
<1>3. worker[w].stage = "idle" /\ Receive(w, t) /\ \A u : Open(u)' = Open(u)
  BY <1>1, <1>2, TakeJobOpens
<1>4. /\ Placed' /\ TokensHeld' /\ Verdicts' /\ NeverWaits'
      /\ worker' \in [Workers -> Worker]
      /\ \A S : S \cap {"idle", "received"} = {} =>
           /\ Cardinality(At(S)') = Cardinality(At(S))
           /\ \A u : Cardinality(AtWith(S, u)') = Cardinality(AtWith(S, u))
  BY <1>1, <1>3, ReceiveKeeps
<1>5. Types'
  <2>1. Tail(jobs) \in Seq(Targets) /\ Len(Tail(jobs)) = Len(jobs) - 1 /\ Len(jobs) \in Nat
    BY <1>1 DEF Types
  <2>2. jobQueueSize' = jobQueueSize /\ jobQueueSize \in Int
    BY <1>1, ConfigKept, ConfigType
  <2>3. Len(jobs') <= jobQueueSize
    BY <1>1, <2>1, <2>2 DEF Types
  <2>4. QED BY <1>1, <1>4, <2>1, <2>2, <2>3 DEF Types, metrics
<1>6. ASSUME NEW u \in Targets PROVE Keeps(u)
  <2>1. Lost(u)' = ticks[u] - (Open(u) + One(scheduler[u] = "dropping") + dropped[u]
                                  + traffic[u])
    BY <1>1, <1>3 DEF Lost, One, metrics
  <2>2. QED BY <1>1, <2>1, LostIs DEF Keeps
<1>7. SignalsAgree'
  BY <1>1, <1>4, <1>6, SignalsStay DEF Inv, metrics
<1>8. QED BY <1>4, <1>5, <1>7 DEF Inv

-----------------------------------------------------------------------------
(* The steps of ProbeTarget that touch the metrics.                        *)

\* A worker with a job, and what its counters are.
LEMMA JobOf ==
  ASSUME Inv, NEW w \in Pool, worker[w].stage \notin {"idle", "exited"}
  PROVE  /\ w \in Workers /\ worker[w] \in Worker /\ Proper(worker[w])
         /\ worker[w].target \in Targets
<1>1. w \in Workers /\ worker[w] \in Worker
  BY DEF Pool, Inv, Types
<1>2. Proper(worker[w])
  BY <1>1 DEF Inv, Placed
<1>3. QED BY <1>1, <1>2 DEF Proper

\* What a step of ProbeTarget that needs no token and no prober has to show.
LEMMA MetricKeeps ==
  ASSUME Inv, NEW w \in Pool, NEW v \in Worker, worker' = [worker EXCEPT ![w] = v],
         UNCHANGED <<config, ctxDone, panicked, schedulerVars, jobs, sem, dropped, expiry>>,
         worker[w].stage # "execute", v.stage \notin {"execute", "record"},
         v.stage \notin {"idle", "exited"} => Proper(v), v.stage \in Busy => ~v.waited,
         traffic' \in [Targets -> Nat], latency' \in [Targets -> Nat],
         errors' \in [Targets -> Nat],
         \A t \in Targets : Moves(w, v, t),
         saturation' =
           saturation - One(worker[w].stage \in Saturated) + One(v.stage \in Saturated)
  PROVE  Inv'
<1>1. /\ Types /\ environ' = environ /\ fleet' = fleet /\ w \in Workers
      /\ UNCHANGED <<scheduler, ticks>>
  BY DEF Inv, config, schedulerVars, Pool
<1>2. Types'
  <2>1. worker' \in [Workers -> Worker]
    BY <1>1 DEF Types
  <2>2. saturation' \in Int
    BY <1>1 DEF Types, One
  <2>3. QED BY <1>1, <2>1, <2>2, ConfigKept DEF Types
<1>3. TokensHeld'
  <2>1. One(worker[w].stage = "execute") = 0 /\ One(v.stage = "execute") = 0
    BY DEF One
  <2>2. sem' = sem - One(worker[w].stage = "execute") + One(v.stage = "execute")
    BY <1>1, <2>1 DEF Types
  <2>3. QED BY <1>1, <2>2, TokensMove DEF Inv
<1>4. SignalsAgree'
  BY <1>1, <1>2, SignalsMove DEF Inv
<1>5. Placed' /\ Verdicts' /\ NeverWaits'
  BY WorkerMoves
<1>6. QED BY <1>2, <1>3, <1>4, <1>5 DEF Inv

\* A worker that exits had no job.
LEMMA WorkerExitsKeeps ==
  ASSUME Inv, NEW w \in Pool, WorkerExits(w) PROVE Inv'
<1> DEFINE v == [worker[w] EXCEPT !.stage = "exited"]
<1>1. /\ UNCHANGED <<config, ctxDone, panicked, schedulerVars, jobs, sem, metrics>>
      /\ worker[w].stage = "idle" /\ worker' = [worker EXCEPT ![w] = v] /\ worker[w] \in Worker
  BY DEF Inv, Types, WorkerExits, Pool
<1>2. v \in Worker /\ v.stage = "exited"
  BY <1>1 DEF Worker
<1> HIDE DEF v
<1>3. /\ traffic \in [Targets -> Nat] /\ latency \in [Targets -> Nat]
      /\ errors \in [Targets -> Nat] /\ saturation \in Int
  BY DEF Inv, Types
<1>4. UNCHANGED <<traffic, latency, errors, saturation, dropped, expiry>>
  BY <1>1 DEF metrics
<1>5. ASSUME NEW t \in Targets PROVE Moves(w, v, t)
  <2>1. \A S : "idle" \notin S /\ "exited" \notin S =>
          Has(worker[w], S, t) = 0 /\ Has(v, S, t) = 0
    BY <1>1, <1>2 DEF Has, One
  <2>2. /\ Has(worker[w], Accepted, t) = 0 /\ Has(v, Accepted, t) = 0
        /\ Has(worker[w], Busy, t) = 0 /\ Has(v, Busy, t) = 0
        /\ Has(worker[w], {"observed"}, t) = 0 /\ Has(v, {"observed"}, t) = 0
    BY <2>1 DEF Accepted, Busy
  <2>3. QED BY <1>3, <1>4, <2>2 DEF Moves
<1>6. One(worker[w].stage \in Saturated) = 0 /\ One(v.stage \in Saturated) = 0
  BY <1>1, <1>2 DEF One, Saturated, Busy
<1>7. saturation' =
        saturation - One(worker[w].stage \in Saturated) + One(v.stage \in Saturated)
  BY <1>3, <1>4, <1>6
<1>8. v.stage \notin Busy
  BY <1>2 DEF Busy
<1>9. QED BY <1>1, <1>2, <1>3, <1>4, <1>5, <1>7, <1>8, MetricKeeps

\* The gauge goes up.
LEMMA SaturationIncKeeps ==
  ASSUME Inv, NEW w \in Pool, SaturationInc(w) PROVE Inv'
<1> DEFINE v == [worker[w] EXCEPT !.stage = "saturated"]
<1>1. /\ worker[w].stage = "received" /\ saturation' = saturation + 1
      /\ UNCHANGED <<config, ctxDone, panicked, schedulerVars, jobs, sem, dropped, expiry>>
      /\ UNCHANGED <<traffic, latency, errors>>
  BY DEF SaturationInc
<1>2. worker[w] \in Worker /\ Proper(worker[w])
  BY <1>1, JobOf
<1>3. worker' = [worker EXCEPT ![w] = v]
  BY <1>1, <1>2 DEF SaturationInc
<1>4. /\ v \in Worker /\ v.stage = "saturated" /\ v.target = worker[w].target
      /\ v.category = worker[w].category /\ v.waited = worker[w].waited
  BY <1>2 DEF Worker
<1> HIDE DEF v
<1>5. Proper(v)
  BY <1>1, <1>2, <1>4 DEF Proper, Accepted
<1>6. /\ traffic \in [Targets -> Nat] /\ latency \in [Targets -> Nat]
      /\ errors \in [Targets -> Nat] /\ saturation \in Int
  BY DEF Inv, Types
<1>7. ASSUME NEW t \in Targets PROVE Moves(w, v, t)
  <2>1. /\ Has(worker[w], Accepted, t) = Has(v, Accepted, t) /\ Has(v, Accepted, t) \in Int
        /\ Has(worker[w], Busy, t) = 0 /\ Has(v, Busy, t) = 0
        /\ Has(worker[w], {"observed"}, t) = 0 /\ Has(v, {"observed"}, t) = 0
    BY <1>1, <1>4 DEF Has, One, Accepted, Busy
  <2>2. QED BY <1>1, <1>6, <2>1 DEF Moves
<1>8. One(worker[w].stage \in Saturated) = 0 /\ One(v.stage \in Saturated) = 1
  BY <1>1, <1>4 DEF One, Saturated, Busy
<1>9. saturation' =
        saturation - One(worker[w].stage \in Saturated) + One(v.stage \in Saturated)
  BY <1>1, <1>6, <1>8
<1>10. v.stage \notin Busy
  BY <1>4 DEF Busy
<1>11. QED BY <1>1, <1>3, <1>4, <1>5, <1>6, <1>7, <1>9, <1>10, MetricKeeps

\* A probe counts as traffic and is no longer open.
LEMMA TrafficIncKeeps ==
  ASSUME Inv, NEW w \in Pool, TrafficInc(w) PROVE Inv'
<1> DEFINE v == [worker[w] EXCEPT !.stage = "acquire"]
           u == worker[w].target
<1>1. /\ worker[w].stage = "saturated" /\ traffic' = [traffic EXCEPT ![u] = @ + 1]
      /\ UNCHANGED <<config, ctxDone, panicked, schedulerVars, jobs, sem, dropped, expiry>>
      /\ UNCHANGED <<latency, errors, saturation>>
  BY DEF TrafficInc
<1>2. worker[w] \in Worker /\ Proper(worker[w]) /\ u \in Targets
  BY <1>1, JobOf
<1>3. worker' = [worker EXCEPT ![w] = v]
  BY <1>1, <1>2 DEF TrafficInc
<1>4. /\ v \in Worker /\ v.stage = "acquire" /\ v.target = u
      /\ v.category = worker[w].category /\ v.waited = worker[w].waited
  BY <1>2 DEF Worker
<1> HIDE DEF v
<1>5. Proper(v) /\ ~v.waited
  BY <1>1, <1>2, <1>4 DEF Proper, Accepted
<1>6. /\ traffic \in [Targets -> Nat] /\ latency \in [Targets -> Nat]
      /\ errors \in [Targets -> Nat] /\ saturation \in Int /\ traffic' \in [Targets -> Nat]
  <2>1. /\ traffic \in [Targets -> Nat] /\ latency \in [Targets -> Nat]
        /\ errors \in [Targets -> Nat] /\ saturation \in Int
    BY DEF Inv, Types
  <2>2. QED BY <1>1, <1>2, <2>1
<1>7. ASSUME NEW t \in Targets PROVE Moves(w, v, t)
  <2>1. /\ Has(worker[w], Accepted, t) = One(u = t) /\ Has(v, Accepted, t) = 0
        /\ Has(worker[w], Busy, t) = 0 /\ Has(v, Busy, t) = One(u = t)
        /\ Has(worker[w], {"observed"}, t) = 0 /\ Has(v, {"observed"}, t) = 0
    BY <1>1, <1>4 DEF Has, Accepted, Busy, One
  <2>2. traffic'[t] = traffic[t] + One(u = t)
    BY <1>1, <1>6 DEF One
  <2>3. /\ latency'[t] = latency[t] /\ errors'[t] = errors[t] /\ One(u = t) \in Int
        /\ traffic[t] \in Int /\ latency[t] \in Int /\ errors[t] \in Int
    BY <1>1, <1>6 DEF One
  <2>4. QED BY <2>1, <2>2, <2>3 DEF Moves
<1>8. One(worker[w].stage \in Saturated) = 1 /\ One(v.stage \in Saturated) = 1
  BY <1>1, <1>4 DEF One, Saturated, Busy
<1>9. saturation' =
        saturation - One(worker[w].stage \in Saturated) + One(v.stage \in Saturated)
  BY <1>1, <1>6, <1>8
<1>10. QED BY <1>1, <1>3, <1>4, <1>5, <1>6, <1>7, <1>9, MetricKeeps

\* A probe that is over has its latency; its error, if it has one, comes next.
LEMMA LatencyObserveKeeps ==
  ASSUME Inv, NEW w \in Pool, LatencyObserve(w) PROVE Inv'
<1> DEFINE u == worker[w].target
           stage == IF worker[w].category = "" THEN "counted" ELSE "observed"
           v == Holds(stage, u)
<1>1. /\ worker[w].stage = "record" /\ latency' = [latency EXCEPT ![u] = @ + 1]
      /\ UNCHANGED <<config, ctxDone, panicked, schedulerVars, jobs, sem, dropped, expiry>>
      /\ UNCHANGED <<traffic, errors, saturation>>
      /\ worker' = [worker EXCEPT ![w] = v]
  BY DEF LatencyObserve
<1>2. u \in Targets
  BY <1>1, JobOf
<1>3. /\ v \in Worker /\ v.stage \in {"counted", "observed"} /\ v.target = u
      /\ v.category = "" /\ v.waited = FALSE
  BY <1>2 DEF Worker, Holds, Idle
<1> HIDE DEF v, stage
<1>4. Proper(v)
  BY <1>2, <1>3 DEF Proper
<1>5. /\ traffic \in [Targets -> Nat] /\ latency \in [Targets -> Nat]
      /\ errors \in [Targets -> Nat] /\ saturation \in Int /\ latency' \in [Targets -> Nat]
  <2>1. /\ traffic \in [Targets -> Nat] /\ latency \in [Targets -> Nat]
        /\ errors \in [Targets -> Nat] /\ saturation \in Int
    BY DEF Inv, Types
  <2>2. QED BY <1>1, <1>2, <2>1
<1>6. ASSUME NEW t \in Targets PROVE Moves(w, v, t)
  <2>1. /\ Has(worker[w], Accepted, t) = 0 /\ Has(v, Accepted, t) = 0
        /\ Has(worker[w], Busy, t) = One(u = t) /\ Has(v, Busy, t) = 0
        /\ Has(worker[w], {"observed"}, t) = 0 /\ Has(v, {"observed"}, t) \in {0, One(u = t)}
    <3>1. CASE v.stage = "counted"
      BY <1>1, <1>3, <3>1 DEF Has, Accepted, Busy, One
    <3>2. CASE v.stage = "observed"
      BY <1>1, <1>3, <3>2 DEF Has, Accepted, Busy, One
    <3>3. QED BY <1>3, <3>1, <3>2
  <2>2. latency'[t] = latency[t] + One(u = t)
    BY <1>1, <1>5 DEF One
  <2>3. /\ traffic'[t] = traffic[t] /\ errors'[t] = errors[t] /\ One(u = t) \in Nat
        /\ traffic[t] \in Int /\ latency[t] \in Int /\ errors[t] \in Int
    BY <1>1, <1>5 DEF One
  <2>4. QED BY <2>1, <2>2, <2>3 DEF Moves
<1>7. One(worker[w].stage \in Saturated) = 1 /\ One(v.stage \in Saturated) = 1
  BY <1>1, <1>3 DEF One, Saturated, Busy
<1>8. saturation' =
        saturation - One(worker[w].stage \in Saturated) + One(v.stage \in Saturated)
  BY <1>1, <1>5, <1>7
<1>9. QED BY <1>1, <1>3, <1>4, <1>5, <1>6, <1>8, MetricKeeps

\* The error of a probe is counted once.
LEMMA ErrorIncKeeps ==
  ASSUME Inv, NEW w \in Pool, ErrorInc(w) PROVE Inv'
<1> DEFINE v == [worker[w] EXCEPT !.stage = "counted"]
           u == worker[w].target
<1>1. /\ worker[w].stage = "observed" /\ errors' = [errors EXCEPT ![u] = @ + 1]
      /\ UNCHANGED <<config, ctxDone, panicked, schedulerVars, jobs, sem, dropped, expiry>>
      /\ UNCHANGED <<traffic, latency, saturation>>
  BY DEF ErrorInc
<1>2. worker[w] \in Worker /\ Proper(worker[w]) /\ u \in Targets
  BY <1>1, JobOf
<1>3. worker' = [worker EXCEPT ![w] = v]
  BY <1>1, <1>2 DEF ErrorInc
<1>4. /\ v \in Worker /\ v.stage = "counted" /\ v.target = u
      /\ v.category = worker[w].category
  BY <1>2 DEF Worker
<1> HIDE DEF v
<1>5. Proper(v) /\ v.stage \notin Busy
  BY <1>1, <1>2, <1>4 DEF Proper, Accepted, Busy
<1>6. /\ traffic \in [Targets -> Nat] /\ latency \in [Targets -> Nat]
      /\ errors \in [Targets -> Nat] /\ saturation \in Int /\ errors' \in [Targets -> Nat]
  <2>1. /\ traffic \in [Targets -> Nat] /\ latency \in [Targets -> Nat]
        /\ errors \in [Targets -> Nat] /\ saturation \in Int
    BY DEF Inv, Types
  <2>2. QED BY <1>1, <1>2, <2>1
<1>7. ASSUME NEW t \in Targets PROVE Moves(w, v, t)
  <2>1. /\ Has(worker[w], Accepted, t) = 0 /\ Has(v, Accepted, t) = 0
        /\ Has(worker[w], Busy, t) = 0 /\ Has(v, Busy, t) = 0
        /\ Has(worker[w], {"observed"}, t) = One(u = t) /\ Has(v, {"observed"}, t) = 0
    BY <1>1, <1>4 DEF Has, Accepted, Busy, One
  <2>2. errors'[t] = errors[t] + One(u = t)
    BY <1>1, <1>6 DEF One
  <2>3. /\ latency'[t] = latency[t] /\ traffic'[t] = traffic[t] /\ One(u = t) \in Int
        /\ traffic[t] \in Int /\ latency[t] \in Int /\ errors[t] \in Int
    BY <1>1, <1>6 DEF One
  <2>4. QED BY <2>1, <2>2, <2>3 DEF Moves
<1>8. One(worker[w].stage \in Saturated) = 1 /\ One(v.stage \in Saturated) = 1
  BY <1>1, <1>4 DEF One, Saturated
<1>9. saturation' =
        saturation - One(worker[w].stage \in Saturated) + One(v.stage \in Saturated)
  BY <1>1, <1>6, <1>8
<1>10. QED BY <1>1, <1>3, <1>4, <1>5, <1>6, <1>7, <1>9, MetricKeeps

\* The gauge goes down with the end of ProbeTarget.
LEMMA SaturationDecKeeps ==
  ASSUME Inv, NEW w \in Pool, SaturationDec(w) PROVE Inv'
<1>1. /\ worker[w].stage = "counted" /\ saturation' = saturation - 1
      /\ UNCHANGED <<config, ctxDone, panicked, schedulerVars, jobs, sem, dropped, expiry>>
      /\ UNCHANGED <<traffic, latency, errors>>
      /\ worker' = [worker EXCEPT ![w] = Idle]
  BY DEF SaturationDec
<1>2. Idle \in Worker /\ Idle.stage = "idle"
  BY DEF Idle, Worker
<1>3. /\ traffic \in [Targets -> Nat] /\ latency \in [Targets -> Nat]
      /\ errors \in [Targets -> Nat] /\ saturation \in Int
  BY DEF Inv, Types
<1>4. ASSUME NEW t \in Targets PROVE Moves(w, Idle, t)
  <2>1. /\ Has(worker[w], Accepted, t) = 0 /\ Has(Idle, Accepted, t) = 0
        /\ Has(worker[w], Busy, t) = 0 /\ Has(Idle, Busy, t) = 0
        /\ Has(worker[w], {"observed"}, t) = 0 /\ Has(Idle, {"observed"}, t) = 0
    BY <1>1, <1>2 DEF Has, Accepted, Busy, One
  <2>2. QED BY <1>1, <1>3, <2>1 DEF Moves
<1>5. One(worker[w].stage \in Saturated) = 1 /\ One(Idle.stage \in Saturated) = 0
  BY <1>1, <1>2 DEF One, Saturated, Busy
<1>6. saturation' =
        saturation - One(worker[w].stage \in Saturated) + One(Idle.stage \in Saturated)
  BY <1>1, <1>3, <1>5
<1>7. Idle.stage \notin Busy
  BY <1>2 DEF Busy
<1>8. QED BY <1>1, <1>2, <1>3, <1>4, <1>6, <1>7, MetricKeeps

-----------------------------------------------------------------------------
(* The steps of the dispatcher.                                            *)

\* A probe under way that stays so changes no count.
LEMMA StaysBusy ==
  ASSUME Types, Types', SignalsAgree, NEW w \in Workers, NEW v \in Worker,
         worker' = [worker EXCEPT ![w] = v],
         v.target = worker[w].target, v.stage \in Busy, worker[w].stage \in Busy,
         UNCHANGED <<scheduler, ticks, jobs, traffic, dropped, latency, errors, saturation>>
  PROVE  SignalsAgree'
<1>1. /\ traffic \in [Targets -> Nat] /\ latency \in [Targets -> Nat]
      /\ errors \in [Targets -> Nat] /\ saturation \in Int
  BY DEF Types
<1>2. ASSUME NEW t \in Targets PROVE Moves(w, v, t)
  <2>1. /\ Has(worker[w], Accepted, t) = 0 /\ Has(v, Accepted, t) = 0
        /\ Has(worker[w], Busy, t) = Has(v, Busy, t) /\ Has(v, Busy, t) \in Int
        /\ Has(worker[w], {"observed"}, t) = 0 /\ Has(v, {"observed"}, t) = 0
    BY DEF Has, Accepted, Busy, One
  <2>2. QED BY <1>1, <2>1 DEF Moves
<1>3. One(worker[w].stage \in Saturated) = 1 /\ One(v.stage \in Saturated) = 1
  BY DEF One, Saturated
<1>4. saturation' =
        saturation - One(worker[w].stage \in Saturated) + One(v.stage \in Saturated)
  BY <1>1, <1>3
<1>5. QED BY <1>2, <1>4, SignalsMove

\* As long as no more workers execute than the pool has beside this one, a
\* bound that is not below the pool's size leaves it a token.
LEMMA EnoughTokens ==
  ASSUME Inv, NEW w \in Pool, worker[w].stage # "execute", Roomy
  PROVE  HasToken
<1> DEFINE Executing == At({"execute"})
<1>1. SUFFICES ASSUME Bounded PROVE sem < maxConcurrentProbes
  BY DEF HasToken
<1>2. /\ numWorkers \in Int /\ maxConcurrentProbes \in Int
      /\ environ["MAX_CONCURRENT_PROBES"] \in Int \cup {Unset}
  BY ConfigType DEF Inv
<1>3. w \in 1 .. numWorkers /\ numWorkers \in Nat /\ numWorkers >= 1
  BY <1>2, PipelineAssumption DEF Pool, Workers
<1>4. Executing \subseteq (1 .. numWorkers) \ {w}
  <2>1. ASSUME NEW x \in Executing PROVE x \in Pool /\ x # w
    BY DEF At, Inv, Placed
  <2>2. Pool \subseteq 1 .. numWorkers
    BY <1>2, PipelineAssumption DEF Pool, Workers
  <2>3. QED BY <2>1, <2>2
<1>5. IsFiniteSet(1 .. numWorkers) /\ Cardinality(1 .. numWorkers) = numWorkers
  BY <1>3, FS_Interval
<1>6. /\ IsFiniteSet((1 .. numWorkers) \ {w})
      /\ Cardinality((1 .. numWorkers) \ {w}) = numWorkers - 1
  BY <1>3, <1>5, FS_RemoveElement
<1>7. Cardinality(Executing) <= numWorkers - 1 /\ Cardinality(Executing) \in Nat
  <2>1. Cardinality(Executing) <= Cardinality((1 .. numWorkers) \ {w})
    BY <1>4, <1>6, FS_Subset
  <2>2. QED BY <1>6, <2>1, WorkersFinite
<1>8. sem = Cardinality(Executing)
  BY <1>1 DEF Inv, TokensHeld
<1>9. maxConcurrentProbes >= numWorkers
  <2>1. CASE environ["MAX_CONCURRENT_PROBES"] = Unset
    BY <1>3, <2>1 DEF maxConcurrentProbes, GetInt
  <2>2. CASE environ["MAX_CONCURRENT_PROBES"] # Unset
    <3>1. maxConcurrentProbes = environ["MAX_CONCURRENT_PROBES"]
      BY <2>2 DEF maxConcurrentProbes, GetInt
    <3>2. maxConcurrentProbes > 0 /\ maxConcurrentProbes \notin 1 .. numWorkers - 1
      BY <1>1, <3>1 DEF Bounded, Roomy
    <3>3. QED BY <1>2, <1>3, <3>2
  <2>3. QED BY <2>1, <2>2
<1> HIDE DEF Executing
<1>10. QED BY <1>2, <1>3, <1>7, <1>8, <1>9

\* A worker gets a token, waits for one, or gives up.
LEMMA AcquireKeeps ==
  ASSUME Inv, NEW w \in Pool, Acquire(w) PROVE Inv'
<1>1. /\ Types /\ environ' = environ /\ fleet' = fleet /\ w \in Workers
      /\ UNCHANGED <<config, ctxDone, panicked, scheduler, ticks, jobs, metrics>>
      /\ worker[w].stage = "acquire" /\ sem \in Int
      /\ worker[w] \in Worker /\ Proper(worker[w]) /\ worker[w].target \in Targets
  BY JobOf DEF Inv, Types, Acquire, config, schedulerVars, Pool
<1>2. worker[w].category = ""
  BY <1>1 DEF Proper
<1>3. Roomy => ~worker[w].waited
  BY <1>1 DEF Inv, NeverWaits, At, Busy
<1>4. ASSUME NEW v \in Worker, v.stage \in Busy, v.target = worker[w].target,
             worker' = [worker EXCEPT ![w] = v],
             v.stage # "record" => v.category = "",
             v.stage = "record" => Bounded /\ MayGiveUp(w) /\ v.category = "timeout"
                                     /\ v.waited = worker[w].waited,
             Roomy => ~v.waited,
             v.stage # "execute" => sem' = sem,
             v.stage = "execute" => HasToken /\ sem' = IF Bounded THEN sem + 1 ELSE sem
      PROVE  Inv'
  <2>1. Types'
    <3>1. worker' \in [Workers -> Worker]
      BY <1>1, <1>4 DEF Types
    <3>2. sem' \in Int
      <4>1. sem' = sem \/ sem' = sem + 1
        BY <1>4
      <4>2. QED BY <1>1, <4>1
    <3>3. QED BY <1>1, <3>1, <3>2, ConfigKept DEF Types, metrics
  <2>2. TokensHeld'
    <3>1. One(worker[w].stage = "execute") = 0
      BY <1>1 DEF One
    <3>2. CASE v.stage = "execute"
      <4>1. One(v.stage = "execute") = 1
        BY <3>2 DEF One
      <4>2. Bounded => sem' = sem - One(worker[w].stage = "execute") + One(v.stage = "execute")
        <5>1. Bounded => sem' = sem + 1
          BY <1>4, <3>2
        <5>2. QED BY <1>1, <3>1, <4>1, <5>1
      <4>3. Bounded => sem < maxConcurrentProbes
        BY <1>4, <3>2 DEF HasToken
      <4>4. ~Bounded => sem' = sem
        BY <1>4, <3>2
      <4>5. QED BY <1>1, <1>4, <4>2, <4>3, <4>4, TokensMove DEF Inv
    <3>3. CASE v.stage # "execute"
      <4>1. One(v.stage = "execute") = 0
        BY <3>3 DEF One
      <4>2. sem' = sem - One(worker[w].stage = "execute") + One(v.stage = "execute")
        <5>1. sem' = sem
          BY <1>4, <3>3
        <5>2. QED BY <1>1, <3>1, <4>1, <5>1
      <4>3. QED BY <1>1, <1>4, <3>3, <4>2, TokensMove DEF Inv
    <3>4. QED BY <3>2, <3>3
  <2>3. SignalsAgree'
    BY <1>1, <1>4, <2>1, StaysBusy DEF Inv, Busy, metrics
  <2>4. ~ctxDone /\ v.stage = "record" => Fits(v) /\ Earned(v)
    BY <1>4 DEF Fits, Earned, MayGiveUp
  <2>5. Proper(v)
    BY <1>1, <1>4 DEF Proper, Busy, Accepted
  <2>6. Placed' /\ Verdicts' /\ NeverWaits'
    BY <1>1, <1>4, <2>4, <2>5, WorkerMoves
  <2>7. QED BY <2>1, <2>2, <2>3, <2>6 DEF Inv
<1>5. CASE TakeToken(w)
  <2> DEFINE v == [worker[w] EXCEPT !.stage = "execute"]
  <2>1. worker' = [worker EXCEPT ![w] = v] /\ HasToken
        /\ sem' = IF Bounded THEN sem + 1 ELSE sem
    BY <1>1, <1>5 DEF TakeToken, Types
  <2>2. /\ v \in Worker /\ v.stage = "execute" /\ v.target = worker[w].target
        /\ v.category = worker[w].category /\ v.waited = worker[w].waited
    BY <1>1 DEF Worker
  <2> HIDE DEF v
  <2>3. QED BY <1>2, <1>3, <1>4, <2>1, <2>2 DEF Busy
<1>6. CASE ~HasToken /\ worker' = [worker EXCEPT ![w].waited = TRUE] /\ UNCHANGED sem
  <2> DEFINE v == [worker[w] EXCEPT !.waited = TRUE]
  <2>1. worker' = [worker EXCEPT ![w] = v] /\ sem' = sem
    BY <1>1, <1>6 DEF Types
  <2>2. /\ v \in Worker /\ v.stage = "acquire" /\ v.target = worker[w].target
        /\ v.category = worker[w].category
    BY <1>1 DEF Worker
  <2>3. ~Roomy
    BY <1>1, <1>6, EnoughTokens
  <2> HIDE DEF v
  <2>4. QED BY <1>2, <1>4, <2>1, <2>2, <2>3 DEF Busy
<1>7. CASE Bounded /\ MayGiveUp(w) /\ Returns(w, "none", "timeout") /\ UNCHANGED sem
  <2> DEFINE v == [worker[w] EXCEPT !.stage = "record", !.answer = "none",
                                    !.category = "timeout"]
  <2>1. worker' = [worker EXCEPT ![w] = v] /\ sem' = sem
    BY <1>1, <1>7 DEF Types, Returns
  <2>2. /\ v \in Worker /\ v.stage = "record" /\ v.target = worker[w].target
        /\ v.category = "timeout" /\ v.waited = worker[w].waited
    BY <1>1 DEF Worker, allCategories
  <2> HIDE DEF v
  <2>3. QED BY <1>3, <1>4, <1>7, <2>1, <2>2 DEF Busy
<1>8. QED BY <1>5, <1>6, <1>7 DEF Acquire

\* A token given back.
LEMMA TokenReturned ==
  ASSUME sem \in Int, sem' = IF Bounded THEN sem - 1 ELSE sem
  PROVE  sem' \in Int /\ (Bounded => sem' = sem - 1 + 0)
<1>1. CASE Bounded
  BY <1>1
<1>2. CASE ~Bounded
  BY <1>2
<1>3. QED BY <1>1, <1>2

\* A probe that returns gives its token back and has a verdict.
LEMMA ProbeKeeps ==
  ASSUME Inv, NEW w \in Pool, Probe(w) PROVE Inv'
<1> DEFINE t == worker[w].target
<1>1. /\ Types /\ environ' = environ /\ fleet' = fleet /\ w \in Workers
      /\ UNCHANGED <<config, ctxDone, panicked, scheduler, ticks, jobs, traffic, dropped, latency,
                     errors, saturation>>
      /\ worker[w].stage = "execute" /\ sem \in Int
      /\ sem' = IF Bounded THEN sem - 1 ELSE sem
      /\ worker[w] \in Worker /\ t \in Targets
  BY JobOf DEF Inv, Types, Probe, ReleaseToken, config, schedulerVars, Pool
<1>2. Roomy => ~worker[w].waited
  BY <1>1 DEF Inv, NeverWaits, At, Busy
<1>3. ASSUME NEW answer \in Outcomes \cup {"none"}, NEW category \in allCategories \cup {""},
             Returns(w, answer, category), expiry' \subseteq Targets,
             ~ctxDone =>
               \/ \E s \in Resolve(t) : category \in Fitting(answer) <=> ~Misclassified(s, answer)
               \/ Resolve(t) = {} /\ category = "unknown_error"
               \/ category = "timeout" /\ (worker[w].waited \/ probeTimeout <= 0),
             ~ctxDone /\ category = "timeout" =>
               answer = "hang" \/ worker[w].waited \/ probeTimeout <= 0
      PROVE  Inv'
  <2> DEFINE u == [worker[w] EXCEPT !.stage = "record", !.answer = answer,
                                    !.category = category]
  <2>1. worker' = [worker EXCEPT ![w] = u]
    BY <1>1, <1>3 DEF Types, Returns
  <2>2. /\ u \in Worker /\ u.stage = "record" /\ u.target = t /\ u.answer = answer
        /\ u.category = category /\ u.waited = worker[w].waited
    BY <1>1, <1>3 DEF Worker
  <2> HIDE DEF u
  <2>3. Types'
    <3>1. worker' \in [Workers -> Worker]
      BY <1>1, <2>1, <2>2 DEF Types
    <3>2. sem' \in Int
      BY TokenReturned, <1>1
    <3>3. QED BY <1>1, <1>3, <3>1, <3>2, ConfigKept DEF Types
  <2>4. TokensHeld'
    <3>1. One(worker[w].stage = "execute") = 1 /\ One(u.stage = "execute") = 0
      BY <1>1, <2>2 DEF One
    <3>2. Bounded => sem' = sem - One(worker[w].stage = "execute") + One(u.stage = "execute")
      BY TokenReturned, <1>1, <3>1
    <3>3. QED BY <1>1, <2>1, <2>2, <3>2, TokensMove DEF Inv
  <2>5. SignalsAgree'
    BY <1>1, <2>1, <2>2, <2>3, StaysBusy DEF Inv, Busy
  <2>6. ~ctxDone /\ u.stage = "record" => Fits(u) /\ Earned(u)
    BY <1>3, <2>2 DEF Fits, Earned
  <2>7. Proper(u)
    BY <1>1, <2>2 DEF Proper, Accepted
  <2>8. Placed' /\ Verdicts' /\ NeverWaits'
    BY <1>1, <1>2, <2>1, <2>2, <2>6, <2>7, WorkerMoves
  <2>9. QED BY <2>3, <2>4, <2>5, <2>8 DEF Inv
<1>4. CASE Resolve(t) = {} /\ Returns(w, "none", "unknown_error") /\ UNCHANGED expiry
  BY <1>1, <1>3, <1>4 DEF allCategories, Types
<1>5. ASSUME NEW s \in Resolve(t), NEW answer \in Answers(s, fleet[t])
      PROVE  /\ s \in Schemes /\ answer \in Outcomes
             /\ probers(s, answer) \in allCategories \cup {""}
             /\ probers(s, "hang") = "timeout" /\ "timeout" \in allCategories
             /\ probers(s, "cut") \in allCategories \cup {""}
             /\ answer # "hang" => Judged(s, answer, probers(s, answer))
  <2>1. s \in Schemes
    BY DEF Resolve
  <2>2. "timeout" \in allCategories
    BY DEF allCategories
  <2>3. QED BY <2>1, <2>2, AnswersType, ProbersType, HangIsTimeout, AnswerJudged
<1>6. ASSUME NEW s \in Resolve(t), NEW answer \in Answers(s, fleet[t]),
             answer # "hang", Returns(w, answer, probers(s, answer)),
             expiry' = IF RecordsExpiry(s, answer) THEN expiry \cup {t} ELSE expiry
      PROVE  Inv'
  <2>1. expiry' \subseteq Targets
    BY <1>1, <1>6 DEF Types
  <2>2. QED BY <1>3, <1>5, <1>6, <2>1 DEF Judged
<1>7. ASSUME NEW s \in Resolve(t), NEW answer \in Answers(s, fleet[t]),
             TimesOut(w, answer), Returns(w, answer, probers(s, "hang")), UNCHANGED expiry
      PROVE  Inv'
  <2>1. expiry' \subseteq Targets
    BY <1>1, <1>7 DEF Types
  <2>2. Returns(w, answer, "timeout") /\ answer \in Outcomes /\ "timeout" \in allCategories
    BY <1>5, <1>7
  <2>3. CASE answer = "hang"
    <3>1. "timeout" \in Fitting(answer) /\ ~Misclassified(s, answer)
      BY <2>3 DEF Fitting, Misclassified, BadCertificates
    <3>2. QED BY <1>3, <2>1, <2>2, <2>3, <3>1
  <2>4. CASE answer # "hang"
    <3>1. worker[w].waited \/ probeTimeout <= 0
      BY <1>7, <2>4 DEF TimesOut
    <3>2. QED BY <1>3, <2>1, <2>2, <3>1
  <2>5. QED BY <2>3, <2>4
<1>8. ASSUME NEW s \in Resolve(t), NEW answer \in Answers(s, fleet[t]),
             ctxDone, Returns(w, answer, probers(s, "cut")), UNCHANGED expiry
      PROVE  Inv'
  <2>1. expiry' \subseteq Targets
    BY <1>1, <1>8 DEF Types
  <2>2. QED BY <1>3, <1>5, <1>8, <2>1
<1>9. QED BY <1>4, <1>6, <1>7, <1>8 DEF Probe

-----------------------------------------------------------------------------
(* The refinement of Attempts.                                             *)

\* An attempt more or less of one target.
LEMMA OpenMoves ==
  ASSUME NEW t \in Targets, \A u \in Targets \ {t} : Open(u)' = Open(u)
  PROVE  /\ Open(t)' = Open(t) => OpenAttempts' = OpenAttempts
         /\ Open(t)' = Open(t) + 1 => OpenAttempts' = [OpenAttempts EXCEPT ![t] = @ + 1]
         /\ Open(t)' = Open(t) - 1 => OpenAttempts' = [OpenAttempts EXCEPT ![t] = @ - 1]
         /\ OpenAttempts[t] = Open(t)
<1> DEFINE a == [u \in Targets |-> Open(u)]
           b == [u \in Targets |-> Open(u)']
<1>1. OpenAttempts = a /\ OpenAttempts' = b
  BY DEF OpenAttempts
<1>2. a[t] = Open(t)
  OBVIOUS
<1>3. ASSUME NEW n, Open(t)' = n PROVE b = [a EXCEPT ![t] = n]
  BY <1>3
<1>4. Open(t)' = Open(t) => b = a
  OBVIOUS
<1> HIDE DEF a, b
<1>5. QED BY <1>1, <1>2, <1>3, <1>4

LEMMA OpenStays ==
  ASSUME \A u \in Targets : Open(u)' = Open(u) PROVE OpenAttempts' = OpenAttempts
  BY DEF OpenAttempts

Shown(v) == IF v.stage \in Busy \cup {"observed"} THEN v.target ELSE Unset

\* One worker goes on: its slot shows the probe it has then.
LEMMA SlotMoves ==
  ASSUME Types, NEW w \in Workers, NEW v, worker' = [worker EXCEPT ![w] = v]
  PROVE  /\ Probing[w] = Shown(worker[w])
         /\ Probing' = [Probing EXCEPT ![w] = Shown(v)]
         /\ At({"observed"})' =
              IF v.stage = "observed" THEN At({"observed"}) \cup {w} ELSE At({"observed"}) \ {w}
         /\ w \in At({"observed"}) <=> worker[w].stage = "observed"
<1>1. /\ Probing = [x \in Workers |-> Shown(worker[x])]
      /\ Probing' = [x \in Workers |-> Shown(worker'[x])]
  BY DEF Probing, At, Shown
<1>2. worker'[w] = v /\ \A x \in Workers \ {w} : worker'[x] = worker[x]
  BY DEF Types
<1>3. Probing[w] = Shown(worker[w]) /\ Probing' = [Probing EXCEPT ![w] = Shown(v)]
  BY <1>1, <1>2
<1>4. /\ At({"observed"})' =
           IF v.stage = "observed" THEN At({"observed"}) \cup {w} ELSE At({"observed"}) \ {w}
      /\ w \in At({"observed"}) <=> worker[w].stage = "observed"
  BY <1>2 DEF At
<1>5. QED BY <1>3, <1>4

\* What does not show.
LEMMA SlotStays ==
  ASSUME Types, NEW w \in Workers, NEW v, worker' = [worker EXCEPT ![w] = v],
         Shown(v) = Shown(worker[w]), v.stage = "observed" <=> worker[w].stage = "observed"
  PROVE  Probing' = Probing /\ At({"observed"})' = At({"observed"})
<1>1. Probing' = [Probing EXCEPT ![w] = Probing[w]]
  BY SlotMoves
<1>2. worker'[w] = v /\ \A x \in Workers \ {w} : worker'[x] = worker[x]
  BY DEF Types
<1>3. At({"observed"})' = At({"observed"})
  BY <1>2 DEF At
<1>4. QED BY <1>1, <1>3 DEF Probing

LEMMA SlotsStay ==
  ASSUME UNCHANGED worker PROVE Probing' = Probing /\ At({"observed"})' = At({"observed"})
  BY DEF Probing, At

\* A worker that receives a job shows nothing yet.
LEMMA ReceiveShows ==
  ASSUME Types, NEW w \in Workers, NEW t \in Targets, worker[w].stage = "idle", Receive(w, t)
  PROVE  Probing' = Probing /\ At({"observed"})' = At({"observed"})
<1> DEFINE v == Holds("received", t)
<1>1. v.stage = "received" /\ worker' = [worker EXCEPT ![w] = v]
  BY Received
<1> HIDE DEF v
<1>2. Shown(v) = Unset /\ Shown(worker[w]) = Unset
  BY <1>1 DEF Shown, Busy
<1>3. QED BY <1>1, <1>2, SlotStays

\* One scheduler goes on.
LEMMA DroppingMoves ==
  ASSUME Types, NEW t \in Targets, NEW state, scheduler' = [scheduler EXCEPT ![t] = state]
  PROVE  /\ Dropping' = Dropping \ {t} \/ Dropping' = Dropping \cup {t}
         /\ t \in Dropping <=> scheduler[t] = "dropping"
         /\ t \in Dropping' <=> state = "dropping"
<1>1. scheduler'[t] = state /\ \A x \in Targets \ {t} : scheduler'[x] = scheduler[x]
  BY DEF Types
<1>2. QED BY <1>1 DEF Dropping

\* A step that touches no attempt, and no probe that begun.
LEMMA Stutters ==
  ASSUME UNCHANGED <<ctxDone, scheduler, traffic, dropped, latency, errors>>,
         \A u \in Targets : Open(u)' = Open(u),
         Probing' = Probing, At({"observed"})' = At({"observed"})
  PROVE  UNCHANGED Attempt!vars
<1>1. OpenAttempts' = OpenAttempts /\ Dropping' = Dropping
  BY OpenStays DEF Dropping
<1>2. QED BY <1>1 DEF Attempt!vars, Attempt!counts

\* enqueue refuses an attempt, or leaves it open.
LEMMA EnqueueMaps ==
  ASSUME Types, NEW t \in Targets, Enqueue(t)
  PROVE  UNCHANGED Attempt!vars \/ Attempt!Refuse(t)
<1>1. /\ scheduler[t] = "due" /\ UNCHANGED <<ctxDone, traffic, dropped, latency, errors>>
      /\ \A u \in Targets \ {t} : Open(u)' = Open(u)
      /\ Open(t)' = Open(t) - One(scheduler'[t] = "dropping")
      /\ Open(t) > 0
  BY EnqueueOpens DEF Enqueue, metrics
<1>2. /\ scheduler \in [Targets -> {"new", "waiting", "due", "dropping", "returned"}]
      /\ Open(t) \in Nat
  BY OpenType DEF Types
<1>3. t \notin Dropping
  BY <1>1 DEF Dropping
<1>4. Probing' = Probing /\ At({"observed"})' = At({"observed"})
  <2>1. CASE UNCHANGED worker
    BY <2>1, SlotsStay
  <2>2. ASSUME NEW w \in Pool, worker[w].stage = "idle", Receive(w, t)
        PROVE  Probing' = Probing /\ At({"observed"})' = At({"observed"})
    BY <2>2, ReceiveShows DEF Pool
  <2>3. QED BY <2>1, <2>2 DEF Enqueue
<1>5. CASE scheduler' = [scheduler EXCEPT ![t] = "waiting"]
  <2>1. One(scheduler'[t] = "dropping") = 0
    BY <1>2, <1>5 DEF One
  <2>2. Open(t)' = Open(t)
    BY <1>1, <1>2, <2>1
  <2>3. OpenAttempts' = OpenAttempts
    BY <1>1, <2>2, OpenMoves
  <2>4. Dropping' = Dropping \ {t}
    <3>1. t \notin Dropping'
      BY <1>2, <1>5 DEF Dropping
    <3>2. QED BY <1>5, <3>1, DroppingMoves
  <2>5. QED BY <1>1, <1>3, <1>4, <2>3, <2>4 DEF Attempt!vars, Attempt!counts
<1>6. CASE ~ctxDone /\ scheduler' = [scheduler EXCEPT ![t] = "dropping"]
  <2>1. One(scheduler'[t] = "dropping") = 1
    BY <1>2, <1>6 DEF One
  <2>2. Open(t)' = Open(t) - 1
    BY <1>1, <2>1
  <2>3. Attempt!Closes(t)
    BY <1>1, <2>2, OpenMoves DEF Attempt!Closes
  <2>4. Dropping' = Dropping \cup {t}
    BY <1>6, DroppingMoves
  <2>5. QED BY <1>1, <1>3, <1>4, <1>6, <2>3, <2>4 DEF Attempt!Refuse, Attempt!counts
<1>7. QED BY <1>5, <1>6 DEF Enqueue

\* The count of a drop.
LEMMA DropMaps == ASSUME Types, NEW t \in Targets, Drop(t) PROVE Attempt!Drop(t)
<1>1. /\ scheduler[t] = "dropping" /\ scheduler' = [scheduler EXCEPT ![t] = "waiting"]
      /\ dropped' = [dropped EXCEPT ![t] = @ + 1]
      /\ UNCHANGED <<ctxDone, jobs, worker, traffic, latency, errors>>
  BY DEF Drop, DropInc
<1>2. OpenAttempts' = OpenAttempts
  <2>1. One(scheduler[t] = "due") = 0 /\ One("waiting" = "due") = 0
    BY <1>1 DEF One
  <2>2. /\ \A u \in Targets \ {t} : Open(u)' = Open(u)
        /\ Open(t)' = Open(t) - One(scheduler[t] = "due") + One("waiting" = "due")
    BY <1>1, SchedulerOpens
  <2>3. Open(t)' = Open(t)
    BY <2>1, <2>2, OpenType
  <2>4. QED BY <2>2, <2>3, OpenMoves
<1>3. t \in Dropping /\ Dropping' = Dropping \ {t}
  <2>1. t \in Dropping /\ (t \in Dropping' <=> "waiting" = "dropping")
    BY <1>1, DroppingMoves
  <2>2. QED BY <1>1, <2>1, DroppingMoves
<1>4. Probing' = Probing /\ At({"observed"})' = At({"observed"})
  BY <1>1, SlotsStay
<1>5. QED BY <1>1, <1>2, <1>3, <1>4 DEF Attempt!Drop

\* A worker that receives a job leaves its attempt open.
LEMMA TakeJobMaps == ASSUME Types, NEW w \in Pool, TakeJob(w) PROVE UNCHANGED Attempt!vars
<1>1. UNCHANGED <<ctxDone, scheduler, traffic, dropped, latency, errors>>
  BY DEF TakeJob, schedulerVars, metrics
<1>2. /\ Head(jobs) \in Targets /\ Receive(w, Head(jobs)) /\ worker[w].stage = "idle"
      /\ \A u : Open(u)' = Open(u)
  BY TakeJobOpens
<1>3. Probing' = Probing /\ At({"observed"})' = At({"observed"})
  BY <1>2, ReceiveShows DEF Pool
<1>4. QED BY <1>1, <1>2, <1>3, Stutters

\* What a worker does before its probe counts, between the moments that Attempts
\* counts, and after that.
LEMMA WorkerStutters ==
  ASSUME Types, NEW w \in Pool, NEW v \in Worker, worker' = [worker EXCEPT ![w] = v],
         UNCHANGED <<ctxDone, scheduler, jobs, traffic, dropped, latency, errors>>,
         Shown(v) = Shown(worker[w]), v.stage = "observed" <=> worker[w].stage = "observed",
         \A t \in Targets : Has(worker[w], Accepted, t) = Has(v, Accepted, t)
  PROVE  UNCHANGED Attempt!vars
<1>1. w \in Workers
  BY DEF Pool
<1>2. ASSUME NEW t \in Targets PROVE Open(t)' = Open(t)
  <2>1. Open(t)' = Open(t) - Has(worker[w], Accepted, t) + Has(v, Accepted, t)
    BY <1>1, WorkerOpens
  <2>2. Has(v, Accepted, t) \in Nat
    BY DEF Has, One
  <2>3. QED BY <2>1, <2>2, OpenType
<1>3. QED BY <1>1, <1>2, SlotStays, Stutters

LEMMA SilentStutters ==
  ASSUME Inv, NEW w \in Pool,
         WorkerExits(w) \/ SaturationInc(w) \/ Acquire(w) \/ Probe(w) \/ SaturationDec(w)
  PROVE  UNCHANGED Attempt!vars
<1>1. /\ w \in Workers /\ worker[w] \in Worker /\ Types
      /\ UNCHANGED <<ctxDone, scheduler, jobs, traffic, dropped, latency, errors>>
  BY DEF Pool, WorkerExits, SaturationInc, Acquire, Probe, SaturationDec, schedulerVars, metrics,
         Inv, Types
\* v has worker w's job, or none of the two shows one.
<1>2. ASSUME NEW v \in Worker, worker' = [worker EXCEPT ![w] = v],
             \/ v.target = worker[w].target /\ v.stage \in Busy /\ worker[w].stage \in Busy
             \/ v.target = worker[w].target /\ v.stage \in Accepted /\ worker[w].stage \in Accepted
             \/ {v.stage, worker[w].stage} \subseteq {"idle", "exited", "counted"}
      PROVE  UNCHANGED Attempt!vars
  <2>1. /\ Shown(v) = Shown(worker[w]) /\ (v.stage = "observed" <=> worker[w].stage = "observed")
        /\ \A t \in Targets : Has(worker[w], Accepted, t) = Has(v, Accepted, t)
    BY <1>2 DEF Shown, Has, One, Accepted, Busy
  <2>2. QED BY <1>1, <1>2, <2>1, WorkerStutters
<1>3. CASE WorkerExits(w)
  <2> DEFINE v == [worker[w] EXCEPT !.stage = "exited"]
  <2>1. /\ worker' = [worker EXCEPT ![w] = v] /\ worker[w].stage = "idle"
        /\ v \in Worker /\ v.stage = "exited"
    BY <1>1, <1>3 DEF WorkerExits, Worker, Types
  <2> HIDE DEF v
  <2>2. QED BY <1>2, <2>1
<1>4. CASE SaturationInc(w)
  <2> DEFINE v == [worker[w] EXCEPT !.stage = "saturated"]
  <2>1. /\ worker' = [worker EXCEPT ![w] = v] /\ worker[w].stage = "received"
        /\ v \in Worker /\ v.stage = "saturated" /\ v.target = worker[w].target
    BY <1>1, <1>4 DEF SaturationInc, Worker, Types
  <2> HIDE DEF v
  <2>2. QED BY <1>2, <2>1 DEF Accepted
<1>5. ASSUME NEW answer \in Outcomes \cup {"none"}, NEW category \in allCategories \cup {""},
             worker[w].stage \in Busy, Returns(w, answer, category)
      PROVE  UNCHANGED Attempt!vars
  <2> DEFINE v == [worker[w] EXCEPT !.stage = "record", !.answer = answer,
                                    !.category = category]
  <2>1. /\ worker' = [worker EXCEPT ![w] = v]
        /\ v \in Worker /\ v.stage = "record" /\ v.target = worker[w].target
    BY <1>1, <1>5 DEF Returns, Worker, Types
  <2> HIDE DEF v
  <2>2. QED BY <1>2, <1>5, <2>1 DEF Busy
<1>6. CASE Acquire(w)
  <2>1. worker[w].stage = "acquire"
    BY <1>6 DEF Acquire
  <2>2. CASE TakeToken(w)
    <3> DEFINE v == [worker[w] EXCEPT !.stage = "execute"]
    <3>1. /\ worker' = [worker EXCEPT ![w] = v]
          /\ v \in Worker /\ v.stage = "execute" /\ v.target = worker[w].target
      BY <1>1, <2>2 DEF TakeToken, Worker, Types
    <3> HIDE DEF v
    <3>2. QED BY <1>2, <2>1, <3>1 DEF Busy
  <2>3. CASE worker' = [worker EXCEPT ![w].waited = TRUE]
    <3> DEFINE v == [worker[w] EXCEPT !.waited = TRUE]
    <3>1. /\ worker' = [worker EXCEPT ![w] = v]
          /\ v \in Worker /\ v.stage = "acquire" /\ v.target = worker[w].target
      BY <1>1, <2>1, <2>3 DEF Worker, Types
    <3> HIDE DEF v
    <3>2. QED BY <1>2, <2>1, <3>1 DEF Busy
  <2>4. CASE Returns(w, "none", "timeout")
    BY <1>5, <2>1, <2>4 DEF Busy, allCategories
  <2>5. QED BY <1>6, <2>2, <2>3, <2>4 DEF Acquire
<1>7. CASE Probe(w)
  <2>1. worker[w].stage \in Busy /\ "unknown_error" \in allCategories
    BY <1>7 DEF Probe, Busy, allCategories
  <2>2. ASSUME NEW s \in Resolve(worker[w].target),
               NEW answer \in Answers(s, fleet[worker[w].target])
        PROVE  /\ answer \in Outcomes
               /\ \A a \in {answer, "hang", "cut"} : probers(s, a) \in allCategories \cup {""}
    <3>1. s \in Schemes
      BY DEF Resolve
    <3>2. QED BY <3>1, AnswersType, ProbersType
  <2>3. QED BY <1>5, <1>7, <2>1, <2>2 DEF Probe
<1>8. CASE SaturationDec(w)
  <2>1. /\ worker' = [worker EXCEPT ![w] = Idle] /\ worker[w].stage = "counted"
        /\ Idle \in Worker /\ Idle.stage = "idle"
    BY <1>8 DEF SaturationDec, Idle, Worker
  <2>2. QED BY <1>2, <2>1
<1>9. QED BY <1>3, <1>4, <1>6, <1>7, <1>8

\* An attempt that is counted as traffic begins in a free slot.
LEMMA TrafficIncMaps ==
  ASSUME Inv, NEW w \in Pool, TrafficInc(w)
  PROVE  \E t \in Targets : Attempt!Begin(t, w)
<1> DEFINE v == [worker[w] EXCEPT !.stage = "acquire"]
<1>0. PICK t \in Targets : t = worker[w].target
  BY JobOf DEF TrafficInc
<1>1. /\ worker[w].stage = "saturated" /\ traffic' = [traffic EXCEPT ![t] = @ + 1]
      /\ UNCHANGED <<ctxDone, scheduler, jobs, dropped, latency, errors>>
  BY <1>0 DEF TrafficInc, schedulerVars
<1>2. Types /\ w \in Workers /\ worker[w] \in Worker /\ worker[w].target = t
  BY <1>0, <1>1, JobOf DEF Inv
<1>3. /\ worker' = [worker EXCEPT ![w] = v]
      /\ v \in Worker /\ v.stage = "acquire" /\ v.target = t
  BY <1>2 DEF TrafficInc, Worker, Types
<1> HIDE DEF v
<1>4. Attempt!Closes(t)
  <2>1. ASSUME NEW u PROVE Open(u)' = Open(u) - One(u = t) /\ Open(u) \in Nat
    <3>1. Has(worker[w], Accepted, u) = One(u = t) /\ Has(v, Accepted, u) = 0
      BY <1>1, <1>2, <1>3 DEF Has, One, Accepted
    <3>2. Open(u)' = Open(u) - Has(worker[w], Accepted, u) + Has(v, Accepted, u)
      BY <1>1, <1>2, <1>3, WorkerOpens
    <3>3. Open(u) \in Nat /\ One(u = t) \in Nat
      BY <1>2, OpenType DEF One
    <3>4. QED BY <3>1, <3>2, <3>3
  <2>2. \A u \in Targets \ {t} : Open(u)' = Open(u)
    BY <2>1 DEF One
  <2>3. Open(t)' = Open(t) - 1
    BY <2>1 DEF One
  <2>4. Open(t) > 0
    <3>1. w \in AtWith(Accepted, t)
      BY <1>1, <1>2 DEF AtWith, At, Accepted
    <3>2. Cardinality(AtWith(Accepted, t)) # 0
      BY <3>1, WorkersFinite, FS_EmptySet
    <3>3. QED BY <1>2, <3>2, OpenIs, OpenType
  <2>5. QED BY <1>2, <2>2, <2>3, <2>4, OpenMoves DEF Attempt!Closes
<1>5. Probing[w] = Unset /\ Probing' = [Probing EXCEPT ![w] = t]
  <2>1. Shown(worker[w]) = Unset /\ Shown(v) = t
    BY <1>1, <1>3 DEF Shown, Busy
  <2>2. Probing[w] = Shown(worker[w]) /\ Probing' = [Probing EXCEPT ![w] = Shown(v)]
    BY <1>2, <1>3, SlotMoves
  <2>3. QED BY <2>1, <2>2
<1>6. At({"observed"})' = At({"observed"})
  <2>1. w \notin At({"observed"}) /\ v.stage # "observed"
    BY <1>1, <1>3 DEF At
  <2>2. At({"observed"})' = At({"observed"}) \ {w}
    BY <1>2, <1>3, <2>1, SlotMoves
  <2>3. QED BY <2>1, <2>2
<1>7. Dropping' = Dropping
  BY <1>1 DEF Dropping
<1>8. Attempt!Begin(t, w)
  BY <1>1, <1>4, <1>5, <1>6, <1>7 DEF Attempt!Begin
<1>9. QED BY <1>2, <1>8

\* A probe that is over frees its slot, or has an error to count first.
LEMMA LatencyObserveMaps ==
  ASSUME Inv, NEW w \in Pool, LatencyObserve(w)
  PROVE  \E t \in Targets : Attempt!End(t, w)
<1>1. PICK t \in Targets : t = worker[w].target
  BY JobOf DEF LatencyObserve
<1>2. PICK v : /\ v = Holds(IF worker[w].category = "" THEN "counted" ELSE "observed", t)
               /\ worker' = [worker EXCEPT ![w] = v]
  BY <1>1 DEF LatencyObserve
<1>3. /\ worker[w].stage = "record" /\ latency' = [latency EXCEPT ![t] = @ + 1]
      /\ UNCHANGED <<ctxDone, scheduler, jobs, traffic, dropped, errors>>
  BY <1>1 DEF LatencyObserve, schedulerVars
<1>4. Types /\ w \in Workers /\ v \in Worker /\ v.stage \in {"counted", "observed"}
      /\ v.target = t
  BY <1>1, <1>2, <1>3, JobOf DEF Inv, Worker, Holds, Idle
<1>5. /\ Probing[w] = t /\ w \notin At({"observed"})
      /\ Probing' = [Probing EXCEPT ![w] = Shown(v)]
      /\ At({"observed"})' =
           IF v.stage = "observed" THEN At({"observed"}) \cup {w} ELSE At({"observed"}) \ {w}
  <2>1. Shown(worker[w]) = t
    BY <1>1, <1>3 DEF Shown, Busy
  <2>2. w \notin At({"observed"})
    BY <1>3 DEF At
  <2>3. QED BY <1>2, <1>4, <2>1, <2>2, SlotMoves
<1>6. OpenAttempts' = OpenAttempts /\ Dropping' = Dropping
  <2>1. \A u : Has(worker[w], Accepted, u) = 0 /\ Has(v, Accepted, u) = 0
    BY <1>3, <1>4 DEF Has, One, Accepted
  <2>2. ASSUME NEW u \in Targets PROVE Open(u)' = Open(u)
    <3>1. Open(u)' = Open(u) - Has(worker[w], Accepted, u) + Has(v, Accepted, u)
      BY <1>2, <1>3, <1>4, WorkerOpens
    <3>2. QED BY <1>4, <2>1, <3>1, OpenType
  <2>3. QED BY <1>3, <2>2, OpenStays DEF Dropping
<1>7. CASE v.stage = "counted"
  <2>1. Shown(v) = Unset
    BY <1>7 DEF Shown, Busy
  <2>2. At({"observed"})' = At({"observed"})
    BY <1>5, <1>7
  <2>3. Attempt!End(t, w)
    BY <1>3, <1>5, <1>6, <2>1, <2>2 DEF Attempt!End
  <2>4. QED BY <2>3
<1>8. CASE v.stage = "observed"
  <2>1. Shown(v) = Probing[w]
    BY <1>4, <1>5, <1>8 DEF Shown
  <2>2. Probing' = Probing
    BY <1>5, <2>1 DEF Probing
  <2>3. At({"observed"})' = At({"observed"}) \cup {w}
    BY <1>5, <1>8
  <2>4. Attempt!End(t, w)
    BY <1>3, <1>5, <1>6, <2>2, <2>3 DEF Attempt!End
  <2>5. QED BY <2>4
<1>9. QED BY <1>4, <1>7, <1>8

\* The error that is counted frees the slot.
LEMMA ErrorIncMaps ==
  ASSUME Inv, NEW w \in Pool, ErrorInc(w)
  PROVE  \E t \in Targets : Attempt!Fail(t, w)
<1> DEFINE v == [worker[w] EXCEPT !.stage = "counted"]
<1>1. PICK t \in Targets : t = worker[w].target
  BY JobOf DEF ErrorInc
<1>2. /\ worker[w].stage = "observed" /\ errors' = [errors EXCEPT ![t] = @ + 1]
      /\ UNCHANGED <<ctxDone, scheduler, jobs, traffic, dropped, latency>>
  BY <1>1 DEF ErrorInc, schedulerVars
<1>3. Types /\ w \in Workers /\ worker[w] \in Worker
  BY <1>2, JobOf DEF Inv
<1>4. /\ worker' = [worker EXCEPT ![w] = v] /\ v \in Worker /\ v.stage = "counted"
  BY <1>3 DEF ErrorInc, Worker, Types
<1> HIDE DEF v
<1>5. Probing[w] = t /\ Probing' = [Probing EXCEPT ![w] = Unset]
  <2>1. Shown(worker[w]) = t /\ Shown(v) = Unset
    BY <1>1, <1>2, <1>4 DEF Shown, Busy
  <2>2. Probing[w] = Shown(worker[w]) /\ Probing' = [Probing EXCEPT ![w] = Shown(v)]
    BY <1>3, <1>4, SlotMoves
  <2>3. QED BY <2>1, <2>2
<1>6. w \in At({"observed"}) /\ At({"observed"})' = At({"observed"}) \ {w}
  <2>1. worker'[w] = v /\ \A x \in Workers \ {w} : worker'[x] = worker[x]
    BY <1>3, <1>4 DEF Types
  <2>2. QED BY <1>2, <1>3, <1>4, <2>1 DEF At
<1>7. OpenAttempts' = OpenAttempts /\ Dropping' = Dropping
  <2>1. \A u : Has(worker[w], Accepted, u) = 0 /\ Has(v, Accepted, u) = 0
    BY <1>2, <1>4 DEF Has, One, Accepted
  <2>2. ASSUME NEW u \in Targets PROVE Open(u)' = Open(u)
    <3>1. Open(u)' = Open(u) - Has(worker[w], Accepted, u) + Has(v, Accepted, u)
      BY <1>2, <1>3, <1>4, WorkerOpens
    <3>2. QED BY <1>3, <2>1, <3>1, OpenType
  <2>3. QED BY <1>2, <2>2, OpenStays DEF Dropping
<1>8. Attempt!Fail(t, w)
  BY <1>2, <1>5, <1>6, <1>7 DEF Attempt!Fail
<1>9. QED BY <1>8

\* A scheduler makes attempts due and, at SIGTERM, abandons the one that is.
LEMMA SchedulerMaps ==
  ASSUME Types, NEW t \in Targets, StartScheduler(t) \/ Tick(t) \/ SchedulerReturns(t)
  PROVE  UNCHANGED Attempt!vars \/ Attempt!Due(t) \/ Attempt!Abandon(t)
<1>1. UNCHANGED <<ctxDone, jobs, worker, traffic, dropped, latency, errors>>
  BY DEF StartScheduler, Tick, SchedulerReturns, metrics
<1>2. Probing' = Probing /\ At({"observed"})' = At({"observed"})
  BY <1>1, SlotsStay
<1>3. Open(t) \in Nat /\ (scheduler[t] = "due" => Open(t) > 0)
  BY OpenIs, OpenType DEF One
<1>4. ASSUME NEW state \in {"due", "returned"}, scheduler' = [scheduler EXCEPT ![t] = state],
             scheduler[t] # "dropping"
      PROVE  /\ Dropping' = Dropping
             /\ \A u \in Targets \ {t} : Open(u)' = Open(u)
             /\ Open(t)' = Open(t) - One(scheduler[t] = "due") + One(state = "due")
  <2>1. Dropping' = Dropping
    <3>1. t \notin Dropping /\ t \notin Dropping'
      BY <1>4, DroppingMoves
    <3>2. Dropping' = Dropping \ {t} \/ Dropping' = Dropping \cup {t}
      BY <1>4, DroppingMoves
    <3>3. QED BY <3>1, <3>2
  <2>2. QED BY <1>1, <1>4, <2>1, SchedulerOpens
<1>5. ASSUME scheduler[t] \in {"new", "waiting"}, scheduler' = [scheduler EXCEPT ![t] = "due"]
      PROVE  Attempt!Due(t)
  <2>1. One(scheduler[t] = "due") = 0 /\ One("due" = "due") = 1
    BY <1>5 DEF One
  <2>2. /\ Dropping' = Dropping
        /\ \A u \in Targets \ {t} : Open(u)' = Open(u)
        /\ Open(t)' = Open(t) - One(scheduler[t] = "due") + One("due" = "due")
    BY <1>4, <1>5
  <2>3. Open(t)' = Open(t) + 1
    BY <1>3, <2>1, <2>2
  <2>4. OpenAttempts' = [OpenAttempts EXCEPT ![t] = @ + 1]
    BY <2>2, <2>3, OpenMoves
  <2>5. QED BY <1>1, <1>2, <2>2, <2>4 DEF Attempt!Due, Attempt!counts
<1>6. ASSUME UNCHANGED scheduler PROVE UNCHANGED Attempt!vars
  <2>1. \A u : Open(u)' = Open(u)
    BY <1>1, <1>6 DEF Open, AtWith, At
  <2>2. QED BY <1>1, <1>2, <1>6, <2>1, Stutters
<1>7. CASE StartScheduler(t)
  BY <1>5, <1>6, <1>7 DEF StartScheduler, schedulerVars
<1>8. CASE Tick(t)
  BY <1>5, <1>8 DEF Tick
<1>9. CASE SchedulerReturns(t)
  <2>1. /\ ctxDone /\ scheduler[t] \in {"waiting", "due"}
        /\ scheduler' = [scheduler EXCEPT ![t] = "returned"]
    BY <1>9 DEF SchedulerReturns
  <2>2. /\ Dropping' = Dropping
        /\ \A u \in Targets \ {t} : Open(u)' = Open(u)
        /\ Open(t)' = Open(t) - One(scheduler[t] = "due") + One("returned" = "due")
    BY <1>4, <2>1
  <2>3. One("returned" = "due") = 0
    BY DEF One
  <2>4. CASE scheduler[t] = "waiting"
    <3>1. One(scheduler[t] = "due") = 0
      BY <2>4 DEF One
    <3>2. Open(t)' = Open(t)
      BY <1>3, <2>2, <2>3, <3>1
    <3>3. OpenAttempts' = OpenAttempts
      BY <2>2, <3>2, OpenMoves
    <3>4. QED BY <1>1, <1>2, <2>2, <3>3 DEF Attempt!vars, Attempt!counts
  <2>5. CASE scheduler[t] = "due"
    <3>1. One(scheduler[t] = "due") = 1
      BY <2>5 DEF One
    <3>2. Open(t)' = Open(t) - 1
      BY <1>3, <2>2, <2>3, <3>1
    <3>3. Attempt!Closes(t)
      BY <1>3, <2>2, <2>5, <3>2, OpenMoves DEF Attempt!Closes
    <3>4. QED BY <1>1, <1>2, <2>1, <2>2, <3>3 DEF Attempt!Abandon, Attempt!counts
  <2>6. QED BY <2>1, <2>4, <2>5
<1>10. QED BY <1>7, <1>8, <1>9

\* Every step is one of Attempts, or none of its business.
LEMMA AttemptStep == Inv /\ [Next]_vars => [Attempt!Next]_(Attempt!vars)
<1> SUFFICES ASSUME Inv, [Next]_vars PROVE [Attempt!Next]_(Attempt!vars)
  OBVIOUS
<1>1. Types
  BY DEF Inv
<1>2. ASSUME UNCHANGED <<scheduler, jobs, worker, metrics>>
      PROVE  /\ UNCHANGED <<OpenAttempts, Dropping, Probing, At({"observed"}), Attempt!counts>>
             /\ UNCHANGED ctxDone => UNCHANGED Attempt!vars
  <2>1. \A u : Open(u)' = Open(u)
    BY <1>2 DEF Open, AtWith, At
  <2>2. OpenAttempts' = OpenAttempts /\ Dropping' = Dropping /\ Probing' = Probing
        /\ At({"observed"})' = At({"observed"})
    BY <1>2, <2>1, OpenStays, SlotsStay DEF Dropping
  <2>3. QED BY <1>2, <2>2 DEF Attempt!vars, Attempt!counts, metrics
<1>3. CASE Cancel
  <2>1. Attempt!Stop
    BY <1>2, <1>3 DEF Cancel, Attempt!Stop, schedulerVars
  <2>2. QED BY <2>1 DEF Attempt!Next
<1>4. ASSUME NEW t \in Targets,
             StartScheduler(t) \/ Tick(t) \/ Enqueue(t) \/ Drop(t) \/ SchedulerReturns(t)
      PROVE  [Attempt!Next]_(Attempt!vars)
  <2>1. CASE Enqueue(t)
    BY <1>1, <2>1, EnqueueMaps DEF Attempt!Next
  <2>2. CASE Drop(t)
    BY <1>1, <2>2, DropMaps DEF Attempt!Next
  <2>3. CASE StartScheduler(t) \/ Tick(t) \/ SchedulerReturns(t)
    BY <1>1, <2>3, SchedulerMaps DEF Attempt!Next
  <2>4. QED BY <1>4, <2>1, <2>2, <2>3
<1>5. ASSUME NEW w \in Pool, TakeJob(w) \/ WorkerExits(w) \/ ProbeTarget(w)
      PROVE  [Attempt!Next]_(Attempt!vars)
  <2>1. w \in Workers
    BY DEF Pool
  <2>2. CASE TakeJob(w)
    BY <1>1, <2>2, TakeJobMaps
  <2>3. CASE TrafficInc(w)
    BY <2>1, <2>3, TrafficIncMaps DEF Attempt!Next
  <2>4. CASE LatencyObserve(w)
    BY <2>1, <2>4, LatencyObserveMaps DEF Attempt!Next
  <2>5. CASE ErrorInc(w)
    BY <2>1, <2>5, ErrorIncMaps DEF Attempt!Next
  <2>6. CASE WorkerExits(w) \/ SaturationInc(w) \/ Acquire(w) \/ Probe(w) \/ SaturationDec(w)
    BY <2>6, SilentStutters
  <2>7. QED BY <1>5, <2>2, <2>3, <2>4, <2>5, <2>6 DEF ProbeTarget
<1>6. CASE UNCHANGED vars
  BY <1>2, <1>6 DEF vars, schedulerVars
<1>7. QED BY <1>3, <1>4, <1>5, <1>6 DEF Next

\* No attempt is open and no worker has a job at the start.
LEMMA InitEmpty ==
  ASSUME Init
  PROVE  /\ \A w \in Workers : worker[w].stage = "idle"
         /\ \A S : "idle" \notin S => At(S) = {} /\ \A t : AtWith(S, t) = {}
         /\ \A t \in Targets : Open(t) = 0 /\ One(scheduler[t] = "dropping") = 0
         /\ Dropping = {}
<1>1. \A w \in Workers : worker[w].stage = "idle"
  BY DEF Init, Idle
<1>2. \A S : "idle" \notin S => At(S) = {} /\ \A t : AtWith(S, t) = {}
  BY <1>1 DEF At, AtWith
<1>3. ASSUME NEW t \in Targets PROVE Open(t) = 0 /\ One(scheduler[t] = "dropping") = 0
  <2>1. scheduler[t] = "new" /\ jobs = << >>
    BY DEF Init
  <2>2. Queued(jobs, t) = {} /\ AtWith(Accepted, t) = {}
    <3>1. Queued(jobs, t) = {}
      BY <2>1 DEF Queued
    <3>2. "idle" \notin Accepted
      BY DEF Accepted
    <3>3. QED BY <1>2, <3>1, <3>2
  <2>3. /\ One(scheduler[t] = "due") = 0 /\ One(scheduler[t] = "dropping") = 0
        /\ Cardinality(Queued(jobs, t)) = 0 /\ Cardinality(AtWith(Accepted, t)) = 0
    BY <2>1, <2>2, FS_EmptySet DEF One
  <2>4. QED BY <2>3, OpenIs
<1>4. Dropping = {}
  BY DEF Init, Dropping
<1>5. QED BY <1>1, <1>2, <1>3, <1>4

\* The initial states are initial states of Attempts.
LEMMA AttemptInit == Init => Attempt!Init
<1> SUFFICES ASSUME Init PROVE Attempt!Init
  OBVIOUS
<1>1. OpenAttempts = [t \in Targets |-> 0]
  BY InitEmpty DEF OpenAttempts
<1>2. At(Busy \cup {"observed"}) = {} /\ At({"observed"}) = {} /\ Dropping = {}
  BY InitEmpty DEF Busy
<1>3. Probing = [w \in Workers |-> Unset]
  BY <1>2 DEF Probing
<1>4. QED BY <1>1, <1>2, <1>3 DEF Init, Attempt!Init, Attempt!Zero

-----------------------------------------------------------------------------
(* The theorems.                                                           *)

\* The invariant holds at the start.
LEMMA InitInv == Init => Inv
<1> SUFFICES ASSUME Init PROVE Inv
  OBVIOUS
<1>1. Types
  <2>1. [environ |-> environ, fleet |-> fleet] \in Deployments
    <3>1. PICK d \in Deployments : environ = d.environ /\ fleet = d.fleet
      BY DEF Init
    <3>2. d = [environ |-> d.environ, fleet |-> d.fleet]
      BY PipelineAssumption
    <3>3. QED BY <3>1, <3>2
  <2>2. worker \in [Workers -> Worker]
    BY DEF Init, Idle, Worker
  <2>3. /\ ticks \in [Targets -> Nat] /\ traffic \in [Targets -> Nat]
        /\ dropped \in [Targets -> Nat] /\ latency \in [Targets -> Nat]
        /\ errors \in [Targets -> Nat]
        /\ \A t \in Targets : ticks[t] <= MaxTicks
    BY PipelineAssumption DEF Init
  <2>4. panicked \in BOOLEAN
    BY DEF Init
  <2>5. jobs \in Seq(Targets) /\ jobs = << >> /\ ctxDone \in BOOLEAN /\ expiry \subseteq Targets
    <3>1. jobs = << >> /\ ctxDone = FALSE /\ expiry = {}
      BY DEF Init
    <3>2. ctxDone \in BOOLEAN
      BY <3>1
    <3>3. jobs \in Seq(Targets) /\ expiry \subseteq Targets
      BY <3>1
    <3>4. QED BY <3>1, <3>2, <3>3
  <2>6. scheduler \in [Targets -> {"new", "waiting", "due", "dropping", "returned"}]
    <3>1. scheduler = [t \in Targets |-> "new"]
      BY DEF Init
    <3>2. QED BY <3>1
  <2>7. sem = 0 /\ saturation = 0
    BY DEF Init
  <2>8. QED BY <2>1, <2>2, <2>3, <2>4, <2>5, <2>6, <2>7 DEF Types
<1>2. /\ At({"execute"}) = {} /\ At({"record"}) = {} /\ At(Busy) = {} /\ At(Saturated) = {}
      /\ \A t : AtWith(Busy, t) = {} /\ AtWith({"observed"}, t) = {}
  BY InitEmpty DEF Busy, Saturated
<1>3. TokensHeld
  <2>1. maxConcurrentProbes \in Int
    BY <1>1, ConfigType
  <2>2. sem = 0 /\ Cardinality(At({"execute"})) = 0
    BY <1>2, FS_EmptySet DEF Init
  <2>3. QED BY <2>1, <2>2 DEF TokensHeld, Bounded
<1>4. SignalsAgree
  <2>1. ASSUME NEW t \in Targets PROVE Signals(t)
    <3>1. Cardinality(AtWith(Busy, t)) = 0 /\ Cardinality(AtWith({"observed"}, t)) = 0
      BY <1>2, FS_EmptySet
    <3>2. /\ ticks[t] = 0 /\ dropped[t] = 0 /\ traffic[t] = 0 /\ latency[t] = 0
          /\ errors[t] = 0
      BY DEF Init
    <3>3. Open(t) = 0 /\ One(scheduler[t] = "dropping") = 0
      BY InitEmpty
    <3>4. Lost(t) = 0
      BY <3>2, <3>3, LostIs
    <3>5. QED BY <3>1, <3>2, <3>4 DEF Signals
  <2>2. saturation = 0 /\ Cardinality(At(Saturated)) = 0
    BY <1>2, FS_EmptySet DEF Init
  <2>3. QED BY <2>1, <2>2, SignalsIff
<1>5. Placed
  BY InitEmpty DEF Placed
<1>6. Verdicts /\ NeverWaits
  BY <1>2 DEF Verdicts, NeverWaits
<1>7. QED BY <1>1, <1>3, <1>4, <1>5, <1>6 DEF Inv

\* Every step keeps it.
LEMMA StepInv == Inv /\ [Next]_vars => Inv'
<1> SUFFICES ASSUME Inv, [Next]_vars PROVE Inv'
  OBVIOUS
<1>1. Types
  BY DEF Inv
<1>2. ASSUME UNCHANGED config, UNCHANGED <<schedulerVars, jobs, worker, sem, metrics>>,
             ctxDone => ctxDone', ctxDone' \in BOOLEAN, panicked' \in BOOLEAN
      PROVE  Inv'
  <2>1. environ' = environ /\ fleet' = fleet
    BY <1>2 DEF config
  <2>2. Types'
    BY <1>1, <1>2, <2>1, ConfigKept DEF Types, metrics, schedulerVars
  <2>3. SignalsAgree'
    <3>1. ASSUME NEW t \in Targets PROVE Keeps(t)
      <4>1. Open(t)' = Open(t)
        BY <1>2 DEF Open, AtWith, At, schedulerVars
      <4>2. QED BY <1>2, <4>1 DEF Keeps, Lost, schedulerVars, metrics
    <3>2. QED BY <1>2, <3>1, CountsStay, SignalsStay DEF Inv, metrics
  <2>4. QED BY <1>2, <2>2, <2>3, WorkersStay DEF Inv
<1>3. CASE Cancel
  BY <1>1, <1>2, <1>3 DEF Cancel, Types
<1>4. ASSUME NEW t \in Targets, StartScheduler(t) PROVE Inv'
  <2>1. CASE probeInterval > 0
    BY <1>4, <2>1, AttemptKeeps DEF StartScheduler
  <2>2. CASE ~(probeInterval > 0)
    BY <1>1, <1>2, <1>4, <2>2 DEF StartScheduler, Types
  <2>3. QED BY <2>1, <2>2
<1>5. ASSUME NEW t \in Targets, Tick(t) PROVE Inv'
  BY <1>5, AttemptKeeps DEF Tick
<1>6. ASSUME NEW w \in Pool, ProbeTarget(w) PROVE Inv'
  BY <1>6, SaturationIncKeeps, TrafficIncKeeps, AcquireKeeps, ProbeKeeps, LatencyObserveKeeps,
     ErrorIncKeeps, SaturationDecKeeps DEF ProbeTarget
<1>7. CASE UNCHANGED vars
  BY <1>1, <1>2, <1>7 DEF vars, Types
<1>8. QED BY <1>3, <1>4, <1>5, <1>6, <1>7, EnqueueKeeps, DropKeeps, SchedulerReturnsKeeps,
             TakeJobKeeps, WorkerExitsKeeps DEF Next

LEMMA InvHolds == Spec => []Inv
<1>1. QED BY InitInv, StepInv, PTL DEF Spec

\* The counters are bounded by the attempts, tokens and saturation by the pool.
THEOREM TypeCorrect == Spec => []TypeOK
<1>1. Inv => TypeOK
  <2> SUFFICES ASSUME Inv PROVE TypeOK
    OBVIOUS
  <2>1. Types
    BY DEF Inv
  <2>2. sem \in 0 .. MaxWorkers
    <3>1. sem = IF Bounded THEN Cardinality(At({"execute"})) ELSE 0
      BY DEF Inv, TokensHeld
    <3>2. QED BY <3>1, WorkersFinite, PipelineAssumption
  <2>3. saturation \in 0 .. MaxWorkers
    BY WorkersFinite, SignalsIff DEF Inv
  <2>4. ASSUME NEW t \in Targets
        PROVE  /\ ticks[t] \in 0 .. MaxTicks /\ traffic[t] \in 0 .. MaxTicks
               /\ dropped[t] \in 0 .. MaxTicks /\ latency[t] \in 0 .. MaxTicks
               /\ errors[t] \in 0 .. MaxTicks
    <3>1. /\ Lost(t) \in {0, 1}
          /\ traffic[t] = Cardinality(AtWith(Busy, t)) + latency[t]
          /\ errors[t] + Cardinality(AtWith({"observed"}, t)) <= latency[t]
      BY SignalsIff DEF Inv, Signals
    <3>2. Lost(t) = ticks[t] - (Open(t) + One(scheduler[t] = "dropping") + dropped[t] + traffic[t])
      BY LostIs
    <3>3. ticks[t] <= MaxTicks /\ MaxTicks \in Nat
      BY <2>1, PipelineAssumption DEF Types
    <3>4. QED BY <2>1, <3>1, <3>2, <3>3, CountersType
  <2>5. {ticks, traffic, dropped, latency, errors} \subseteq [Targets -> 0 .. MaxTicks]
    BY <2>1, <2>4 DEF Types
  <2>6. QED BY <2>1, <2>2, <2>3, <2>5 DEF Types, TypeOK
<1>2. QED BY <1>1, InvHolds, PTL

\* dispatcher.go:45: a token is held by the probes on the network and by nobody
\* else, for any number of workers and tokens.
THEOREM TokensAreHeld == Spec => []TokensHeld
<1>1. Inv => TokensHeld
  BY DEF Inv
<1>2. QED BY <1>1, InvHolds, PTL

\* ADR 0004: between any two single updates of the metrics, every attempt is
\* open, dropped or counted, and no error is counted before its latency, for any
\* number of targets and workers and any capacity of the queue.
THEOREM SignalsAlwaysAgree == Spec => []SignalsAgree
<1>1. Inv => SignalsAgree
  BY DEF Inv
<1>2. QED BY <1>1, InvHolds, PTL

\* prober.go:31: a category tells what the target did, but for the answers in
\* Misclassified, every one of which gets a category whose hint is wrong.
THEOREM VerdictsFit == Spec => []VerdictFits
<1>1. Inv => VerdictFits
  BY DEF Inv, VerdictFits, Verdicts, Fits, MayGiveUp
<1>2. QED BY <1>1, InvHolds, PTL

\* main.go:61: with a token for every worker a timeout is the target's.
THEOREM TimeoutsAreTrue == Spec => []NoFalseTimeout
<1>1. Inv => NoFalseTimeout
  <2>1. SUFFICES ASSUME Inv, Roomy, NEW w \in At(Busy), worker[w].category = "timeout"
                 PROVE  worker[w].answer = "hang"
    BY DEF NoFalseTimeout, Roomy
  <2>2. w \in Workers /\ worker[w].stage \in Busy
    BY DEF At
  <2>3. worker[w].stage = "record"
    BY <2>1, <2>2 DEF Inv, Placed, Proper, Busy
  <2>4. ~worker[w].waited /\ ~ctxDone /\ probeTimeout > 0
    BY <2>1, <2>2 DEF Inv, NeverWaits, Roomy
  <2>5. probeTimeout \in Int
    BY <2>1, ConfigType DEF Inv
  <2>6. Earned(worker[w])
    BY <2>1, <2>2, <2>3, <2>4 DEF Inv, Verdicts, At
  <2>7. QED BY <2>1, <2>4, <2>5, <2>6 DEF Earned
<1>2. QED BY <1>1, InvHolds, PTL

\* ADR 0004 and 0006: schedulers, queue, workers and tokens together settle each
\* attempt once, as Attempts promises: none is dropped, ends or fails twice, and
\* none is refused for want of room after SIGTERM.
THEOREM AttemptsAreSettled == Spec => ImplementsAttempts
<1>1. QED
  BY AttemptInit, InvHolds, AttemptStep, PTL DEF Spec, ImplementsAttempts, Attempt!Spec

-----------------------------------------------------------------------------
(* Nobody waits for everybody: what QueueMoves needs but fairness.         *)

\* Some worker of the pool can go on: it looks for a job, its probe is on the
\* network or updates the metrics, there is a token for it, or SIGTERM let it go.
PoolMoves ==
  Pool # {} =>
    \E w \in Pool :
      \/ worker[w].stage \notin {"acquire", "exited"}
      \/ worker[w].stage = "acquire" /\ HasToken
      \/ worker[w].stage = "exited" /\ ctxDone

ExitedAfterSigterm == \A w \in Workers : worker[w].stage = "exited" => ctxDone

\* Only SIGTERM makes a worker leave.
LEMMA ExitedStep == Types /\ ExitedAfterSigterm /\ [Next]_vars => ExitedAfterSigterm'
<1> SUFFICES ASSUME Types, ExitedAfterSigterm, [Next]_vars PROVE ExitedAfterSigterm'
  OBVIOUS
<1>1. ctxDone => ctxDone'
  BY DeploymentKept
<1>2. ASSUME NEW w \in Workers, NEW v, worker' = [worker EXCEPT ![w] = v],
             v.stage = "exited" => ctxDone
      PROVE  ExitedAfterSigterm'
  BY <1>1, <1>2 DEF ExitedAfterSigterm, Types
<1>3. ASSUME UNCHANGED worker PROVE ExitedAfterSigterm'
  BY <1>1, <1>3 DEF ExitedAfterSigterm
<1>4. ASSUME NEW w \in Workers, NEW t, Receive(w, t) PROVE ExitedAfterSigterm'
  <2>1. Holds("received", t).stage # "exited"
    BY DEF Holds, Idle
  <2>2. QED BY <1>2, <1>4, <2>1 DEF Receive
<1>5. ASSUME NEW t \in Targets,
             StartScheduler(t) \/ Tick(t) \/ Enqueue(t) \/ Drop(t) \/ SchedulerReturns(t)
      PROVE  ExitedAfterSigterm'
  BY <1>3, <1>4, <1>5 DEF StartScheduler, Tick, Enqueue, Drop, SchedulerReturns, Pool
<1>6. ASSUME NEW w \in Pool, TakeJob(w) \/ WorkerExits(w) \/ ProbeTarget(w)
      PROVE  ExitedAfterSigterm'
  <2>1. w \in Workers /\ worker[w] \in Worker
    BY DEF Pool, Types
  <2>2. ASSUME NEW stage, worker' = [worker EXCEPT ![w].stage = stage], stage = "exited" => ctxDone
        PROVE  ExitedAfterSigterm'
    <3> DEFINE v == [worker[w] EXCEPT !.stage = stage]
    <3>1. worker' = [worker EXCEPT ![w] = v] /\ v.stage = stage
      BY <2>1, <2>2 DEF Worker
    <3> HIDE DEF v
    <3>2. QED BY <1>2, <2>1, <2>2, <3>1
  <2>3. ASSUME NEW answer, NEW category, Returns(w, answer, category)
        PROVE  ExitedAfterSigterm'
    <3> DEFINE v == [worker[w] EXCEPT !.stage = "record", !.answer = answer,
                                      !.category = category]
    <3>1. worker' = [worker EXCEPT ![w] = v] /\ v.stage = "record"
      BY <2>1, <2>3 DEF Returns, Worker
    <3> HIDE DEF v
    <3>2. QED BY <1>2, <2>1, <3>1
  <2>4. CASE Acquire(w)
    <3>1. CASE TakeToken(w)
      <4>1. worker' = [worker EXCEPT ![w].stage = "execute"] /\ "execute" # "exited"
        BY <3>1 DEF TakeToken
      <4>2. QED BY <2>2, <4>1
    <3>2. CASE worker' = [worker EXCEPT ![w].waited = TRUE] /\ worker[w].stage = "acquire"
      BY <1>2, <2>1, <3>2 DEF Worker
    <3>3. QED BY <2>3, <2>4, <3>1, <3>2 DEF Acquire
  <2>5. CASE Probe(w)
    BY <2>3, <2>5 DEF Probe
  <2>6. CASE TakeJob(w)
    BY <1>4, <2>1, <2>6 DEF TakeJob
  <2>7. CASE WorkerExits(w)
    BY <2>2, <2>7 DEF WorkerExits
  <2>8. CASE SaturationInc(w) \/ TrafficInc(w) \/ ErrorInc(w)
    BY <2>2, <2>8 DEF SaturationInc, TrafficInc, ErrorInc
  <2>9. CASE LatencyObserve(w)
    <3> DEFINE v == Holds(IF worker[w].category = "" THEN "counted" ELSE "observed",
                          worker[w].target)
    <3>1. worker' = [worker EXCEPT ![w] = v] /\ v.stage # "exited"
      BY <2>9 DEF LatencyObserve, Holds, Idle
    <3> HIDE DEF v
    <3>2. QED BY <1>2, <2>1, <3>1
  <2>10. CASE SaturationDec(w)
    BY <1>2, <2>1, <2>10 DEF SaturationDec, Idle
  <2>11. QED
    BY <1>6, <2>4, <2>5, <2>6, <2>7, <2>8, <2>9, <2>10 DEF ProbeTarget
<1>7. QED BY <1>3, <1>5, <1>6 DEF Next, Cancel, vars

\* ADR 0006: the workers never all wait for tokens: one that waits does so while
\* a probe with a timeout holds a token, for any number of workers and tokens.
THEOREM PoolIsNeverStuck == Spec => []PoolMoves
<1>1. Init => ExitedAfterSigterm
  <2> SUFFICES ASSUME Init, NEW w \in Workers PROVE worker[w].stage # "exited"
    BY DEF ExitedAfterSigterm
  <2>1. worker[w].stage = "idle"
    BY InitEmpty
  <2>2. QED BY <2>1
<1>2. Inv /\ ExitedAfterSigterm /\ [Next]_vars => ExitedAfterSigterm'
  BY ExitedStep DEF Inv
<1>3. Inv /\ ExitedAfterSigterm => PoolMoves
  <2> SUFFICES ASSUME Inv, ExitedAfterSigterm, NEW u \in Pool,
                      \A w \in Pool : worker[w].stage = "acquire" /\ ~HasToken
               PROVE  FALSE
    <3>1. ASSUME Types, ExitedAfterSigterm, NEW w \in Pool
          PROVE  worker[w].stage = "exited" => ctxDone
      BY <3>1 DEF ExitedAfterSigterm, Pool
    <3>2. QED BY <3>1 DEF PoolMoves, Inv
  <2>1. Bounded /\ ~(sem < maxConcurrentProbes)
    BY DEF HasToken
  <2>2. At({"execute"}) = {}
    BY DEF At, Inv, Placed
  <2>3. sem = 0
    BY <2>1, <2>2, FS_EmptySet DEF Inv, TokensHeld
  <2>4. maxConcurrentProbes \in Int
    BY ConfigType DEF Inv
  <2>5. QED BY <2>1, <2>3, <2>4 DEF Bounded
<1>4. QED BY <1>1, <1>2, <1>3, InvHolds, PTL DEF Spec
=============================================================================
