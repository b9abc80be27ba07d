# kube-prober in TLA+

kube-prober runs as several replicas. Each one discovers probe targets in
Kubernetes, claims its share of them by rendezvous hashing, probes them
periodically and exports metrics. This directory models what is hard to test in
it: what its goroutines do to each other between a change of a Kubernetes object
and the scheduler it should start or stop, on the way of a probe through queue,
workers and semaphore, around a scrape, at shutdown, and between replicas.

## Inventory

| component | state | operations | talks to |
|---|---|---|---|
| Sharding (`pkg/prober/sharding.go`) | none | `evalShardingOwner` | called by the registry |
| Registry (`pkg/prober/registry.go`) | `targets`, `sliceTargets`, `clusterPodIPs`, `active`, channel `Events` | `UpdatePeers`, `UpdateFromEndpointSlice`, `RemoveEndpointSlice`, `Add`, `Remove`, `emitEvent`, `Close` | called by informers' goroutines, sends to the event loop |
| Discovery (`pkg/prober/informer.go`) | client-go stores of EndpointSlices and Services | slice handlers, `WatchPeers` | registry |
| StaticTargets (`pkg/prober/statictargets.go`) | client-go store | add, update, delete handlers | registry |
| Event loop (`main.go`) | `activeSchedulers` | one body per event | receives `Events`, starts and stops schedulers, marks and aborts in the cleaner |
| Scheduler and workers (`pkg/prober/worker.go`) | channel `jobs` | `TargetScheduler`, `WorkerPool`, `ProbeTarget` | dispatcher, metrics |
| Dispatcher (`pkg/prober/dispatcher.go`) | semaphore, prober table | `Register`, `Execute` | protocol probers |
| Protocol probers (`http.go`, `tcp.go`, `tls.go`, `grpc.go`, `dns.go`), error categories (`prober.go`) | none | one probe | the network |
| MetricsCleaner (`pkg/server/metrics_cleaner.go`, `DeleteTargetMetrics`) | `pendingDeletes`, the series | `MarkForDeletion`, `AbortDeletion`, `Handler` | event loop, scrapes, probes |
| Server (`pkg/server/server.go`) | none of its own | `Start`, `Shutdown` | cleaner |
| Shutdown (`main.go`, from `<-ctx.Done()`) | wait groups, the closing of channels | the steps of main | everything |
| Configuration (`pkg/env`), clients (`pkg/kube`) | none | pure I/O | main |

The hard behaviours:

* Every operation of the registry changes its maps in one critical section and
  sends its events **after** releasing the mutex. Four goroutines do that (the
  slice handler, the StaticTarget handler, the peer handler, and `WatchPeers`,
  which calls the peer update itself), so two changes of one address may enter
  `Events` in the opposite order.
* `Events` is bounded. An add gives up after 100 ms on a full channel, a removal
  waits; at SIGTERM both may give up.
* The loop keeps its own idea of what runs, and learns of the registry only
  through the events.
* EndpointSlices and the Services they depend on are followed by separate
  informers; notifications lag, skip states and are repeated every 10 minutes.
* A probe waits for its token on its own timeout, shares queue, workers and
  tokens with targets that hang, and changes its metrics in separate steps.
* A scrape serves, collects and deletes in three steps, overlapping with other
  scrapes, with the loop that marks and aborts, and with probes of targets whose
  scheduler is gone.
* At shutdown main waits and closes in a fixed order while senders, the loop,
  schedulers and workers still run; a send on a closed channel panics.
* Replicas list the same peers in different orders, with repetitions, and hold
  different peers while a scaling event propagates; each of them reads and stores
  its peers in two goroutines, and forgets them when it restarts.

`PROJECT.json` lists each hazard at its line.

What makes each component correct: *sharding*, one owner per target among
replicas that agree, little movement when they scale; *registry*, claims that
follow ownership, no orphaned dynamic target, static targets protected;
*discovery*, the registry ends up with what the objects say; *event loop*,
schedulers that follow the registry; *pipeline*, tokens conserved, every attempt
accounted for, verdicts that fit; *cleaner*, no series lost for a running target,
none kept for a dead one; *shutdown*, it ends, nothing starts late, what main
waited for sends nothing on a closed channel; *replicas*, rebalancing ends with one owner per target.

## Modules

| module | models | depends on |
|---|---|---|
| `Sharding` | what `evalShardingOwner` returns (operators) | |
| `ShardingScan` | the loop that computes it, run by every replica | `Sharding` |
| `Registry` | the registry, with its senders | `Sharding` |
| `DeferredDeletion` | the abstract specification of the marks for deletion: an event or a scrape is one step | |
| `EventLoop` | the registry composed with the event loop; implements `DeferredDeletion` | `Registry`, `DeferredDeletion` |
| `Discovery` | a whole replica: the informers' handlers and the objects they follow, composed with the registry and the event loop, whose operations its handlers call | `EventLoop` |
| `Replicas` | the replicas of the cluster and how each learns of the others | `Sharding` |
| `Probers` | the protocol probers and `MapToCategory`, and which categories fit what a target did (operators) | |
| `Attempts` | the abstract specification of the attempts to probe a target: each is refused and counted as dropped, or begins and ends once | |
| `Pipeline` | configuration, schedulers, queue, workers, semaphore, metrics; implements `Attempts` | `Probers`, `Attempts` |
| `MetricsCleaner` | marks, scrapes, straggling probes; implements `DeferredDeletion` | `DeferredDeletion` |
| `Shutdown` | main from SIGTERM on, with all it waits for | |
| `MCShardingScan`, `MCEventLoop`, `MCDiscovery`, `MCReplicas`, `MCPipeline`, `MCMetricsCleaner`, `MCShutdown` | instances for TLC | |
| `ShardingScanProofs`, `RegistryProofs`, `EventLoopProofs`, `DiscoveryProofs`, `ReplicasProofs`, `PipelineProofs`, `MetricsCleanerProofs`, `ShutdownProofs` | theorems | |

How state and actions correspond to the code:

* **ShardingScan.** `i`, `v`, `highestHash`, `selectedPod` are the variables of
  the loop; `Examine` is one iteration of the inner loop, `Return` the comparison
  after it; the early return is part of `Init`, which is the call. The hash is a
  constant function, `vnodesPerPeer` a constant, the peer list a sequence with
  repetitions in any order. What a call returns is compared with the declarative
  test of `Sharding`; if two pods tie for the highest hash, `TiesGoToFirst` says
  which one the loop takes: the first of them in the list.
* **Registry.** An action per operation is its critical section; it leaves the
  collected events in `pending[h]` of the goroutine `h` that runs it, and
  `emitEvent` then sends or gives up one of them per step. A goroutine starts
  no other call before it sent the events of its last one. Removals of a
  slice update are sent before its adds; the order of `UpdatePeers` is that of
  a Go map, hence arbitrary. An `UpdatePeers` never carries an empty list
  (informer.go:163).
* **DeferredDeletion.** `scheduled` and `marked`, and the only ways to change
  them: an add schedules and unmarks, a removal of a scheduled target marks, a
  scrape takes all marks. `EventLoop` handles an event and serves a scrape in one
  step, so its marks are these. `MetricsCleaner` has halves of events and scrapes
  that overlap; there a target is scheduled from the moment the loop has an event
  for it in hand (`InHand`), and marked if its count of marks is positive.
* **EventLoop.** Its operators carry `Loop` in their names (`LoopNext`,
  `LoopSpec`, ...), for `Discovery` extends it. `HandleEvent` receives one event and starts, stops or ignores.
  `activeSchedulers[a]` is the Target the scheduler was started with. The history
  variables `raced` and `missed` record, for each address, whether its latest
  event was collected while another goroutine still owed one for the same
  address, and whether its latest event was never sent; no action reads them.
* **Discovery.** `slices`, `services`, `statics` are the API server's objects,
  the `seen...` variables what the handlers have been told of them. A delivery
  runs the handler with the last object seen and the current one (states between
  them may be skipped, as after a lost watch), a resync with the same object
  twice. The handler's alternatives are the branches of AddFunc, UpdateFunc and
  DeleteFunc; a tombstone carries the last object seen. A handler calls the
  registry's operations as `EventLoop` has them; `PeersOrSigterm`
  makes the other calls, `Deliver` has the sends, the loop and the scrapes. The address of an
  endpoint depends on the Service's annotations as cached at that moment. The
  history variable `amended` has the addresses whose object was replaced or
  that two objects name.
* **Replicas.** `owed` are calls of `updatePeers` to be made, `samples` calls that
  have read the store and not taken the registry's mutex, one per goroutine.
  `Observe` is the informer's store taking a newer list and notifying. `Start`
  and `Crash` begin and end a process with everything it kept in memory. The
  history variable `overtaken` has the replicas where WatchPeers' own call
  (informer.go:180) stored an older list last.
* **Probers.** What a target does is one of a few answers (`Answers`, by scheme
  and target): it answers, hangs, refuses or resets the connection, its name does
  not resolve, its certificate is bad in one of three ways, it refuses the TLS
  handshake with an alert or speaks no TLS, it returns a bad status, or its
  address does not parse. The error a call then returns is the set of types in
  its chain. That table (`GoError`, `GrpcCode`) is
  the standard library's and grpc-go's and thus external; `MapToCategory` and
  the probers are the code's. `Fitting` reads the hints (prober.go:32) as a
  specification, and makes no allowance for the code; `Misclassified` lists the
  answers the code gets wrong by it.
* **Pipeline.** A target's scheduler is `due` between a tick and its enqueue, and
  `dropping` between the select's default and the counter (worker.go:81-83), where
  SIGTERM may come. A worker goes through the stages of `ProbeTarget`, one update
  of a metric at a time: `received` (nothing counted), `saturated` (the gauge is
  up), `acquire` (traffic is counted, it waits for a token), `execute` (on the
  network), `record` (the dispatcher returned), `observed` (latency is counted, its
  error is not), `counted` (only the deferred decrement is left). Between any two
  of these the other goroutines run. `ticks` counts the attempts that became due
  and never goes down; what is left of them is counted from the other variables
  (`Lost`). `Configurations` in the MC module has the environments at their edges:
  a negative queue size and an interval of zero end in a panic, zero workers in an
  empty pool. Time is abstract: a timer may fire if the target hangs, if the probe
  waited for a token, or if the timeout is not positive. A probe that did not
  wait is taken to have its timeout before it.
* **Attempts.** An attempt is open from the tick that makes it due (`Due`) until it
  is refused for want of room (`Refuse`), abandoned at SIGTERM (`Abandon`), or
  begins in a free slot (`Begin`). What was refused is counted by `Drop`, after
  SIGTERM perhaps; a probe that is over is counted by `End`, and one with an error
  keeps its slot until `Fail` has counted that too. In `Pipeline` the open
  attempts of a target are the one its scheduler has in hand, those in the queue
  and those a worker has received and not counted as traffic (`OpenAttempts`); a
  slot is a worker and shows the target of its probe (`Probing`), and the counters
  are the metrics. The send into the queue, the receive, the wait for a token, the
  probe itself and the saturation gauge are stuttering steps.
* **MetricsCleaner.** The loop's two handlers are two steps each (abort, then
  start; stop, then mark); a scrape is `Serve`, `Collect`, one `Delete` per
  target, `Finish`; a probe is `ProbeStart` and `ProbeEnd`, each of which touches
  the series, and so does a drop (`DropInc`), which its scheduler may count after
  it was cancelled. Which events arrive is arbitrary here: `EventLoop` restricts them.
  The history variable `late` has the targets updated when nothing was left to
  delete their series.
* **Shutdown.** `main` is the program counter of `main()`. What the registry
  emits is arbitrary; schedulers are `running` (with an entry) or counted in
  `leaving` (cancelled, not returned); the history variables `early` and
  `earlyLeaving` single out those started before `schedulerWG.Wait` returned. A
  send on a closed channel sets `panicked`. A goroutine of an informer may begin one more operation after
  SIGTERM (a notification already delivered); only members of `informerGroup`
  have returned when `Events` is closed.

A definition named `X_Something` beside `X` is a plausible bug in the code of `X`,
kept to show that the properties notice it.

## Runs

| run | asks | states |
|---|---|---|
| `ShardingScan` | three replicas with peer lists in several orders, with repetitions, stale or empty, identities set or not, and an address for which two pods tie: the declarative ownership, who wins a tie, one owner, minimal churn | 375 k |
| `EventLoop` | one address, two slices, a StaticTarget, two peer goroutines, capacity 1: schedulers and claims, the refinement of `DeferredDeletion`, with liveness | 113 k |
| `Discovery` | one replica with two slices of one Service that may list one endpoint under two addresses, two StaticTargets that may name either, three changes and one rebalancing or SIGTERM: phantoms, protection, schedulers that follow the objects, convergence | 585 k |
| `Replicas` | two replicas, two faults: peers are current when quiet, replicas that caught up probe nothing twice and forget nothing, rebalancing settles | 1.0 M |
| `Pipeline` | two targets, two workers, nine configurations, every protocol: tokens, signals, verdicts and the answers that get a wrong one, the refinement of `Attempts`, a queue that moves | 519 k |
| `MetricsCleaner` | two targets, two overlapping scrapes, straggling probes and drops: no series forgotten, the refinement of `DeferredDeletion`, with liveness | 722 k |
| `Shutdown` | one target, a handler and `WatchPeers`, two workers, capacities 1: what may panic, what may still start, who is gone when `jobs` is closed, that it ends | 46 k |

Five more runs each show one statement of the repository that the code does not
keep; `findings` in `PROJECT.json` quotes the line and tells the story:

| run | what TLC finds |
|---|---|
| `EventLoopReordered` | a removal and an add enter `Events` in the wrong order; a scheduler is leaked |
| `EventLoopDroppedAdd` | a dropped add leaves an active target without a scheduler |
| `EventLoopStaticOverride` | a StaticTarget's attributes do not reach the running scheduler |
| `MetricsCleanerAbortRace` | a scrape deletes the series of a target that was restarted meanwhile |
| `ShutdownSchedulers` | a scheduler started from the backlog outlives the wait for schedulers, and `jobs` is closed under it |

`SchedulersFollowRegistry` is the other side of the first two: it holds of every
address whose latest event neither raced nor was a dropped add, so these are
the *only* ways in which the schedulers disagree with the registry. In the same
way `QuietIsCurrent` names the only way in which a replica with nothing left to do
may hold old peers, `StaticFollowsObjects` the only ways in which a static
entry may differ from its object, `Misclassified` the answers whose category does
not fit, and `OnlyStragglersPanic` the only goroutines that may send on a closed
channel: an informer's handler that main does not wait for (main.go:217), and
schedulers the loop started from its backlog after `schedulerWG.Wait` had
returned; every scheduler started before that has returned when `jobs` is closed.
`SchedulersFollowObjects` joins two of these: in a replica, an address that neither
raced nor was amended has a scheduler only if an object stands for it and this
replica owns it, and a StaticTarget's address of this replica does have one unless
its add was dropped. It does not say that a dynamic address has a scheduler: it
may lack one until a resync, after another slice gave it up (registry.go:174); that
the registry gets it back is the matter of `DiscoveryConverges`.

### Where code and documents differ without a run of their own

* *In-flight probes at SIGTERM.* ADR 0007:30 promises "Zero In-Flight Probe
  Loss"; the probe's context derives from the one SIGTERM cancels (worker.go:24),
  so a probe under way is cut short and counted as an error. `Pipeline` has the
  step, and its verdict properties speak of the time before SIGTERM.
* *Error categories against their hints.* Five answers get a category whose hint
  sends the operator to the wrong place; `Probers.Misclassified` has exactly these,
  and `VerdictFits` fails if the code gets another answer wrong, or one of these
  right. (1) An expired certificate is `unknown_error`, not the `tls_error` whose hint
  (prober.go:37) names certificate validity: prober.go:92 looks for
  `*x509.CertificateInvalidError`, and crypto/x509 returns the value. (2) A target of
  scheme `https` that speaks HTTP is `unknown_error`: net/http replaces the
  `RecordHeaderError` that MapToCategory knows (prober.go:101) by an error of its own. (3) A TLS
  alert, an `OpError`, is `connection_refused`, whose hint (prober.go:47) asks whether the
  service is listening; it is. (4) So is a connection that was accepted and reset, where
  `unknown_error` (prober.go:55) would send the operator to the socket errors.
  (5) A host name that grpc-go cannot resolve is `Unavailable` and thus
  `connection_refused` (grpc.go:61), not the `dns_error` of prober.go:35.
* *The final scrape.* metrics_cleaner.go:10 says the cleaner is there "to ensure
  Prometheus collects final metric states before removal", line 26 "after 1 final
  scrape cycle". A target marked while a scrape is between serving (line 47) and
  collecting (line 51) is deleted by that very scrape, which did not serve its final
  state. `MetricsCleaner` has the interleaving (`Serve`, `MarkForDeletion`, `Collect`).
* *Informers at shutdown.* main.go:213 says "Wait for informers to fully stop, then
  close registry". informerGroup has the functions that start the informers and
  wait for SIGTERM, not client-go's goroutines that run the handlers: one of these
  may still send, and the process then panics (`OnlyStragglersPanic`).
* *Jobs at shutdown.* main.go:222 says "Drain and close worker jobs"; a worker's
  select may choose the cancelled context with jobs queued (worker.go:52), and what
  is queued is lost.
* *Updates of a StaticTarget.* ADR 0023:38 says they are processed instantly; `Add`
  ignores an address that is already static (registry.go:248), and an update that
  changes the address leaves the old one behind (statictargets.go:50). Hence the
  exception `amended` in `StaticFollowsObjects`, and `Converged` asks of static
  entries only that objects have one, not that each has an object.
* *Duplicate probes.* ADR 0011:29 has targets redistributed "without duplicate
  probes"; a replica that starts knows no peer and owns everything (sharding.go:62)
  until its cache is synced, and two replicas with different peers may both own a
  target. What holds is `NoDoubleProbing`, of replicas that have caught up, and
  `RebalancingSettles`.
* *Categories of gRPC errors.* The prober maps `PermissionDenied` to `grpc_error`
  (grpc.go:69) where MapToCategory's own gRPC branch (prober.go:81) says
  `authentication_error`; no error of a health check reaches that branch.
* *No ready peer.* An empty list is ignored (informer.go:163): a replica that
  runs while no prober is ready keeps its last share.

### Bounds

* Pods, addresses, slices, goroutines and workers are small sets. Two
  goroutines are needed for a race, two scrapes for an overlap, two slices for a
  shared address. Calls that emit several events through a full channel are
  reached with the two addresses of `Discovery`. The theorems do not depend on
  these sizes.
* `EventsCap` (1000 in the code) is 1, so that the channel is often full.
* `vnodesPerPeer` (100) is 1 or 2; with 2 the maximum over a peer's nodes and
  the maximum over peers differ. The instance of the hash makes a target move
  between pods, makes 0 the highest hash of a list, the case for which the
  loop tests its first iteration, and has two pods tie for one address.
* `MaxChanges` (3) of the API server's objects: one to create each of two objects
  that share an address, one to change either. `MaxOthers` (1): a list of
  peers that moves a target, or SIGTERM, in between. `MaxFaults` (2) in `Replicas`: a
  crash during the recovery from another.
* `MaxTicks` (2) attempts per target and a queue of 1: both targets' first attempts
  fill queue and workers, the second ones are dropped or wait. The nine
  configurations (two workers by default, then with one token, with a queue of 0;
  one worker, then without a semaphore, without a timeout; no worker, a negative
  queue size, an interval of 0) run with one fleet: a target that may hang and
  takes its scheme from its address, and one whose address does not parse. The
  protocols run with one worker and one token: eleven fleets pair a target of an
  unknown scheme with one of each scheme, with and without certificate checks,
  and with an address that does not parse.
* `MaxJobs`, `MaxProbes` (queued jobs and running probes of one target) and
  `MaxLeaving` (cancelled schedulers that have not returned) are 1 and 2: one
  straggler is enough to touch a series late or to send on a closed channel. A
  target has at most one drop found and not counted at a time.
* After SIGTERM a goroutine begins at most one more operation.

### Fairness

* `EventLoop.LoopFairSpec`: the loop keeps receiving (weak). A goroutine blocked on
  a channel send is in the runtime's first-come-first-served queue of that channel, hence
  strong fairness of each sender: it sends if there is room again and again.
* `Discovery.FairSpec`: each watch delivers, each resync comes round, each
  goroutine sends what it owes, the loop receives, a Service is cached. All
  weak: a notification or a resync that is never given up is handled in the end,
  and convergence of the registry's entries does not need the senders' strong
  fairness of `EventLoop`.
* `Replicas.FairSpec`: in every live replica the store follows the API server,
  the resync comes round and both goroutines run (weak). No pod has to start,
  to crash or to become ready.
* `Pipeline.FairSpec`: each worker ends its probe, at the latest by its timeout,
  and takes a job when there is one (weak). No scheduler is assumed to tick.
* `MetricsCleaner.FairSpec`: the loop finishes the event it handles, a handler
  runs to its end, and Prometheus keeps scraping (an assumption on the
  environment, without which nothing would ever be deleted).
* `Shutdown.FairSpec`: main, the loop, a sender, a cancelled scheduler and a
  worker take their steps; a probe has a timeout. SIGTERM is not assumed.

## Proofs

All theorems hold for every value of the constants that the modules' named
assumptions admit: any hash, any number of virtual nodes, pods, addresses, objects,
goroutines, workers and faults, any deployment and any capacity; `Replicas` needs
the pods to be finitely many. They assume the next-state relation only, no fairness.

* **ShardingScanProofs.** The loop invariant says that `selectedPod` and
  `highestHash` are those of the best pair examined so far, and that no pair
  before it is as good (`SelectedAt`). From it `SelectedIsHighest` and
  `SelectedIsFirst`, hence `FirstOfTieIsSelected`. Without ties the selected pod is
  the only one with the highest hash (`HighestHashUnique`), with ties replicas that
  scan the same list select the same pod (`SameListSameSelection`): together
  `OneOwner`. `ScanCorrect` and, with monotonicity of the maximum
  (`HighestHashMonotone`), `ChurnIsMinimal` follow.
* **RegistryProofs.** `RegistryTypeCorrect`; `ClaimsAreOwned` and `NoOrphans`,
  each inductive together with the types once the effect of every operation on
  the set of known addresses is stated (`KnownAfter...`); `StaticIsProtected`,
  an action property.
* **EventLoopProofs.** `SchedulersFollowRegistry` is not inductive: it speaks
  only of settled addresses. `LoopInv` adds what is true on the way: a goroutine
  owes at most one event per address, two goroutines that owe one for the same
  address have raced, an owed event that did not race says what the registry
  says (`PendingAgrees`), and so does the last event about an address in the
  channel once all were sent (`QueueAgrees`). The five operations are treated
  alike through what they have in common (`Collects`). `ImplementsRegistry`
  shows that the composition implements the registry's specification, so
  `RunningTargetsAreOwned` follows from `SchedulersAgree` and `ClaimsAreOwned`.
  `LoopImplementsDeferredDeletion` maps the running schedulers to `scheduled`: an
  event is an add, a removal or a stutter (`HandleMaps`), and that no running
  target is marked (`RunningIsNotMarked`) is proved of the abstract
  specification, where it is two lines, and carried back.
* **DiscoveryProofs.** A replica is proved about through two layers.
  The lemma `ReplicaImplementsLoop`: with the types of the objects (`ObjectsTypeOK`) each
  notification calls one operation of the registry with arguments it admits, or
  none (`SliceOperation`, `StaticOperation`), so the replica's steps are steps of
  `EventLoop`. All theorems of the event loop and, by `DiscoveryUsesRegistry`, of
  the registry hold here too: `SchedulersFollowRegistry`, `NoOrphans`,
  `StaticIsProtected`. `NoPhantomTargets` follows from `NoOrphans` and from what a
  slice's targets are since its last notification (`SliceTargetsAreSeen`);
  `StaticEntriesFollowObjects` needs that an address two objects name is in
  `amended` (`SharedIsAmended`). `ProbesFollowObjects` joins the chain: scheduler
  and registry, registry and objects, without another induction.
  `ResyncsRepair` and `RepairedIsConverged` are `DiscoveryConverges` without its
  fairness: once the objects rest and the informers have seen them, the resync of
  a slice makes what the registry keeps for it current (`Current`); when
  all slices are, the next one enters its addresses (`Entered`), as a resync of a
  StaticTarget does at once (`StaticEntered`); no step undoes any of these, and together they
  are `Converged`. A slice whose route changed under it may still remove an
  address that another slice lists, so the second round is needed.
* **ReplicasProofs.** `QuietIsCurrent` says nothing of a replica at work; `Inv`
  does: while the peers differ from the store a call is owed or under way, or the
  replica was overtaken (`Compensated`), and an informer's goroutine that
  holds an old list has its next call owed (`HandlerCatchesUp`). By them a replica
  that has caught up claims exactly what it has the highest hash for among the
  ready pods (`CaughtUpShare`). Uniqueness of the highest hash gives
  `NobodyProbesTwice`, its existence `NobodyIsForgotten`, both together
  `RestIsShared`: a cluster at rest has one owner per target. That finitely many
  hashes have a greatest (`GreatestExists`) would be an induction; it is
  taken instead from the well-foundedness of the strict subset ordering, applied to
  the sets of those that are better.
* **PipelineProofs.** One inductive invariant, `Inv`: the types, a worker with a job
  belongs to the pool and holds what its stage allows (`Placed`), `TokensHeld`,
  `SignalsAgree`, a verdict fits and a timeout was earned by hanging, waiting or
  having no time (`Verdicts`), and with as many tokens as workers nobody waits
  (`NeverWaits`, by counting: `EnoughTokens`). Jobs and workers are counted with the
  cardinality theorems (`QueuedAppend`, `QueuedTail`, `CountMoves`); a single
  update of a metric moves one worker from one of the counted sets to the next
  (`SignalsMove`), so that both sides of an equation change together.
  `VerdictsFit` rests on a case analysis of every protocol and every answer
  (`ErrorJudged`, `AnswerJudged`), which shows both directions: what is not in
  `Misclassified` fits, what is in it does not.
  `AttemptsAreSettled` is the refinement of `Attempts`, from the same invariant: the
  initial states map (`AttemptInit`), and each step is one of `Attempts` or a
  stutter (`EnqueueMaps`, `DropMaps`, `TakeJobMaps`, `TrafficIncMaps`,
  `LatencyObserveMaps`, `ErrorIncMaps`, `SchedulerMaps`, `SilentStutters`), by what
  it does to the number of open attempts (`OpenMoves`) and to one worker's slot
  (`SlotMoves`). `PoolIsNeverStuck` is the part of `QueueMoves` that needs no
  fairness: a worker waits for a token only while another one's probe is on the
  network, since the tokens taken are as many as those probes.
* **MetricsCleanerProofs.** The invariant adds where the event loop is between its
  halves (`LoopInOrder`) and that a scrape that has not collected holds nothing
  (`CollectsAfresh`). `ImplementsDeferredDeletion` places each abstract step: an
  add happens when the loop has aborted the deletion (`AddMaps`), a removal when it
  marks (`RemovalMaps`), a scrape when it collects (`ScrapeMaps`), and every
  other step, an overlapping scrape's included, is a stutter.
* **ShutdownProofs.** What main has waited for when it closes a channel
  (`LoopDoneIsFinal`, `JobsClosedAfterLoop`) makes `NothingStartsLate` a property
  of each step. For `WaitedForNeverPanic` the members of `informerGroup` owe nothing
  once `Events` is closed (`EventsClosedAfterGroup`), main does nothing before
  SIGTERM (`MainAfterSigterm`), and no scheduler started before `schedulerWG.Wait`
  returned is left after it (`EarlySchedulersGone`): `early` and `earlyLeaving` only
  grow while main has not passed that wait, which it passes before it closes
  anything (`EventsClosedAfterSchedulers`).

Only model-checked, as liveness under fairness is beyond the prover:
`RemovalStopsScheduler`, `DiscoveryConverges`, `RebalancingSettles`, `QueueMoves`,
`MarkedIsDeleted`, `SigtermEnds`; and the absence of deadlocks, in the runs that
check for them. Every safety property of the passing runs, the action properties
and refinements included, is also a theorem. What two of the liveness properties
need besides fairness is proved (`ResyncsRepair`, `PoolIsNeverStuck`), and of a third the
state it leads to (`RestIsShared`). `DynamicIsListed`, from which `NoPhantoms`
follows, is proved (`NoOrphans`) and has no run of its own.

## Plan

1. *Done:* every component that keeps state, each with an MC module and with the
   proofs of its safety properties.
2. *Done:* one replica from the API server's objects to its schedulers
   (`Discovery`), and the marks for deletion as one specification that
   `EventLoop` and `MetricsCleaner` implement.
3. *Done:* the attempts to probe a target as an abstract specification
   (`Attempts`) that `Pipeline` implements, checked and proved.
4. *Done:* the safety halves of `DiscoveryConverges` and `QueueMoves`.
5. *Open:* a measure that every fair step of `Shutdown` decreases after SIGTERM,
   the safety half of `SigtermEnds`. That each single wait of main is for
   somebody whose guard is open says little: after SIGTERM most guards are
   open. What matters is that their steps come to an end, which TLC checks.
6. *Open:* the series of the metrics by error category, which `MetricsCleaner` has
   as one set per target.

## Not modelled

* The network, the standard library's and grpc-go's errors (a table in `Probers`),
  addresses as strings (parsing, default ports, prefixes), the FNV-1a encoding
  (the hash is an arbitrary function).
* pprof and the constant health endpoints (no state), the construction of the
  Kubernetes clients (pure I/O), logging, the Helm chart, manifests, dashboards
  and scripts.
* `sync.WaitGroup`'s own misuse panic (`Add` concurrent with `Wait` at zero,
  main.go:174), which is listed as a hazard: `Wait` is modelled by what it waits for.
* MapToCategory's branch for gRPC statuses: `Check`'s errors are classified in
  grpc.go, and `grpc.NewClient` returns none with a status for an address that a
  target can have.
