# A formal model of autoscaler-keda

autoscaler-keda is a Knative autoscaler. For every PodAutoscaler (PA) of the class
`hpa.autoscaling.knative.dev` it keeps a KEDA ScaledObject (SO) and a Knative ServerlessService (SKS)
as the PA asks for, and reports on the PA what KEDA's HorizontalPodAutoscaler (HPA) does. This
directory holds TLA+ models of the controller, TLC configurations that check them on small instances,
and TLAPS proofs of the results that matter most for every instance. All paths below are relative to
`src/`.

## 1. The system

### Parts, their state and their operations

| part | source | state it keeps | operations |
|---|---|---|---|
| PA reconciler | `pkg/reconciler/autoscaling/hpa/keda_hpa.go` | none of its own; three listers (caches of SO, HPA, SKS) | `ReconcileKind` |
| ScaledObject construction | `pkg/reconciler/autoscaling/hpa/resources/keda.go`, `helpers/helpers.go` | none | `DesiredScaledObject` and what it calls; `MakeHPA` |
| generated PA reconciler | `vendor/knative.dev/serving/pkg/client/injection/.../podautoscaler/{reconciler,controller,state}.go`, `vendor/knative.dev/pkg/reconciler/{reconcile_common,retry}.go` | the PA lister | `Reconcile`, `updateStatus`, pre- and post-processing, conflict retries, the promotion |
| SKS reconciliation | `vendor/knative.dev/serving/pkg/reconciler/autoscaling/reconciler.go` | the SKS lister | `ReconcileSKS` (`ReconcileMetric` is never called here) |
| conditions of a PA | `vendor/knative.dev/pkg/apis/condition_set.go`, `vendor/knative.dev/serving/pkg/apis/autoscaling/v1alpha1/pa_lifecycle.go` | Ready, Active, ScaleTargetInitialized, SKSReady | `Mark*`, `InitializeConditions` |
| work queue | `vendor/knative.dev/pkg/controller/two_lane_queue.go`, `vendor/k8s.io/client-go/util/workqueue/queue.go` | three queues, two goroutines that empty a lane, one consumer | `Add`, `AddSlow`, `Get`, `Done`, `ShutDown` |
| controller runtime | `pkg/reconciler/autoscaling/hpa/controller.go`, `vendor/knative.dev/pkg/controller/controller.go` | informers, workers, the stages of a process | event handlers and filters, `processNextWorkItem`, `handleErr`, `FilteredGlobalResync`, start and shutdown |
| configuration | `pkg/reconciler/autoscaling/hpa/config/`, `vendor/knative.dev/pkg/configmap/store.go` | two parsed ConfigMaps | parsing, `OnConfigChanged`, `Load`, the resync that a change triggers |
| leader election | `vendor/knative.dev/pkg/reconciler/leader.go`, `vendor/knative.dev/pkg/leaderelection/context.go` | the bucket led, the lease | `Promote`, `Demote` and the callbacks that call them |
| entry point | `cmd/autoscaler-keda/main.go` | none | one call, which builds and runs the above |
| clients and informers | `pkg/client/injection/` | the registries of injectors, the context | `init`, `SetupInformers`, `Get`; plain, filtered, fake |
| environment | the API server, KEDA, the HPA and SKS controllers, revisions, users | the objects themselves | what the reconciler sees of them |

The reconciler and its environment meet at the API server only. The reconciler reads its caches, which lag behind and not all by the
same amount, and writes with optimistic concurrency: an update carries the resource version it was
computed from and is refused if the object has moved on. PA, SKS and HPA events enqueue the PA's key.
SOs have no event handler, and an HPA finds its PA only through the name of the SO that generated
it and the class annotation the HPA inherits. An error re-adds the key after a delay. Everything else is
left to the informers' resync (every 10 hours) and to a global resync on configuration changes.

### One run of the reconciler

1. Take the key, read the PA from the cache, initialise its conditions; if the generation has not been
   observed yet, reset Ready to Unknown.
2. Unless users create the SO themselves: build the wanted SO. Create it if the cache has none; stop with
   NotOwned if it belongs to somebody else; update it if its spec differs.
3. Read the HPA KEDA makes. None, or one below the minimum of the SO read: nothing more to do,
   an HPA event will come.
4. `ReconcileSKS`: create, refuse, or switch the SKS to Serve.
5. Publish the service name, mark SKSReady, ScaleTargetInitialized (once the SKS is ready and enough
   replicas run) and Active, and copy the HPA's desired and current replicas.
6. Set the observed generation, also on errors. If the status differs from the cached one, write it; on a
   conflict fetch the PA and put *the same* status on what comes back, up to five attempts.

### What is hard, and what must hold

* **Caches of different ages.** A run mixes a PA, an SO, an HPA and an SKS that never existed
  together; its own writes are not in its caches yet. What is published must still have a cause:
  `ReadyIsServed`, `InitializedIsEarned`, `NotOwnedIsTrue`.
* **Check, then act.** Ownership is checked on a cached version and the object is changed later;
  somebody may have replaced it in between: `ForeignSOUntouched`, `ForeignSKSUntouched`.
* **Conflicting status updates.** An old status is pushed onto a new PA: `ObservedMonotone`, and
  `InitializedIsSticky`, which fails.
* **Calls that fail, before or after taking effect, and crashes** between any two steps.
* **Missing events.** Whatever got lost, the resources and the status must arrive where the
  PA wants them: `Converges`, `ForeignIsReported`. And when nothing is on its way any more, the work must
  be done: `RestIsDone`, which needs no fairness. The reconciler is woken by its own writes and must not
  write for ever: `EveryWriteChanges`.
* **Keys on their way.** A key passes two queues and three goroutines, may be in both lanes at once, and
  is added again while it is moved or processed: it must run again, never twice at once
  (`ImplementsKeyedWork`), wait for ever in neither lane (`FastIsServed`, `SlowIsServed`), and a shutdown
  must neither hang nor forget it (`ShutDownEnds`, `NothingLeftBehind`). If it did run twice at once, what the
  newer run did would be undone by the older: `NeverBackToOlder`.
* **What a run has read.** Configuration, leadership and PA are read one after the other while each of
  them changes; a change half-way through must lead to another run: `NoLostWakeup`, `CatchesUp`,
  `NoRunUnconfigured`.
* **Two leaders.** A run survives its replica's demotion, and a promotion may come after it; the PA may
  be another one of the same name by then: `OneLateWrite`, `OnlyForItsOwner`, `Converges` of `Replicas`.
* **Initialization order.** Go initializes packages in any order that imports allow; what an injector
  takes must be there, and be its own; a program that links or gives too little must stop at once:
  `PanicsIfIncomplete`, `GetsItsOwn`, `EachIsStarted`.
* **Order of marks.** Ready must agree with its dependents in whatever order they are marked:
  `ReadyMeansAllTrue`, `FailureIsVisible`, `UnknownHasCause`.
* **Annotations.** Some twenty of them combine with each other and with the configuration: see
  the `ScaledObject` properties below. The object must scale as the HPA class would: `ScalesAsHPA`.

`PROJECT.json` lists each of these hazards with its line and the properties that watch it.

## 2. The modules

| module | what it is |
|---|---|
| `Conditions` | the algebra of `condition_set.go` over any set of dependents |
| `ConditionManager` | its state machine: an object stored by any earlier release, initialised and marked in any order |
| `KedaReconciler` | one PA, the reconciler with its caches and its key in the queue, and the environment |
| `ScaledObject` | `DesiredScaledObject` over all the annotations it reads, computed before and after an edit; `MakeHPA` to compare with |
| `KeyedWork` | the abstract queue: a set of due keys, and the key each worker has |
| `WorkQueue` | the two-lane queue, its goroutines and the workers; implements `KeyedWork` |
| `Configuration` | what the two ConfigMaps parse to |
| `Controller` | one process from its start to its end: configuration, informers, leadership, the first half of `Reconcile` |
| `Replicas` | several replicas, the lease, and a PA that is deleted and created again |
| `Injection` | clients, factories and informers as they get into the context |
| `*Proofs` | the theorems about a module |
| `MC*` | the values of the constants for TLC |

How they fit together: `KedaReconciler` uses `Conditions` (`INSTANCE`, with the PA's three dependents);
`ScaledObject` and `Controller` extend `Configuration`, one for the addresses a trigger may have, the other
for what the store holds. `WorkQueue` implements `KeyedWork` by a refinement mapping, and so does `Controller`, the one from below
(what the queue does with keys), the other from above (how handlers, lists, retries and runs use them).
`KedaReconciler` and `Replicas` take their queue to be one such: in `KedaReconciler` the set is `dirty`, one
key's share of it, and in `Replicas` a key that comes up again and again.
`Controller` models what leads up to `ReconcileKind` and `KedaReconciler` what it does; `Replicas` keeps
only the ScaledObject of what it does, and lets several processes do it at once.

### KedaReconciler

*Objects as logs.* `paLog`, `soLog`, `hpaLog` and `sksLog` hold all versions of each object: the last is
what the API server has, the index is the resource version, `NoObject` is a deletion. `seen[k]` is the
version a cache holds and only moves forward one version at a time (`Deliver`), each kind at its own
pace; a restart lists everything anew. `held[k]` is the version the worker read. So an optimistic update
is accepted exactly when `held[k] = Len(log)`, and staleness needs no machinery of its own.

*The worker.* `pc` names the next call of `ReconcileKind`. A step reads one cache or makes one call, and
everything in between is part of it; other parties act between the steps. `status` is the
`resource := original.DeepCopy()` the code marks.

| action | code |
|---|---|
| `Take` | `processNextWorkItem`, `Reconcile`, `PreProcessReconcile`, the choice whether to create, `DesiredScaledObject` |
| `ReadSO`, `CreateSO`, `UpdateSO` | `keda_hpa.go` 90-117 |
| `ReadHPA` | `keda_hpa.go` 119-129 |
| `ReadSKS`, `CreateSKS`, `UpdateSKS` | `ReconcileSKS` and what follows it up to the end of `ReconcileKind` |
| `WriteStatus`, `Refetch` | the status comparison, `updateStatus`, `RetryUpdateConflicts`, `handleErr` |
| `CallFails` | any of these calls failing by itself, with or without having taken effect |
| `Deliver`, `RetryFires`, `Resync`, `Restart` | informers with the handlers of `NewController`, the delayed re-add, resyncs, a new process |
| `ChangePA`, `UserSO`, `SKSBreaks` | revisions and users |
| `Keda`, `HPASettles`, `HPAMoves`, `SKSProgresses` | the other controllers and load |

*Data.* A PA's spec is what the control depends on: reachability, minimum, initial scale, who creates the
SO, whether the metric is cpu (a floor of 1) and whether the annotations yield an SO at all. Of the SO
only the minimum is kept, of the SKS its mode and how far it is (new, named, ready). A new generation
comes from reachability; annotations change without one. The HPA's desired and current replicas move
freely, within the minimum.

*Some facts of the code the model keeps on purpose.* The object an SO update returns is dropped, so the
minimum compared with the HPA is the old one, while a create's result is used. After an SKS create the
status of the object built locally is looked at, after an update that of the object returned. The
observed generation is bumped on errors as well. The update of an SO takes over the spec only, so the
class annotation of an SO somebody changed is never repaired. A PA whose annotations stop yielding an SO
keeps the conditions it had.

*Bounds.* `MaxReplicas` 2 where the status is the subject: there is a count below, at and above a
threshold, and two minima differ; 1 elsewhere.
`MaxAttempts` 2 where conflicts matter: the first attempt writes on the cached version, the second on a
fetched one, and any further one repeats the second (the code has five). `MaxLag` 1: the other controllers
take a step only if the cache has seen the one before; users and load are not held back. `MaxEvents`:
disturbances per behaviour, 1 or 2; everything the reconciler and the other controllers do in response is
unbounded. The proofs have none of these bounds.

*Fairness* (`FairSpec`). Weak fairness of the worker (its goroutine keeps running), of each `Deliver`
(a watch keeps delivering, informers relist when it breaks), of `RetryFires` (timers fire), of `Resync`
(informers resync periodically), and of the other controllers' steps towards their goals.
Nothing is assumed of users, load, failing calls or restarts, which are bounded by `MaxEvents`. `Resync`
is needed: without it `Converges` fails once a user deletes the SO, because the deletion of its HPA may
be handled while the SO cache still shows the SO, and SOs have no handler. In the system that means a
wait of up to ten hours.

### Conditions and ConditionManager

`Conditions` translates `condition_set.go`: the marks, the recomputation of Ready, and how
`InitializeConditions` treats conditions an older release did not know. `ConditionManager` starts from
what a release that knew any subset of the dependents may have stored, and marks in any order.
`Dependents` is a parameter; the run uses the PA's three and one that a later release might add.

### ScaledObject

The operators follow `DesiredScaledObject` branch by branch: the override, bounds, target and metric
type, the default trigger with its address and its authentication, extra triggers, the Behavior of the HPA in
the three steps in which the code changes it (the window, the rules of either direction),
`setScaledObjectDefaults`. An annotation is what it parses to; targets are counted in tenths because
annotations hold fractions and the code rounds them (up for CPU, down elsewhere). What users write in JSON, a whole
object or a list of triggers, is unmarshalled without a look at it, so a PA has with it any object (`user`)
and any triggers (`extraTriggers`) of the type, legal or not, and the properties speak only of what the code
itself puts in. The state machine computes, edits and computes again, so results can be compared.

`MakeHPA` (`helpers/helpers.go`) is the HPA that Knative's own HPA class makes of a PA; the repository's
tests hold it against the reconciler. `KedaHPA` is the HPA that KEDA makes of a ScaledObject, external: one
metric for each trigger, but a composite one in place of all that are no resource if there are scaling modifiers.
`ScalesAsHPA` says that the two scale alike for a PA with a target, unless its annotations ask for something that the
HPA class does not know (`AsksAsHPA`). `NeverScalesUp` is what KEDA's webhook refuses (`verifyCPUMemoryScalers`).

*Bounds.* Four families of inputs, each exhaustive in the annotations that one part of the function reads:
bounds (with four lists of extra triggers: none, a resource, an illegal one, two), overrides (with and without
`spec.advanced`, a minimum, triggers of their own), triggers, and behaviour. In one edit traffic leaves or
comes back or, in the families of behaviour and overrides, the window or the rules of a direction change. `Ordered`
restricts bounds to those admission and the parser of `config-autoscaler` accept. String formats (the YAML of the
triggers, the query template, quantities) and the names of triggers are left out; KEDA refuses two triggers of
one name.

### WorkQueue and KeyedWork

One `Typed` queue (`queue`, `dirty`, `processing`, `shuttingDown`) per lane and a third for the workers;
its critical sections are the operators `Add`, `Get` and `Done`, one action each. `mover[l]` is the
goroutine `process` of a lane, which is done with a key *before* it offers it on its channel, so the same
key may be in the lane again. `consumer` is `runConsumer`: a first `select` on the fast channel alone, a
second one on both, and the set of channels still open. A receive and the add that follows it are one
action: the receive is all that the lane's goroutine sees of it, the add all that the workers see. `ShutDown` closes the fast lane before the slow one. Delays and rates are left out: a delayed
re-add is an add.

*Bounds.* Two keys that both lanes may get, two workers (as `DefaultThreadsPerController`): one key in both
lanes at once, both workers after the same key, and a key waiting behind another, are all there.
A longer queue adds positions that `WellFormed` makes alike.

*Fairness.* Every goroutine goes on, and a shutdown that has closed one lane closes the other. Once one
channel is closed the second `select` may choose it again and again, to no effect, while a key is
offered on the other; Go chooses at random among what is ready, so in the end the key is taken. The model
leaves these turns out and the fairness of the consumer stands for the rest. `SlowIsServed` assumes that the fast lane comes to rest: the
consumer prefers it by design.

### Controller and Configuration

A process goes through `start`, `watching` (ConfigMaps), `informers` (started and being filled), `running` and
`stopping`, or `exited` if a ConfigMap is missing or broken before anything was stored.

| action | code |
|---|---|
| `NewController`, `StartInformers`, `RunContext`, `ShutDown` | `controller.go` 48-117, the start and stop sequence of `RunContext` |
| `OnConfigChanged`, `ListForResync`, `EnqueueForResync` | `UntypedStore.OnConfigChanged`, the callback of line 81, `FilteredGlobalResync` |
| `Observe`, `Handle` | the PA informer: store first, handler later; `AnnotationFilterFunc` on the object before and the one after |
| `Promote`, `ListForPromotion`, `EnqueueForPromotion`, `Demote` | `LeaderAwareFuncs`, `PromoteFunc` of `NewImpl` |
| `Start` ... `GetPA` | `processNextWorkItem`, then `Reconcile` up to `ReconcileKind`: leadership, `Load` of one configuration after the other, the PA |
| `Succeed`, `Fail`, `RetryFires` | the end of a run and `handleErr` |
| `ChangePA`, `ChangeConfigMap` | the environment: PAs that come, go, change or change class; ConfigMaps edited, broken, deleted |

`applied[k]` is what the last successful run of a key had read; the properties compare it with what is
current. The queue is `KeyedWork`'s, with `due` as it is and what the workers have as `running`. Adds while
it shuts down are dropped, as in `WorkQueue`.

*Bounds.* One PA, two workers (so that both could be after it), three changes of whatever kind; keys are
independent of each other but for lists, and two of them with two changes pass as well. Two changes are what a lost wake-up takes (a change
during a run and one more that would have hidden it), the third is a failure or a demotion on top.
`ConfigMaps` gives each ConfigMap a good, another good (for `config-autoscaler-keda`) and a broken content,
or none.

*Fairness.* Goroutines, timers and informers go on. `Start` of a key is strongly fair: it is not enabled all
the time because a worker may be busy, and `FastIsServed` and `SlowIsServed` of `WorkQueue` are the reason it
comes up in the end. Nothing is assumed of elections, edits, failures or a shutdown; `CatchesUp` speaks
of a process that goes on leading.

### Replicas

`lease` and `elector` are client-go's leader election as far as its callbacks show it: `OnStartedLeading` runs
in a goroutine (`renews` until it has run) and may come after `OnStoppedLeading` (`late`); then the replica
believes it leads although it has no lease. A run reads the PA and the SO from caches of its own replica
and writes at most once. Versions are reduced to one bit per copy, `latest`: whether the SO has been
written since it was read, which is all that optimistic concurrency asks. The PA has a uid, so that an SO
of an earlier PA of the same name can be told apart; the garbage collector removes such an SO some day.

*Bounds.* Two replicas, two edits (deleted and created again), one lost lease: the old
leader's run, the new leader's run and a new PA all overlap. *Fairness.* Informers deliver, a run
begins and goes on, the garbage collector comes round, the election's callbacks run and a free lease is
acquired; the steps that happen finitely often share one condition, which for them says as much as one
each. Nothing is assumed of lost leases.

### Injection

A package is what it registers and imports: the registry (real or fake), the layer (client, factory, or
informer of one of the four kinds), filtered or not. Packages are initialized in every order their imports
allow, then `SetupInformers` runs the injectors phase by phase over a context, which maps keys to what has
been made. `Packages` and `Imports` are the ones of `pkg/client/injection`; `InjectionAssumption` says of the
programs what Go's linker ensures, that imports are linked, and nothing else. In particular the fake filtered
informers import the real filtered factory and no fake one, so a test that links them alone panics, and so does any
program with filtered packages that does not call `WithSelectors`. `Complete` is what a program needs for
the registry that is set up, and `PanicsIfIncomplete` says that the process panics for what is not complete,
wherever in the order that is found out, and for nothing else. `MCInjection` closes a
program under imports for the run, which takes eight programs (one with a fake filtered informer and no fake
filtered factory), five lists of selectors (not given, empty, one, two, the
same one twice) and two namespaces.

## 3. The runs

| run | distinct states | properties | what it shows |
|---|---|---|---|
| `conditions` | 418 | `TypeOK`, `ReadyMeansAllTrue`, `FailureIsVisible`, `UnknownHasCause` | Ready agrees with its dependents, from every state an older release may have stored |
| `safety` | 1,117,357 | `TypeOK`, `ReadyIsServed`, `InitializedIsEarned`, `EveryWriteChanges`, `RestIsDone`, `ObservedMonotone` | with two status attempts and any one disturbance, the status is justified, never regresses in its generation, and is up to date once nothing will wake the PA |
| `ownership` | 3,440,682 | `ForeignSOUntouched`, `ForeignSKSUntouched`, `NotOwnedIsTrue` | from an outdated SO and a proxying SKS, users delete and replace both while the reconciler acts on older versions |
| `converges` | 778,422 | `Converges`, `ForeignIsReported` | after any two disturbances resources and status end up right, also if users create the SO under a name whose HPA events get lost, creation changes hands or annotations break; a foreign SO that stays in the way is reported for good |
| `scaled_object` | 119,436 | `ResourceNeverAtZero`, `DefaultTriggerIsLegal`, `TrafficOnlyMovesMin`, `DirectionsAreApart`, `ScalesAsHPA` | whatever users add, what the code puts into the object is legal, can be scaled up again and scales as the HPA class does; an annotation changes what it is about and nothing else |
| `work_queue` | 98,876 | `TypeOK`, `NothingLeftBehind`, `ImplementsKeyedWork`, `FastIsServed`, `SlowIsServed`, `ShutDownEnds` | three queues and three goroutines behave as one keyed queue, serve every key and shut down |
| `controller` | 627,626 | `TypeOK`, `NoRunUnconfigured`, `NoLostWakeup`, `NeverBackToOlder`, `ImplementsKeyedWork`, `CatchesUp` | with or without leader election, through edits, failures, promotions and demotions, a PA whose last run is out of date has a run to come, and runs of a PA follow each other |
| `replicas` | 856,667 | `TypeOK`, `OneLateWrite`, `OnlyForItsOwner`, `Converges` | overlapping leaders and a PA created anew: an SO is written for its owner only and ends up as the last PA asks |
| `injection` | 7,824 | `PanicsIfIncomplete`, `GetsItsOwn`, `EachIsStarted` | whatever is linked and however it is initialized, the process panics if something is missing, and only then; else each package gets a client, factory and informer of its own |

Each ends within five minutes. Every property of these runs is broken by at least one mutated definition
listed in `PROJECT.json`; the mutants stand next to the definitions they replace.

In `safety` the SKS is there and serving, as a start without one takes the run beyond its five minutes. So in that run
no call for an SKS fails: that a status is justified and a PA at rest is done after such a failure, too, is what the
theorems about `ReadyIsServed` and `RestIsDone` add.

### Where the code disagrees with what is said of it

These runs end in a counterexample; `PROJECT.json` quotes the lines.

| run | property | what happens |
|---|---|---|
| `unconfigured_hpa` | `UnconfiguredHPAIsSkipped` | the minimum has just been raised; the HPA is compared with the old one and published as Active although it "is not configured properly yet" |
| `sticky_initialized` | `InitializedIsSticky` | a status computed before ScaleTargetInitialized was set is written after a conflict and takes it back |
| `override_panics` | `OverrideSucceeds` | an override with `spec.advanced` but without `horizontalPodAutoscalerConfig` dereferences nil |

The first two heal themselves (`Converges`). Some more things a reader of the code may want to know, though
nothing says otherwise:

* While the SO cache has not seen the reconciler's own create, the next run creates again and reports
  FailedCreate of an SO the PA owns, until the cache catches up.
* An SO may be left with an outdated minimum until the next resync: if reachability changes twice while the
  SO cache lags, the run for the second change finds the minimum it wants in the cached SO, which the one
  before has already replaced, and the event of the replacement wakes nobody. That is why `RestIsDone` says
  of the SO only that it *has been* as asked, and why `Converges` needs the resync.
* A minimum from `config-autoscaler` above a maximum from the annotation goes into the SO as it is. KEDA's webhook
  reports it and lets it pass (`scaledobject_webhook.go` 181-188).
* Extra triggers and overrides go to KEDA unchecked. A PA with a memory or custom metric, no target and an extra
  trigger of type cpu or memory yields an object with nothing but resource triggers and no minimum, which KEDA's webhook
  refuses; `ResourceNeverAtZero` therefore speaks of PAs with a target.
* A PA for cpu without a target gets one of 70 here, and an HPA without metrics from `MakeHPA`.
* With a custom metric an unspecified minimum stays nil, which KEDA takes for 0 when it scales the workload, where
  the HPA class and `CONCEPTS-API.md:50` have 1;
  a target below 1 of a custom metric or of memory is truncated to 0, in `MakeHPA` as well.
* An address without a host passes `ParseServerAddress`, which returns the nil error of the parse.

## 4. The proofs

| module | theorems | for every value of the constants |
|---|---|---|
| `ConditionManagerProofs` | `TypeCorrect`, `ReadyMeansAllTrueHolds`, `FailureIsVisibleHolds`, `UnknownHasCauseHolds` | the invariants of `ConditionManager`, for any set of dependents |
| `KedaReconcilerProofs` | `IInvHolds`, `TypeCorrect` | the inductive invariant and type correctness of `KedaReconciler` |
| | `ForeignSOSafe`, `ForeignSKSSafe` | somebody else's SO and SKS are never written to |
| | `ObservedIsMonotone` | the observed generation never goes back and never exceeds the generation |
| `KedaStatusProofs` | `StatusHolds` | every status, published or being computed, has a cause in what the API server has held |
| | `ReadyIsServedHolds`, `InitializedIsEarnedHolds`, `NotOwnedIsTrueHolds` | what three of the conditions tell a reader of the PA is true |
| | `EveryWriteChangesHolds` | the reconciler does not keep itself awake |
| | `RestIsDoneHolds` | a PA that nothing will wake has been done as far as its events can tell |
| `ScaledObjectProofs` | one for each of its five properties, `...Holds` | every PA, whatever its bounds, targets, windows, extra triggers and override, and every edit |
| `WorkQueueProofs` | `TypeOKHolds`, `NothingLeftBehindHolds` | any keys and any number of workers |
| | `ImplementsKeyedWorkHolds` | the refinement: every step is one of `KeyedWork` or a stutter |
| `ControllerProofs` | `TypeOKHolds`, `NoRunUnconfiguredHolds`, `NoLostWakeupHolds` | any PAs, workers, ConfigMap contents and number of changes |
| | `NeverBackToOlderHolds` | runs of one PA read versions that never go back |
| | `ImplementsKeyedWorkHolds` | the refinement: every step of a process is one of `KeyedWork` or a stutter |
| `ReplicasProofs` | `TypeOKHolds`, `OneLateWriteHolds`, `OnlyForItsOwnerHolds` | any number of replicas, edits and lost leases |
| `InjectionProofs` | `IInvHolds`, `PanicsIfIncompleteHolds`, `GetsItsOwnHolds`, `EachIsStartedHolds` | any set of packages that is closed under imports, any order of initialization, any selectors or none, any namespace |

Assumptions are the types of the constants (`ConstantsAssumption`, `InputsAssumption`,
`ControllerAssumption`, `ReplicasAssumption`), that an object others create is one,
that `None` is no key or replica, that there is a worker
(`WorkersAssumption`: without one a shutdown leaves keys behind), that a program is a set of packages that is
closed under imports and selectors are a list or not given (`InjectionAssumption`), and, for the conditions, that Ready is not
one of its own dependents.

*Conditions.* None of the three is inductive alone, since a mark recomputes Ready from all dependents: the
invariant says that Ready is the summary of the dependents, or Unknown for a new generation. The lemmas
about the marks say what each does to every condition, the theorems combine them.

*`IInv`* adds `HeldOK` to the types: while a run is under way the worker holds a PA; before `updateSO` and
`updateSKS` it holds a version whose owner it has checked; before the SKS part it holds an HPA that exists.
Types alone are not inductive, because the object an update appends copies the one held. `LogsGrow` is the
argument all steps share: versions are appended and never changed, so positions stay valid and what was
checked about a version stays true of it. Each action is then one case.

*Foreign objects.* An accepted update is on the last version, which is the one held, which was checked: the
owner of what it replaces is the PA. A create is accepted only if there is nothing. What remains is users
and the SKS controller.

*`ObservedMonotone`* needs `ObservedOK`: generations grow along the log; what is published is not ahead of
the generation the *cache* holds; a run's generation lies between the two, and so does the observed
generation it is about to write. The middle part is the point: every status published came from a version
the cache had before, so the next run, which reads the cache again, starts at least there; and only one
worker has the key. That is why retrying with an old status can take conditions back but never the
observed generation.

*What a status says.* A status may be written onto a version it was not computed from, and a run may begin
from a status that was, so causes cannot be looked for in the present. `StatusOK` asks that every status
in the PA's history, and the worker's copy, be justified by something in the logs, which only grow: what
has been a cause stays one (`JustifiedStays`), and there is one lemma per operator of `ReconcileKind`.
Of Ready=True it only says that the *known* dependents are true. For `EveryWriteChanges` the two updates are
made only if the version held differs from what is wanted (`WantsChange`), and accepted only if it is still
the last one.

*`RestIsDone`* speaks of rest, which no step of a run is in, so its invariant has to follow a run to its end.
`RestOK` says: if no event that adds the key is on its way and no retry is due, then what the PA asks for and
its status agree with the *cached* HPA and SKS, or a run is under way that will see to it; and what a run that nobody
has asked to repeat holds is what the caches hold. The second half is why: an event that replaces what it
holds adds the key (or is one of an HPA or SKS that tells nothing new, `Tells`). What a run writes is an
event on its way (`PAComing`, `SKSComing`); a run that fails, or gives up on conflicts, leaves a retry
(`RestFault`). The remaining case is a run that ends without an error and without a write, and it has just
compared what it would write with the cached PA. `AppliedOK` keeps what a run has seen of the SO.
`CachesStay` and `RestAround` are about everybody else's steps, and one lemma each takes a run through
its own.

*`ScaledObject`.* The invariant says that a result is that of its PA, so each property becomes a statement
about `DesiredScaledObject` for one PA or two, proved from lemmas about its parts: what a generated object is,
and that with a target its first trigger is the default one, whatever follows it.

*`WorkQueue`.* `TypeOK` says that a queue holds exactly the dirty keys that are not being processed, each
once; that a `Get` or `Done` keeps this needs `Holding`: whoever is between the two holds a key that is
being processed, and no two hold the same one. `Closing` says that what closes closes in order (a lane, its
goroutine, the consumer, the third queue, the workers) and only when it is empty, from which
`NothingLeftBehind` follows. In the refinement a key is due while it is in a lane, in a goroutine's hand
or in the third queue, so moves are stutters; a worker that starts while the key is in a lane again leaves it
due, which is why `KeyedWork`'s `Start` may do so.

*`Controller`.* `NoLostWakeup` is not inductive: a PA may be up to date because of its last run while a run
that has read something older is under way and will be the last one. `Attended` therefore asks that an
up-to-date PA has no run at all, or one that has read what is current. It must hold from the time
informers start, as a process may lead from the first moment; `Early` says that before that nothing is in the
store and no worker has a key. The case of a demotion is empty, as the invariant speaks of leaders; the
case of a promotion is the list that is taken after the bucket is entered.

*`NeverBackToOlder`* rests on `Ages`: the version applied last is not newer than the one a run under way has
read, that one not newer than the store's, and that one not newer than the API server's. It is inductive
because of `TypeOK`'s part that no two workers have the same key, which is what `Start` checks. In the
refinement of `KeyedWork` the steps that add to `due` are adds (or, for lists and handlers, adds of one key at a time),
`Start` is a start, the end of a run an end, and all others leave both alone (`Aside`).

*`Replicas`.* `Latest`: a copy that says it is the latest is the SO, so an accepted update goes to the SO whose
owner was compared. `Late`: a replica that has written after its demotion has no run and begins none.

*`Injection`.* `ListsOK` says that the injectors that wait are those of the registry's packages that are
initialized and have not been run, each in the list of its phase: all of them while the phase is to come, none once
it is over. Unless the process has panicked, whoever waits no more has made something for each of its keys
(`MadeOK`) and had what it needs (`RunOK`); `ContextOK` says that what is under a key is the value that belongs to it,
that the informers are those of the context, and that a factory for a selector is there only if the filtered factory is
linked. What an injector takes is made in an earlier phase by a package of its registry that it imports or, for a fake
filtered informer, that `Complete` asks for. So one that misses something is of a program that is not complete, and
one that misses nothing had what it needs, from which both halves of `PanicsIfIncomplete` follow: at the end all
injectors have been run. `Closure` of imports is recursive and therefore stays in `MCInjection`; the theorems only need
that a program is closed.

*Only model-checked:* liveness (`Converges`, `ForeignIsReported`, `FastIsServed`, `SlowIsServed`,
`ShutDownEnds`, `CatchesUp`), which the prover does not handle under fairness. Every other property of a passing run
is a theorem.

## 5. What is not modelled

* The test builders (`resources/scaled_object.go`, the PA builders of `helpers/helpers.go`), the end-to-end
  tests and their images: each builder assigns one field of an object a test expects.
* Metrics, logging and Kubernetes events, which nothing reads back.
* The text of triggers, queries and quantities; the parser of `config-autoscaler`, of which only whether it
  succeeds is kept; the typed clients behind the injected ones.
* The lease itself: clocks and renewals. It may be lost at any time.
* Rates and delays: a re-add after a delay is an add at some later time.
* Several buckets: there is one by default, and keys of different buckets do not meet.
* Deletions whose last state is unknown (tombstones): `AnnotationFilterFunc` drops them, which only matters for
  a PA that is gone.
* Refinement between `Controller` and `KedaReconciler`: the two cut a run at the same place but keep
  different data about it, and what each property needs of the other half is said above.

KEDA, the HPA and SKS controllers and the API server are environment, modelled by what the reconciler sees of
them.

## 6. Running it

    tlc -workers 2 -config KedaSafety.cfg MCKedaReconciler
    tlapm KedaReconcilerProofs.tla

The module of each configuration is given in `PROJECT.json`. Deadlock is checked where the system never
rests: the periodic resync keeps the reconciler alive, the conditions can always be marked again, a PA can
always be edited, and keys can be offered to a queue that is closed. It is not checked in `controller` (a
process exits), `replicas` (everything may be settled, with all edits used up) and `injection` (which ends).
