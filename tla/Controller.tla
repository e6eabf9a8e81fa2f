------------------------------ MODULE Controller ------------------------------
(***************************************************************************)
(* One process of the autoscaler: how it starts, keeps its configuration,  *)
(* is promoted and demoted, and which keys it puts into the work queue, so *)
(* that what a PodAutoscaler (PA) got from its last run is never out of    *)
(* date without a run to come.  The queue is KeyedWork's: a set of keys    *)
(* that are due.  What a run does is KedaReconciler's; here it reads the   *)
(* configuration and the PA, and succeeds or fails.                        *)
(***************************************************************************)
EXTENDS Configuration, Naturals

CONSTANTS Keys, Workers, None,
  ConfigMaps,     \* name -> the contents it may have; None: it does not exist
  MaxChanges      \* bounds the environment: edits, elections, failures

VARIABLES
  ha,             \* leader election is not disabled
  boot,           \* how far the process has started or stopped
  configMap,      \* name -> contents at the API server
  changed,        \* the ConfigMaps with an event on its way
  storages,       \* name -> the configuration in force
  resync,         \* onAfterStore: to list the PAs, or to enqueue those listed
  pa,             \* key -> the PA at the API server
  store,          \* key -> the PA in the informer's store
  events,         \* the keys with an event for the handler on its way
  leading,        \* the bucket is in LeaderAwareFuncs
  promotion,      \* PromoteFunc: to list the PAs, or to enqueue those listed
  due, retry,     \* the keys in the queue; those waiting out a delay
  worker,         \* worker -> its place in Reconcile and what it has read
  applied,        \* key -> what the last successful run of it had read
  changes

process == <<ha, boot, configMap, changed, storages, resync>>
cache   == <<pa, store, events>>
leader  == <<leading, promotion>>
queue   == <<due, retry, worker, applied>>
vars    == <<process, cache, leader, queue, changes>>

Watched == {"keda", "autoscaler"}
Construct(name, data) ==
  IF name = "keda" THEN NewConfigFromMap(data) ELSE AutoscalerConfig(data)

ASSUME ControllerAssumption ==
  /\ MaxChanges \in Nat /\ None \notin Keys
  /\ None \notin AutoscalerKedaConfig \cup AutoscalerData
  /\ DOMAIN ConfigMaps = Watched
  /\ ConfigMaps["keda"] \subseteq KedaData \cup {None}
  /\ ConfigMaps["autoscaler"] \subseteq AutoscalerData \cup {None}

PAs == [class: {"hpa", "kpa"}, version: Nat]

\* AnnotationFilterFunc: a PA that names no class is not of this one.
OnlyHPAClass(p) == p # None /\ p.class = "hpa"

Idle  == [pc |-> "idle", key |-> None, keda |-> None, autoscaler |-> None, pa |-> None]
Quiet == [pc |-> "idle", todo |-> {}]

Listing(keys) == IF keys = {} THEN Quiet ELSE [pc |-> "enqueue", todo |-> keys]

Init ==
  /\ ha \in BOOLEAN /\ boot = "start"
  /\ configMap \in [Watched -> UNION {ConfigMaps[n] : n \in Watched}]
  /\ \A n \in Watched : configMap[n] \in ConfigMaps[n]
  /\ changed = {} /\ storages = [n \in Watched |-> None] /\ resync = Quiet
  /\ pa \in [Keys -> {None, [class |-> "hpa", version |-> 0]}]
  /\ store = [k \in Keys |-> None] /\ events = {}
  /\ leading = FALSE /\ promotion = Quiet
  /\ due = {} /\ retry = {} /\ worker = [w \in Workers |-> Idle]
  /\ applied = [k \in Keys |-> None]
  /\ changes = 0

-------------------------------------------------------------------------------
(* Starting *)

\* main, and NewController: the store watches its ConfigMaps, the handlers are added.
NewController ==
  /\ boot = "start"
  /\ boot' = "watching" /\ changed' = Watched
  /\ UNCHANGED <<ha, configMap, storages, resync, cache, leader, queue, changes>>

\* Start of the ConfigMap watcher has waited for each of them to be stored and its
\* callbacks to return.  The mutant waits for one.
SomeConfigured == \E n \in Watched : storages[n] # None
Configured     == (\A n \in Watched : storages[n] # None) /\ resync = Quiet

StartInformers ==
  /\ boot = "watching" /\ Configured
  /\ boot' = "informers"
  /\ UNCHANGED <<ha, configMap, changed, storages, resync, cache, leader, queue, changes>>

\* The caches have synced.  Without leader election this process leads from here on,
\* before there are workers.
RunContext ==
  /\ boot = "informers" /\ store = pa
  /\ boot' = "running" /\ leading' = ~ ha
  /\ UNCHANGED <<ha, configMap, changed, storages, resync, cache, promotion, queue, changes>>

ShutDown ==
  /\ boot = "running" /\ changes < MaxChanges
  /\ boot' = "stopping" /\ changes' = changes + 1
  /\ UNCHANGED <<ha, configMap, changed, storages, resync, cache, leader, queue>>

-------------------------------------------------------------------------------
(* The queue: what is added while it shuts down is dropped. *)

Enqueue(k) == due' = IF boot = "stopping" THEN due ELSE due \cup {k}

-------------------------------------------------------------------------------
(* Configuration *)

StoresAny(n) == configMap[n] # None      \* mutant: stores what cannot be parsed
Stores(n)    == configMap[n] # None /\ Construct(n, configMap[n]) # Invalid

\* Contents that cannot be parsed are dropped, unless there are none before them:
\* the process exits, as it does if a ConfigMap does not exist.  A deletion is not
\* acted upon.
OnConfigChanged(n) ==
  /\ n \in changed /\ resync = Quiet /\ boot # "exited"
  /\ changed' = changed \ {n}
  /\ \/ /\ Stores(n)
        /\ storages' = [storages EXCEPT ![n] = Construct(n, configMap[n])]
        /\ resync' = [pc |-> "list", todo |-> {}]
        /\ UNCHANGED boot
     \/ /\ ~ Stores(n)
        /\ boot' = IF storages[n] = None THEN "exited" ELSE boot
        /\ UNCHANGED <<storages, resync>>
  /\ UNCHANGED <<ha, configMap, cache, leader, queue, changes>>

\* FilteredGlobalResync does nothing if the queue is shutting down.
ListForResync ==
  /\ resync.pc = "list"
  /\ resync' = IF boot = "stopping" THEN Quiet
                ELSE Listing({k \in Keys : OnlyHPAClass(store[k])})
  /\ UNCHANGED <<ha, boot, configMap, changed, storages, cache, leader, queue, changes>>

EnqueueForResync(k) ==
  /\ k \in resync.todo
  /\ resync' = Listing(resync.todo \ {k}) /\ Enqueue(k)
  /\ UNCHANGED <<ha, boot, configMap, changed, storages, cache, leader, retry, worker, applied, changes>>

-------------------------------------------------------------------------------
(* Events of PAs *)

\* The informer's store is updated first.  The filter passes an event on if it passes
\* the object before it or the one after it.
Observe(k) ==
  /\ boot \in {"informers", "running", "stopping"} /\ store[k] # pa[k]
  /\ store' = [store EXCEPT ![k] = pa[k]]
  /\ events' = IF OnlyHPAClass(store[k]) \/ OnlyHPAClass(pa[k]) THEN events \cup {k} ELSE events
  /\ UNCHANGED <<process, pa, leader, queue, changes>>

Handle(k) ==
  /\ k \in events
  /\ events' = events \ {k} /\ Enqueue(k)
  /\ UNCHANGED <<process, pa, store, leader, retry, worker, applied, changes>>

-------------------------------------------------------------------------------
(* Leading *)

\* Mutant: promotes without a function to enqueue, as if nobody had led before.
PromoteSilently ==
  /\ ha /\ boot = "running" /\ promotion = Quiet /\ changes < MaxChanges
  /\ leading' = TRUE /\ changes' = changes + 1
  /\ UNCHANGED <<process, cache, promotion, queue>>

\* Promote: the bucket is entered first, then the PAs are listed and enqueued.
Promote ==
  /\ ha /\ boot = "running" /\ promotion = Quiet /\ changes < MaxChanges
  /\ leading' = TRUE /\ promotion' = [pc |-> "list", todo |-> {}] /\ changes' = changes + 1
  /\ UNCHANGED <<process, cache, queue>>

ListForPromotion ==
  /\ promotion.pc = "list"
  /\ promotion' = Listing({k \in Keys : store[k] # None})
  /\ UNCHANGED <<process, cache, leading, queue, changes>>

EnqueueForPromotion(k) ==
  /\ k \in promotion.todo
  /\ promotion' = Listing(promotion.todo \ {k}) /\ Enqueue(k)
  /\ UNCHANGED <<process, cache, leading, retry, worker, applied, changes>>

Demote ==
  /\ ha /\ leading /\ changes < MaxChanges
  /\ leading' = FALSE /\ changes' = changes + 1
  /\ UNCHANGED <<process, cache, promotion, queue>>

-------------------------------------------------------------------------------
(* Reconcile, up to ReconcileKind *)

\* What changes in a worker's step: its place, and perhaps the rest of the queue.
Works(w, s) == worker' = [worker EXCEPT ![w] = s] /\ UNCHANGED <<process, cache, leader>>

\* Mutant: a worker takes a key that another one has.
StartAgain(w, k) ==
  /\ boot \in {"running", "stopping"} /\ worker[w] = Idle
  /\ k \in due /\ due' \in {due, due \ {k}}
  /\ Works(w, [Idle EXCEPT !.pc = "leader", !.key = k])
  /\ UNCHANGED <<retry, applied, changes>>

Start(w, k) ==
  /\ boot \in {"running", "stopping"} /\ worker[w] = Idle
  /\ k \in due /\ \A v \in Workers : worker[v].key # k
  /\ due' \in {due, due \ {k}}
  /\ Works(w, [Idle EXCEPT !.pc = "leader", !.key = k])
  /\ UNCHANGED <<retry, applied, changes>>

\* newState: a key that is not led is skipped, and forgotten.
CheckLeader(w) ==
  /\ worker[w].pc = "leader"
  /\ Works(w, IF leading THEN [worker[w] EXCEPT !.pc = "keda"] ELSE Idle)
  /\ UNCHANGED <<due, retry, applied, changes>>

\* Load copies the two configurations one after the other.
LoadKeda(w) ==
  /\ worker[w].pc = "keda"
  /\ Works(w, [worker[w] EXCEPT !.pc = "autoscaler", !.keda = storages["keda"]])
  /\ UNCHANGED <<due, retry, applied, changes>>

LoadAutoscaler(w) ==
  /\ worker[w].pc = "autoscaler"
  /\ Works(w, [worker[w] EXCEPT !.pc = "get", !.autoscaler = storages["autoscaler"]])
  /\ UNCHANGED <<due, retry, applied, changes>>

\* A PA that is gone or of another class is left alone.
GetPA(w) ==
  /\ worker[w].pc = "get"
  /\ LET p == store[worker[w].key] IN
     Works(w, IF OnlyHPAClass(p) THEN [worker[w] EXCEPT !.pc = "reconcile", !.pa = p] ELSE Idle)
  /\ UNCHANGED <<due, retry, applied, changes>>

Read(w) == [keda |-> worker[w].keda, autoscaler |-> worker[w].autoscaler, pa |-> worker[w].pa]

Succeed(w) ==
  /\ worker[w].pc = "reconcile"
  /\ applied' = [applied EXCEPT ![worker[w].key] = Read(w)]
  /\ Works(w, Idle)
  /\ UNCHANGED <<due, retry, changes>>

Forgets(k) == retry                    \* mutant: any error is taken for a permanent one
Retried(k) == IF boot = "stopping" THEN retry ELSE retry \cup {k}

\* handleErr: the key is added again after a delay, unless the queue shuts down.
Fail(w) ==
  /\ worker[w].pc = "reconcile" /\ changes < MaxChanges
  /\ retry' = Retried(worker[w].key)
  /\ changes' = changes + 1
  /\ Works(w, Idle)
  /\ UNCHANGED <<due, applied>>

RetryFires(k) ==
  /\ k \in retry /\ retry' = retry \ {k} /\ Enqueue(k)
  /\ UNCHANGED <<process, cache, leader, worker, applied, changes>>

-------------------------------------------------------------------------------
(* The environment *)

\* A PA is created, edited, given to another autoscaler, or deleted.
ChangePA(k) ==
  /\ changes < MaxChanges /\ changes' = changes + 1
  /\ \E p \in {None} \cup [class: {"hpa", "kpa"}, version: {changes + 1}] :
       p # pa[k] /\ pa' = [pa EXCEPT ![k] = p]
  /\ UNCHANGED <<process, store, events, leader, queue>>

\* A ConfigMap is edited.  Two events of the same one are taken as one.
ChangeConfigMap(n) ==
  /\ boot # "start" /\ changes < MaxChanges /\ changes' = changes + 1
  /\ \E c \in ConfigMaps[n] \ {configMap[n]} : configMap' = [configMap EXCEPT ![n] = c]
  /\ changed' = changed \cup {n}
  /\ UNCHANGED <<ha, boot, storages, resync, cache, leader, queue>>

-------------------------------------------------------------------------------
Reconciles(w) ==
  \/ CheckLeader(w) \/ LoadKeda(w) \/ LoadAutoscaler(w) \/ GetPA(w) \/ Succeed(w) \/ Fail(w)

Next ==
  \/ NewController \/ StartInformers \/ RunContext \/ ShutDown
  \/ ListForResync \/ ListForPromotion \/ Promote \/ Demote
  \/ \E n \in Watched : OnConfigChanged(n) \/ ChangeConfigMap(n)
  \/ \E k \in Keys : \/ EnqueueForResync(k) \/ EnqueueForPromotion(k) \/ RetryFires(k)
                     \/ Observe(k) \/ Handle(k) \/ ChangePA(k)
  \/ \E w \in Workers : Reconciles(w) \/ \E k \in Keys : Start(w, k)

Spec == Init /\ [][Next]_vars

\* Goroutines go on, informers deliver, delays end and every key that is due gets its
\* turn (WorkQueue: FastIsServed, SlowIsServed).  Nothing is assumed of the environment,
\* nor that a run fails or the election goes on.
Fairness ==
  /\ WF_vars(NewController) /\ WF_vars(StartInformers) /\ WF_vars(RunContext)
  /\ WF_vars(ListForResync) /\ WF_vars(ListForPromotion)
  /\ \A n \in Watched : WF_vars(OnConfigChanged(n))
  /\ \A k \in Keys : /\ WF_vars(EnqueueForResync(k)) /\ WF_vars(EnqueueForPromotion(k))
                     /\ WF_vars(Observe(k)) /\ WF_vars(Handle(k)) /\ WF_vars(RetryFires(k))
                     /\ SF_vars(\E w \in Workers : Start(w, k))
  /\ \A w \in Workers : WF_vars(Reconciles(w))

FairSpec == Spec /\ Fairness

-------------------------------------------------------------------------------
Boots == {"start", "watching", "informers", "running", "stopping", "exited"}
Todo  == [pc: {"idle", "list", "enqueue"}, todo: SUBSET Keys]

\* A configuration in force is one that some constructor accepted.
Configs == [n \in Watched |->
              IF n = "keda" THEN AutoscalerKedaConfig ELSE [content: {"c1", "c2"}]]

Workings ==
  [pc: {"idle", "leader", "keda", "autoscaler", "get", "reconcile"}, key: Keys \cup {None},
   keda: Configs["keda"] \cup {None}, autoscaler: Configs["autoscaler"] \cup {None},
   pa: PAs \cup {None}]

TypeOK ==
  /\ ha \in BOOLEAN /\ boot \in Boots
  /\ \A n \in Watched : configMap[n] \in ConfigMaps[n] /\ storages[n] \in Configs[n] \cup {None}
  /\ changed \subseteq Watched /\ resync \in Todo
  /\ pa \in [Keys -> PAs \cup {None}] /\ store \in [Keys -> PAs \cup {None}]
  /\ events \subseteq Keys /\ leading \in BOOLEAN /\ promotion \in Todo
  /\ due \subseteq Keys /\ retry \subseteq Keys /\ worker \in [Workers -> Workings]
  /\ changes \in 0 .. MaxChanges

\* No run goes on with a configuration that was never loaded: Load would panic.
NoRunUnconfigured ==
  \A w \in Workers : worker[w] # Idle => \A n \in Watched : storages[n] # None

\* A run of w reads, or has read, what is current now.
IsCurrent(w) ==
  LET r == worker[w] IN
  /\ r.pc \in {"autoscaler", "get", "reconcile"} => r.keda = storages["keda"]
  /\ r.pc \in {"get", "reconcile"} => r.autoscaler = storages["autoscaler"]
  /\ r.pc = "reconcile" => r.pa = store[r.key]

ToCome(k) ==
  \/ k \in due \cup retry \cup events \cup resync.todo \cup promotion.todo
  \/ "list" \in {resync.pc, promotion.pc}
  \/ \E w \in Workers : worker[w].key = k /\ IsCurrent(w)

UpToDate(k) ==
  applied[k] = [keda |-> storages["keda"], autoscaler |-> storages["autoscaler"], pa |-> store[k]]

\* While this process leads, each PA of its class that it knows of was last reconciled
\* as it is and with the configuration in force, or there is a run to come: whatever
\* changed while that PA's run, a resync or a promotion was half way, or just before
\* leadership came and after it had been refused.
NoLostWakeup ==
  boot = "running" /\ leading =>
    \A k \in Keys : OnlyHPAClass(store[k]) => ToCome(k) \/ UpToDate(k)

\* What is done for a PA is never undone by a run that has read an older one: though
\* keys wait in several places, are added again while they run and are run by any
\* worker, the runs of one key follow each other and each reads the PA anew.
NeverBackToOlder ==
  [][\A k \in Keys : applied[k] # None => applied'[k].pa.version >= applied[k].pa.version]_vars

\* Enqueueing, starting and ending runs are those of one queue of keys, from the first
\* handler to the end of the process.
Abstract == INSTANCE KeyedWork WITH running <- [w \in Workers |-> worker[w].key]

ImplementsKeyedWork == Abstract!Spec

CaughtUp ==
  /\ \A n \in Watched : Stores(n) => storages[n] = Construct(n, configMap[n])
  /\ \A k \in Keys : store[k] = pa[k] /\ (OnlyHPAClass(pa[k]) => UpToDate(k))

\* A process that goes on leading ends up with every PA reconciled as it is, with the
\* last good contents of both ConfigMaps.
CatchesUp == <>[](boot = "running" /\ leading) => <>[]CaughtUp
===============================================================================
