--------------------------- MODULE ControllerProofs ---------------------------
(***************************************************************************)
(* For any number of keys, workers and changes: no run without both        *)
(* configurations, and none lost.                                          *)
(***************************************************************************)
EXTENDS Controller, TLAPS

Pending(k) ==
  \/ k \in due \cup retry \cup events \cup resync.todo \cup promotion.todo
  \/ "list" \in {resync.pc, promotion.pc}

\* A run that has read something old is as good as none, even if the last one before it
\* had read what is now current again: it will be the last one.
Attended(k) ==
  \/ Pending(k)
  \/ \E w \in Workers : worker[w].key = k /\ IsCurrent(w)
  \/ UpToDate(k) /\ \A w \in Workers : worker[w].key # k

\* From the first event on, so that it holds when a process leads at once.
InForce  == boot = "informers" \/ (boot = "running" /\ leading)
NoneLost == InForce => \A k \in Keys : OnlyHPAClass(store[k]) => Attended(k)

\* Nothing is stored before the informers run, and no key before the workers do.
Early ==
  /\ boot \in {"start", "watching"} => \A k \in Keys : ~ OnlyHPAClass(store[k])
  /\ boot \in {"start", "watching", "informers"} => \A w \in Workers : worker[w] = Idle
  /\ boot \in {"informers", "running", "stopping"} => \A n \in Watched : storages[n] # None

Lists ==
  /\ resync.todo # {} => resync.pc = "enqueue"
  /\ promotion.todo # {} => promotion.pc = "enqueue"

OneEach ==
  /\ \A w \in Workers : worker[w] = Idle \/ worker[w].key \in Keys
  /\ \A v, w \in Workers : worker[v].key # None /\ worker[v].key = worker[w].key => v = w

Functions ==
  /\ applied = [k \in Keys |-> applied[k]]
  /\ storages = [n \in Watched |-> storages[n]] /\ configMap = [n \in Watched |-> configMap[n]]

IInv == TypeOK /\ Functions /\ Early /\ Lists /\ OneEach /\ NoRunUnconfigured /\ NoneLost

-------------------------------------------------------------------------------
(* The operators *)

\* A ConfigMap that parses gives a configuration, never nil.
LEMMA Constructed ==
  ASSUME NEW n \in Watched, NEW data \in ConfigMaps[n], data # None, Construct(n, data) # Invalid
  PROVE  Construct(n, data) \in Configs[n] /\ Construct(n, data) # None
  <1>1. CASE n = "keda"
    <2>1. data \in KedaData /\ Construct(n, data) = NewConfigFromMap(data)
          /\ Configs[n] = AutoscalerKedaConfig
      BY <1>1, ControllerAssumption DEF Construct, Configs, Watched
    <2>2. data.address \in Addresses
      BY <2>1 DEF KedaData
    <2>3. NewConfigFromMap(data) \in AutoscalerKedaConfig
      BY <2>1, <2>2 DEF NewConfigFromMap, AutoscalerKedaConfig, Addresses
    <2> QED BY <2>1, <2>3, ControllerAssumption
  <1>2. CASE n = "autoscaler"
    <2>1. data \in AutoscalerData /\ Construct(n, data) = AutoscalerConfig(data)
          /\ Configs[n] = [content: {"c1", "c2"}]
      BY <1>2, ControllerAssumption DEF Construct, Configs, Watched
    <2>2. data.content # "bad"
      BY <2>1 DEF AutoscalerConfig
    <2>3. data \in [content: {"c1", "c2"}]
      BY <2>1, <2>2 DEF AutoscalerData
    <2> QED BY <2>1, <2>2, <2>3, ControllerAssumption DEF AutoscalerConfig, AutoscalerData
  <1> QED BY <1>1, <1>2 DEF Watched

\* A list that is taken is walked key by key.
LEMMA ListingType ==
  ASSUME NEW keys \in SUBSET Keys
  PROVE  /\ Listing(keys) \in Todo /\ Listing(keys).todo = keys
         /\ Listing(keys).pc = IF keys = {} THEN "idle" ELSE "enqueue"
  BY DEF Listing, Quiet, Todo

\* What a worker has at hand.
LEMMA WorkingFields ==
  ASSUME NEW r \in Workings
  PROVE  /\ r.pc \in {"idle", "leader", "keda", "autoscaler", "get", "reconcile"}
         /\ r.key \in Keys \cup {None} /\ r.keda \in Configs["keda"] \cup {None}
         /\ r.autoscaler \in Configs["autoscaler"] \cup {None} /\ r.pa \in PAs \cup {None}
         /\ r = [pc |-> r.pc, key |-> r.key, keda |-> r.keda, autoscaler |-> r.autoscaler,
                 pa |-> r.pa]
  BY DEF Workings

\* A worker at rest has nothing at hand.
LEMMA IdleFields ==
  /\ Idle \in Workings /\ Idle.pc = "idle" /\ Idle.key = None
  /\ Idle.keda = None /\ Idle.autoscaler = None /\ Idle.pa = None
  BY DEF Idle, Workings

\* What each update of a worker makes of it, spelt out.
Places == {"leader", "keda", "autoscaler", "get", "reconcile"}

\* A worker takes a key; the rest of it stays.
LEMMA Takes ==
  ASSUME NEW r \in Workings, NEW pc \in Places, NEW x \in Keys,
         NEW s, s = [r EXCEPT !.pc = pc, !.key = x]
  PROVE  /\ s \in Workings
         /\ s = [pc |-> pc, key |-> x, keda |-> r.keda, autoscaler |-> r.autoscaler, pa |-> r.pa]
  <1>0. r = [pc |-> r.pc, key |-> r.key, keda |-> r.keda, autoscaler |-> r.autoscaler, pa |-> r.pa]
    BY WorkingFields
  <1>1. s = [r EXCEPT !.pc = pc, !.key = x]
    OBVIOUS
  <1>2. s = [pc |-> pc, key |-> x, keda |-> r.keda, autoscaler |-> r.autoscaler, pa |-> r.pa]
    BY <1>0, <1>1, Zenon
  <1> QED BY <1>2, WorkingFields DEF Workings, Places

\* A worker goes on to another place.
LEMMA Moves ==
  ASSUME NEW r \in Workings, NEW pc \in Places, NEW s, s = [r EXCEPT !.pc = pc]
  PROVE  /\ s \in Workings
         /\ s = [pc |-> pc, key |-> r.key, keda |-> r.keda, autoscaler |-> r.autoscaler, pa |-> r.pa]
  <1>0. r = [pc |-> r.pc, key |-> r.key, keda |-> r.keda, autoscaler |-> r.autoscaler, pa |-> r.pa]
    BY WorkingFields
  <1>1. s = [r EXCEPT !.pc = pc]
    OBVIOUS
  <1>2. s = [pc |-> pc, key |-> r.key, keda |-> r.keda, autoscaler |-> r.autoscaler, pa |-> r.pa]
    BY <1>0, <1>1, Zenon
  <1> QED BY <1>2, WorkingFields DEF Workings, Places

\* Load reads config-autoscaler-keda ...
LEMMA ReadsKeda ==
  ASSUME NEW r \in Workings, NEW pc \in Places, NEW x \in Configs["keda"] \cup {None},
         NEW s, s = [r EXCEPT !.pc = pc, !.keda = x]
  PROVE  /\ s \in Workings
         /\ s = [pc |-> pc, key |-> r.key, keda |-> x, autoscaler |-> r.autoscaler, pa |-> r.pa]
  <1>0. r = [pc |-> r.pc, key |-> r.key, keda |-> r.keda, autoscaler |-> r.autoscaler, pa |-> r.pa]
    BY WorkingFields
  <1>1. s = [r EXCEPT !.pc = pc, !.keda = x]
    OBVIOUS
  <1>2. s = [pc |-> pc, key |-> r.key, keda |-> x, autoscaler |-> r.autoscaler, pa |-> r.pa]
    BY <1>0, <1>1, Zenon
  <1> QED BY <1>2, WorkingFields DEF Workings, Places

\* ... and config-autoscaler ...
LEMMA ReadsAutoscaler ==
  ASSUME NEW r \in Workings, NEW pc \in Places, NEW x \in Configs["autoscaler"] \cup {None},
         NEW s, s = [r EXCEPT !.pc = pc, !.autoscaler = x]
  PROVE  /\ s \in Workings
         /\ s = [pc |-> pc, key |-> r.key, keda |-> r.keda, autoscaler |-> x, pa |-> r.pa]
  <1>0. r = [pc |-> r.pc, key |-> r.key, keda |-> r.keda, autoscaler |-> r.autoscaler, pa |-> r.pa]
    BY WorkingFields
  <1>1. s = [r EXCEPT !.pc = pc, !.autoscaler = x]
    OBVIOUS
  <1>2. s = [pc |-> pc, key |-> r.key, keda |-> r.keda, autoscaler |-> x, pa |-> r.pa]
    BY <1>0, <1>1, Zenon
  <1> QED BY <1>2, WorkingFields DEF Workings, Places

\* ... and the lister gives the PA.
LEMMA ReadsPA ==
  ASSUME NEW r \in Workings, NEW pc \in Places, NEW x \in PAs \cup {None},
         NEW s, s = [r EXCEPT !.pc = pc, !.pa = x]
  PROVE  /\ s \in Workings
         /\ s = [pc |-> pc, key |-> r.key, keda |-> r.keda, autoscaler |-> r.autoscaler, pa |-> x]
  <1>0. r = [pc |-> r.pc, key |-> r.key, keda |-> r.keda, autoscaler |-> r.autoscaler, pa |-> r.pa]
    BY WorkingFields
  <1>1. s = [r EXCEPT !.pc = pc, !.pa = x]
    OBVIOUS
  <1>2. s = [pc |-> pc, key |-> r.key, keda |-> r.keda, autoscaler |-> r.autoscaler, pa |-> x]
    BY <1>0, <1>1, Zenon
  <1> QED BY <1>2, WorkingFields DEF Workings, Places

\* A step of one worker leaves the others and the process alone.
LEMMA WorksOn ==
  ASSUME TypeOK, NEW w \in Workers, NEW s \in Workings, Works(w, s)
  PROVE  /\ worker'[w] = s /\ \A v \in Workers \ {w} : worker'[v] = worker[v]
         /\ worker' \in [Workers -> Workings]
         /\ UNCHANGED <<ha, boot, configMap, changed, storages, resync, pa, store, events,
                        leading, promotion>>
  BY DEF TypeOK, Works, process, cache, leader

\* What all steps of Reconcile have in common; the next state of the worker is s, and
\* it reads nothing that is not current.
Reads(w, s) ==
  /\ s.key = worker[w].key /\ s.pc \in Places
  /\ s.pc \in {"autoscaler", "get", "reconcile"} =>
       \/ s.keda = worker[w].keda /\ worker[w].pc \in {"autoscaler", "get", "reconcile"}
       \/ s.keda = storages["keda"]
  /\ s.pc \in {"get", "reconcile"} =>
       \/ s.autoscaler = worker[w].autoscaler /\ worker[w].pc \in {"get", "reconcile"}
       \/ s.autoscaler = storages["autoscaler"]
  /\ s.pc = "reconcile" =>
       \/ s.pa = worker[w].pa /\ worker[w].pc = "reconcile"
       \/ s.pa = store[s.key] /\ OnlyHPAClass(store[s.key])

\* A key that is dropped was not led, is of another class, failed, or succeeded.
Drops(w) ==
  \/ ~ leading
  \/ ~ OnlyHPAClass(store[worker[w].key])
  \/ boot # "stopping" /\ worker[w].key \in retry'
  \/ worker[w].pc = "reconcile" /\ applied' = [applied EXCEPT ![worker[w].key] = Read(w)]
  \/ boot = "stopping"

ReconcileStep(w, s) ==
  /\ s \in Workings /\ Works(w, s) /\ worker[w] \in Workings /\ worker[w].key \in Keys
  /\ s = Idle \/ (Reads(w, s) /\ applied' = applied)
  /\ s = Idle => Drops(w)
  /\ due' = due /\ retry \subseteq retry' /\ retry' \subseteq Keys
  /\ changes' \in changes .. MaxChanges
  /\ \/ applied' = applied
     \/ /\ worker[w].pc = "reconcile" /\ s = Idle
        /\ applied' = [applied EXCEPT ![worker[w].key] = Read(w)]

\* The steps of a run are of the form ReconcileStep names.
LEMMA Reconciling ==
  ASSUME IInv, NEW w \in Workers, Reconciles(w)
  PROVE  \E s : ReconcileStep(w, s)
  <1>1. /\ worker[w] \in Workings /\ changes \in 0 .. MaxChanges /\ retry \subseteq Keys
        /\ storages["keda"] \in Configs["keda"] \cup {None}
        /\ storages["autoscaler"] \in Configs["autoscaler"] \cup {None}
        /\ store \in [Keys -> PAs \cup {None}]
    BY DEF IInv, TypeOK, Watched
  <1>2. worker[w].pc # "idle" => worker[w].key \in Keys
    BY IdleFields DEF IInv, OneEach
  <1>3. CASE CheckLeader(w) /\ leading
    <2> DEFINE s == [worker[w] EXCEPT !.pc = "keda"]
    <2>1. s = [worker[w] EXCEPT !.pc = "keda"]
      OBVIOUS
    <2> HIDE DEF s
    <2>2. /\ s \in Workings
          /\ s = [pc |-> "keda", key |-> worker[w].key, keda |-> worker[w].keda,
                  autoscaler |-> worker[w].autoscaler, pa |-> worker[w].pa]
      BY <1>1, <2>1, Moves DEF Places
    <2>3. Reads(w, s)
      BY <2>2 DEF Reads, Places
    <2>4. worker[w].key \in Keys /\ s # Idle
      BY <1>2, <1>3, <2>2, IdleFields DEF CheckLeader
    <2>5. Works(w, s) /\ UNCHANGED <<due, retry, applied, changes>>
      BY <1>3, <2>1 DEF CheckLeader
    <2>6. ReconcileStep(w, s)
      BY <1>1, <2>2, <2>3, <2>4, <2>5 DEF ReconcileStep
    <2> QED BY <2>6
  <1>4. CASE CheckLeader(w) /\ ~ leading
    <2>1. worker[w].key \in Keys /\ Works(w, Idle) /\ UNCHANGED <<due, retry, applied, changes>>
      BY <1>2, <1>4 DEF CheckLeader
    <2>2. ReconcileStep(w, Idle)
      BY <1>1, <1>4, <2>1, IdleFields DEF ReconcileStep, Drops
    <2> QED BY <2>2
  <1>5. CASE LoadKeda(w)
    <2> DEFINE x == storages["keda"]
               s == [worker[w] EXCEPT !.pc = "autoscaler", !.keda = x]
    <2>1. s = [worker[w] EXCEPT !.pc = "autoscaler", !.keda = x] /\ x \in Configs["keda"] \cup {None}
      BY <1>1
    <2>2. Works(w, s) /\ UNCHANGED <<due, retry, applied, changes>>
      BY <1>5 DEF LoadKeda
    <2>3. x = storages["keda"]
      OBVIOUS
    <2>0. worker[w] \in Workings /\ "autoscaler" \in Places
      BY <1>1 DEF Places
    <2> HIDE DEF s, x
    <2>4. /\ s \in Workings
          /\ s = [pc |-> "autoscaler", key |-> worker[w].key, keda |-> x,
                  autoscaler |-> worker[w].autoscaler, pa |-> worker[w].pa]
      BY <2>0, <2>1, ReadsKeda, Zenon
    <2>5. Reads(w, s)
      BY <1>5, <2>3, <2>4 DEF LoadKeda, Reads, Places
    <2>6. worker[w].key \in Keys /\ s # Idle
      BY <1>2, <1>5, <2>4, IdleFields DEF LoadKeda
    <2>7. ReconcileStep(w, s)
      BY <1>1, <2>2, <2>4, <2>5, <2>6 DEF ReconcileStep
    <2> QED BY <2>7
  <1>6. CASE LoadAutoscaler(w)
    <2> DEFINE x == storages["autoscaler"]
               s == [worker[w] EXCEPT !.pc = "get", !.autoscaler = x]
    <2>1. s = [worker[w] EXCEPT !.pc = "get", !.autoscaler = x] /\ x \in Configs["autoscaler"] \cup {None}
      BY <1>1
    <2>2. Works(w, s) /\ UNCHANGED <<due, retry, applied, changes>>
      BY <1>6 DEF LoadAutoscaler
    <2>3. x = storages["autoscaler"]
      OBVIOUS
    <2>0. worker[w] \in Workings /\ "get" \in Places
      BY <1>1 DEF Places
    <2> HIDE DEF s, x
    <2>4. /\ s \in Workings
          /\ s = [pc |-> "get", key |-> worker[w].key, keda |-> worker[w].keda,
                  autoscaler |-> x, pa |-> worker[w].pa]
      BY <2>0, <2>1, ReadsAutoscaler, Zenon
    <2>5. Reads(w, s)
      BY <1>6, <2>3, <2>4 DEF LoadAutoscaler, Reads, Places
    <2>6. worker[w].key \in Keys /\ s # Idle
      BY <1>2, <1>6, <2>4, IdleFields DEF LoadAutoscaler
    <2>7. ReconcileStep(w, s)
      BY <1>1, <2>2, <2>4, <2>5, <2>6 DEF ReconcileStep
    <2> QED BY <2>7
  <1>7. CASE GetPA(w) /\ OnlyHPAClass(store[worker[w].key])
    <2> DEFINE p == store[worker[w].key]
               s == [worker[w] EXCEPT !.pc = "reconcile", !.pa = p]
    <2>0. worker[w].key \in Keys /\ p \in PAs \cup {None}
      BY <1>1, <1>2, <1>7 DEF GetPA
    <2>1. s = [worker[w] EXCEPT !.pc = "reconcile", !.pa = p]
      OBVIOUS
    <2> HIDE DEF s
    <2>2. /\ s \in Workings
          /\ s = [pc |-> "reconcile", key |-> worker[w].key, keda |-> worker[w].keda,
                  autoscaler |-> worker[w].autoscaler, pa |-> p]
      BY <1>1, <2>0, <2>1, ReadsPA DEF Places
    <2>3. Reads(w, s)
      BY <1>7, <2>2 DEF GetPA, Reads, Places
    <2>4. s # Idle
      BY <2>2, IdleFields
    <2>5. Works(w, s) /\ UNCHANGED <<due, retry, applied, changes>>
      BY <1>7, <2>1 DEF GetPA
    <2>6. ReconcileStep(w, s)
      BY <1>1, <2>0, <2>2, <2>3, <2>4, <2>5 DEF ReconcileStep
    <2> QED BY <2>6
  <1>8. CASE GetPA(w) /\ ~ OnlyHPAClass(store[worker[w].key])
    <2>1. worker[w].key \in Keys /\ Works(w, Idle) /\ UNCHANGED <<due, retry, applied, changes>>
      BY <1>2, <1>8 DEF GetPA
    <2>2. ReconcileStep(w, Idle)
      BY <1>1, <1>8, <2>1, IdleFields DEF ReconcileStep, Drops
    <2> QED BY <2>2
  <1>9. CASE Succeed(w)
    <2>1. /\ worker[w].key \in Keys /\ Works(w, Idle) /\ UNCHANGED <<due, retry, changes>>
          /\ applied' = [applied EXCEPT ![worker[w].key] = Read(w)]
      BY <1>2, <1>9 DEF Succeed
    <2>2. ReconcileStep(w, Idle)
      BY <1>1, <1>9, <2>1, IdleFields DEF ReconcileStep, Drops, Succeed
    <2> QED BY <2>2
  <1>10. CASE Fail(w)
    <2>1. changes' \in changes .. MaxChanges
      BY <1>1, <1>10, ControllerAssumption DEF Fail
    <2>2. /\ worker[w].key \in Keys /\ Works(w, Idle) /\ UNCHANGED <<due, applied>>
          /\ retry' = Retried(worker[w].key)
      BY <1>2, <1>10 DEF Fail
    <2>3. ReconcileStep(w, Idle)
      BY <1>1, <2>1, <2>2, IdleFields DEF ReconcileStep, Drops, Retried
    <2> QED BY <2>3
  <1> QED BY <1>3, <1>4, <1>5, <1>6, <1>7, <1>8, <1>9, <1>10 DEF Reconciles

\* A worker that starts a key has nothing but the key.
LEMMA Starting ==
  ASSUME IInv, NEW w \in Workers, NEW k \in Keys, Start(w, k)
  PROVE  \E s \in Workings : Works(w, s) /\ s.key = k /\ s.pc = "leader"
  <1> DEFINE s == [Idle EXCEPT !.pc = "leader", !.key = k]
  <1>1. s = [Idle EXCEPT !.pc = "leader", !.key = k]
    OBVIOUS
  <1> HIDE DEF s
  <1>2. /\ s \in Workings
        /\ s = [pc |-> "leader", key |-> k, keda |-> Idle.keda,
                autoscaler |-> Idle.autoscaler, pa |-> Idle.pa]
    BY <1>1, IdleFields, Takes DEF Places
  <1>3. Works(w, s)
    BY <1>1 DEF Start
  <1> QED BY <1>2, <1>3

-------------------------------------------------------------------------------
(* One action at a time *)

\* Every step keeps the types.
LEMMA Typed ==
  ASSUME IInv, Next
  PROVE  TypeOK' /\ Functions'
  <1> USE ControllerAssumption DEF IInv, TypeOK, Functions, process, cache, leader, queue
  <1>1. CASE NewController
    BY <1>1 DEF NewController, Boots
  <1>2. CASE StartInformers
    BY <1>2 DEF StartInformers, Boots
  <1>3. CASE RunContext
    BY <1>3 DEF RunContext, Boots
  <1>4. CASE ShutDown
    BY <1>4 DEF ShutDown, Boots
  <1>5. CASE ListForResync
    <2>1. resync' \in Todo
      BY <1>5, ListingType DEF ListForResync, Quiet, Todo
    <2> QED BY <1>5, <2>1 DEF ListForResync
  <1>6. CASE ListForPromotion
    <2>1. promotion' \in Todo
      BY <1>6, ListingType DEF ListForPromotion
    <2> QED BY <1>6, <2>1 DEF ListForPromotion
  <1>7. CASE Promote
    BY <1>7 DEF Promote, Todo
  <1>8. CASE Demote
    <2>1. leading' \in BOOLEAN
      BY <1>8, Zenon DEF Demote
    <2>2. changes' \in 0 .. MaxChanges
      BY <1>8 DEF Demote
    <2> QED BY <1>8, <2>1, <2>2 DEF Demote
  <1>9. ASSUME NEW n \in Watched, OnConfigChanged(n)
        PROVE  TypeOK' /\ Functions'
    <2>1. CASE Stores(n)
      <3>1. Construct(n, configMap[n]) \in Configs[n]
        BY <2>1, Constructed DEF Stores
      <3>2. /\ boot' = boot /\ resync' = [pc |-> "list", todo |-> {}]
            /\ storages' = [storages EXCEPT ![n] = Construct(n, configMap[n])]
        BY <1>9, <2>1 DEF OnConfigChanged
      <3>3. UNCHANGED <<ha, configMap, cache, leader, queue, changes>> /\ changed' \subseteq Watched
        BY <1>9 DEF OnConfigChanged
      <3>4. \A m \in Watched : storages'[m] \in Configs[m] \cup {None}
        BY <3>1, <3>2
      <3>5. storages' = [m \in Watched |-> storages'[m]]
        BY <3>2
      <3>6. resync' \in Todo
        BY <3>2 DEF Todo
      <3> QED BY <3>2, <3>3, <3>4, <3>5, <3>6
    <2>2. CASE ~ Stores(n)
      BY <1>9, <2>2 DEF OnConfigChanged, Boots
    <2> QED BY <2>1, <2>2
  <1>10. ASSUME NEW n \in Watched, ChangeConfigMap(n)
         PROVE  TypeOK' /\ Functions'
    <2>1. PICK c \in ConfigMaps[n] : configMap' = [configMap EXCEPT ![n] = c]
      BY <1>10 DEF ChangeConfigMap
    <2>2. (\A m \in Watched : configMap'[m] \in ConfigMaps[m])
          /\ configMap' = [m \in Watched |-> configMap'[m]]
      BY <2>1
    <2> QED BY <1>10, <2>2 DEF ChangeConfigMap
  <1>11. ASSUME NEW k \in Keys, EnqueueForResync(k)
         PROVE  TypeOK' /\ Functions'
    <2>1. resync.todo \ {k} \in SUBSET Keys
      BY DEF Todo
    <2>2. resync' \in Todo
      BY <1>11, <2>1, ListingType DEF EnqueueForResync
    <2> QED BY <1>11, <2>2 DEF EnqueueForResync, Enqueue
  <1>12. ASSUME NEW k \in Keys, EnqueueForPromotion(k)
         PROVE  TypeOK' /\ Functions'
    <2>1. promotion.todo \ {k} \in SUBSET Keys
      BY DEF Todo
    <2>2. promotion' \in Todo
      BY <1>12, <2>1, ListingType DEF EnqueueForPromotion
    <2> QED BY <1>12, <2>2 DEF EnqueueForPromotion, Enqueue
  <1>13. ASSUME NEW k \in Keys, RetryFires(k)
         PROVE  TypeOK' /\ Functions'
    BY <1>13 DEF RetryFires, Enqueue
  <1>14. ASSUME NEW k \in Keys, Observe(k)
         PROVE  TypeOK' /\ Functions'
    BY <1>14 DEF Observe
  <1>15. ASSUME NEW k \in Keys, Handle(k)
         PROVE  TypeOK' /\ Functions'
    BY <1>15 DEF Handle, Enqueue
  <1>16. ASSUME NEW k \in Keys, ChangePA(k)
         PROVE  TypeOK' /\ Functions'
    <2>1. PICK p \in {None} \cup [class: {"hpa", "kpa"}, version: {changes + 1}] :
            pa' = [pa EXCEPT ![k] = p]
      BY <1>16 DEF ChangePA
    <2>2. p \in PAs \cup {None}
      BY DEF PAs
    <2>3. pa' \in [Keys -> PAs \cup {None}]
      BY <2>1, <2>2
    <2> QED BY <1>16, <2>3 DEF ChangePA
  <1>17. ASSUME NEW w \in Workers, Reconciles(w)
         PROVE  TypeOK' /\ Functions'
    <2>1. PICK s : ReconcileStep(w, s)
      BY <1>17, Reconciling
    <2>2. /\ worker' \in [Workers -> Workings] /\ retry' \subseteq Keys /\ due' = due
          /\ changes' \in 0 .. MaxChanges
          /\ UNCHANGED <<ha, boot, configMap, changed, storages, resync, pa, store, events,
                         leading, promotion>>
      BY <2>1, WorksOn DEF ReconcileStep
    <2>3. applied' = [k \in Keys |-> applied'[k]]
      BY <2>1 DEF ReconcileStep
    <2> QED BY <2>2, <2>3
  <1>18. ASSUME NEW w \in Workers, NEW k \in Keys, Start(w, k)
         PROVE  TypeOK' /\ Functions'
    <2>1. PICK s \in Workings : Works(w, s)
      BY <1>18, Starting
    <2>2. /\ worker' \in [Workers -> Workings]
          /\ UNCHANGED <<ha, boot, configMap, changed, storages, resync, pa, store, events,
                         leading, promotion>>
      BY <2>1, WorksOn
    <2> QED BY <1>18, <2>2 DEF Start
  <1> QED BY <1>1, <1>2, <1>3, <1>4, <1>5, <1>6, <1>7, <1>8, <1>9, <1>10, <1>11, <1>12, <1>13,
             <1>14, <1>15, <1>16, <1>17, <1>18 DEF Next

\* Every step keeps the order of the start, the lists and what workers have.
LEMMA Shaped ==
  ASSUME IInv, Next
  PROVE  Early' /\ Lists' /\ OneEach' /\ NoRunUnconfigured'
  <1> DEFINE Shape == Early /\ Lists /\ OneEach /\ NoRunUnconfigured
  <1> USE DEF IInv, Early, Lists, OneEach, NoRunUnconfigured, process, cache, leader, queue
  <1>1. CASE NewController
    BY <1>1 DEF NewController
  <1>2. CASE StartInformers
    BY <1>2 DEF StartInformers, Configured
  <1>3. CASE RunContext
    BY <1>3 DEF RunContext
  <1>4. CASE ShutDown
    BY <1>4 DEF ShutDown
  <1>5. CASE ListForResync
    BY <1>5, ListingType DEF ListForResync, Quiet
  <1>6. CASE ListForPromotion
    BY <1>6, ListingType DEF ListForPromotion
  <1>7. CASE Promote
    BY <1>7 DEF Promote
  <1>8. CASE Demote
    BY <1>8 DEF Demote
  <1>9. ASSUME NEW n \in Watched, OnConfigChanged(n)
        PROVE  Shape'
    <2>1. CASE Stores(n)
      <3>1. Construct(n, configMap[n]) # None
        BY <2>1, Constructed DEF Stores, TypeOK
      <3>2. /\ boot' = boot /\ resync' = [pc |-> "list", todo |-> {}]
            /\ storages' = [storages EXCEPT ![n] = Construct(n, configMap[n])]
        BY <1>9, <2>1 DEF OnConfigChanged
      <3>3. \A m \in Watched : storages[m] # None => storages'[m] # None
        BY <3>1, <3>2 DEF Functions
      <3> QED BY <1>9, <3>2, <3>3 DEF OnConfigChanged
    <2>2. CASE ~ Stores(n)
      BY <1>9, <2>2 DEF OnConfigChanged
    <2> QED BY <2>1, <2>2
  <1>10. ASSUME NEW n \in Watched, ChangeConfigMap(n)
         PROVE  Shape'
    BY <1>10 DEF ChangeConfigMap
  <1>11. ASSUME NEW k \in Keys, EnqueueForResync(k)
         PROVE  Shape'
    <2>1. resync.todo \ {k} \in SUBSET Keys
      BY DEF TypeOK, Todo
    <2>2. resync'.todo # {} => resync'.pc = "enqueue"
      BY <1>11, <2>1, ListingType DEF EnqueueForResync
    <2> QED BY <1>11, <2>2 DEF EnqueueForResync
  <1>12. ASSUME NEW k \in Keys, EnqueueForPromotion(k)
         PROVE  Shape'
    <2>1. promotion.todo \ {k} \in SUBSET Keys
      BY DEF TypeOK, Todo
    <2>2. promotion'.todo # {} => promotion'.pc = "enqueue"
      BY <1>12, <2>1, ListingType DEF EnqueueForPromotion
    <2> QED BY <1>12, <2>2 DEF EnqueueForPromotion
  <1>13. ASSUME NEW k \in Keys, RetryFires(k)
         PROVE  Shape'
    BY <1>13 DEF RetryFires
  <1>14. ASSUME NEW k \in Keys, Observe(k)
         PROVE  Shape'
    BY <1>14 DEF Observe
  <1>15. ASSUME NEW k \in Keys, Handle(k)
         PROVE  Shape'
    BY <1>15 DEF Handle
  <1>16. ASSUME NEW k \in Keys, ChangePA(k)
         PROVE  Shape'
    BY <1>16 DEF ChangePA
  <1>17. ASSUME NEW w \in Workers, Reconciles(w)
         PROVE  Shape'
    <2>1. PICK s : ReconcileStep(w, s)
      BY <1>17, Reconciling
    <2>2. /\ worker'[w] = s /\ \A v \in Workers \ {w} : worker'[v] = worker[v]
          /\ UNCHANGED <<boot, storages, resync, store, promotion>>
      BY <2>1, WorksOn DEF ReconcileStep
    <2>3. /\ worker[w].key \in Keys /\ worker[w] # Idle
          /\ s = Idle \/ (s # Idle /\ s.key = worker[w].key)
      BY <2>1, IdleFields, ControllerAssumption DEF ReconcileStep, Reads
    <2>4. Early' /\ Lists' /\ NoRunUnconfigured'
      BY <2>2, <2>3
    <2>5. OneEach'
      BY <2>2, <2>3, IdleFields
    <2> QED BY <2>4, <2>5
  <1>18. ASSUME NEW w \in Workers, NEW k \in Keys, Start(w, k)
         PROVE  Shape'
    <2>1. PICK s \in Workings : Works(w, s) /\ s.key = k
      BY <1>18, Starting
    <2>2. /\ worker'[w] = s /\ \A v \in Workers \ {w} : worker'[v] = worker[v]
          /\ UNCHANGED <<boot, storages, resync, store, promotion>>
      BY <2>1, WorksOn
    <2>3. boot \in {"running", "stopping"} /\ \A v \in Workers : worker[v].key # k
      BY <1>18 DEF Start
    <2>4. Early' /\ Lists' /\ NoRunUnconfigured'
      BY <2>2, <2>3
    <2>5. OneEach'
      BY <2>1, <2>2, <2>3
    <2> QED BY <2>4, <2>5
  <1> QED BY <1>1, <1>2, <1>3, <1>4, <1>5, <1>6, <1>7, <1>8, <1>9, <1>10, <1>11, <1>12, <1>13,
             <1>14, <1>15, <1>16, <1>17, <1>18 DEF Next

\* A PA stays attended to if nothing it depends on changes, but for more runs to come.
LEMMA AttendedStill ==
  ASSUME NEW k \in Keys, Attended(k), UNCHANGED <<storages, worker, applied>>,
         store'[k] = store[k], Pending(k) => Pending(k)'
  PROVE  Attended(k)'
  <1>1. ASSUME NEW w \in Workers, worker[w].key = k, IsCurrent(w)
        PROVE  worker'[w].key = k /\ IsCurrent(w)'
    BY <1>1 DEF IsCurrent
  <1>2. UpToDate(k) => UpToDate(k)'
    BY DEF UpToDate
  <1> QED BY <1>1, <1>2 DEF Attended

\* So do all of them.
LEMMA AllStill ==
  ASSUME IInv, UNCHANGED <<storages, worker, applied, store>>, InForce' => InForce,
         InForce' => \A k \in Keys : Pending(k) => Pending(k)'
  PROVE  NoneLost'
  <1>1. ASSUME NEW k \in Keys, InForce', OnlyHPAClass(store'[k])
        PROVE  Attended(k)'
    <2>1. Attended(k)
      BY <1>1 DEF IInv, NoneLost
    <2> QED BY <1>1, <2>1, AttendedStill
  <1> QED BY <1>1 DEF NoneLost

\* Every step leaves every PA attended to.
LEMMA Attends ==
  ASSUME IInv, Next
  PROVE  NoneLost'
  <1> USE DEF process, cache, leader, queue
  <1>1. CASE NewController
    BY <1>1 DEF NewController, NoneLost, InForce
  <1>2. CASE StartInformers
    BY <1>2 DEF StartInformers, IInv, Early, NoneLost
  <1>3. CASE RunContext
    <2>1. InForce /\ \A k \in Keys : Pending(k) => Pending(k)'
      BY <1>3 DEF RunContext, InForce, Pending
    <2> QED BY <1>3, <2>1, AllStill DEF RunContext
  <1>4. CASE ShutDown
    BY <1>4 DEF ShutDown, NoneLost, InForce
  <1>5. CASE ListForResync
    <2>1. ASSUME NEW k \in Keys, InForce', OnlyHPAClass(store'[k])
          PROVE  Pending(k)'
      <3>1. boot # "stopping" /\ store' = store
        BY <1>5, <2>1 DEF ListForResync, InForce
      <3>2. resync'.todo = {j \in Keys : OnlyHPAClass(store[j])}
        BY <1>5, <3>1, ListingType DEF ListForResync
      <3> QED BY <2>1, <3>1, <3>2 DEF Pending
    <2> QED BY <2>1 DEF NoneLost, Attended
  <1>6. CASE ListForPromotion
    <2>1. ASSUME NEW k \in Keys, OnlyHPAClass(store'[k])
          PROVE  Pending(k)'
      <3>1. promotion'.todo = {j \in Keys : store[j] # None} /\ store' = store
        BY <1>6, ListingType DEF ListForPromotion
      <3> QED BY <2>1, <3>1 DEF Pending, OnlyHPAClass
    <2> QED BY <2>1 DEF NoneLost, Attended
  <1>7. CASE Promote
    BY <1>7 DEF Promote, NoneLost, Attended, Pending
  <1>8. CASE Demote
    <2>1. InForce' => InForce
      BY <1>8 DEF Demote, InForce
    <2>2. \A k \in Keys : Pending(k) => Pending(k)'
      BY <1>8 DEF Demote, Pending
    <2> QED BY <1>8, <2>1, <2>2, AllStill DEF Demote
  <1>9. ASSUME NEW n \in Watched, OnConfigChanged(n)
        PROVE  NoneLost'
    <2>1. CASE Stores(n)
      <3>1. resync'.pc = "list"
        BY <1>9, <2>1 DEF OnConfigChanged
      <3> QED BY <3>1 DEF NoneLost, Attended, Pending
    <2>2. CASE ~ Stores(n)
      <3>1. InForce' => boot' = boot
        BY <1>9, <2>2 DEF OnConfigChanged, InForce
      <3>2. (InForce' => InForce) /\ \A k \in Keys : Pending(k) => Pending(k)'
        BY <1>9, <2>2, <3>1 DEF OnConfigChanged, Pending, InForce
      <3> QED BY <1>9, <2>2, <3>2, AllStill DEF OnConfigChanged
    <2> QED BY <2>1, <2>2
  <1>10. ASSUME NEW n \in Watched, ChangeConfigMap(n)
         PROVE  NoneLost'
    <2>1. (InForce' => InForce) /\ \A k \in Keys : Pending(k) => Pending(k)'
      BY <1>10 DEF ChangeConfigMap, Pending, InForce
    <2> QED BY <1>10, <2>1, AllStill DEF ChangeConfigMap
  <1>11. ASSUME NEW k \in Keys, EnqueueForResync(k)
         PROVE  NoneLost'
    <2>1. /\ resync.pc = "enqueue" /\ resync.todo \ {k} \in SUBSET Keys
      BY <1>11 DEF EnqueueForResync, IInv, Lists, TypeOK, Todo
    <2>2. resync'.todo = resync.todo \ {k}
      BY <1>11, <2>1, ListingType DEF EnqueueForResync
    <2>3. UNCHANGED <<boot, leading, storages, store, worker, applied, retry, events, promotion>>
      BY <1>11 DEF EnqueueForResync
    <2>4. (InForce' => InForce) /\ (InForce' => due' = due \cup {k})
      BY <1>11, <2>3 DEF EnqueueForResync, Enqueue, InForce
    <2>5. InForce' => \A j \in Keys : Pending(j) => Pending(j)'
      BY <2>1, <2>2, <2>3, <2>4 DEF Pending
    <2> QED BY <2>3, <2>4, <2>5, AllStill
  <1>12. ASSUME NEW k \in Keys, EnqueueForPromotion(k)
         PROVE  NoneLost'
    <2>1. promotion.pc = "enqueue" /\ promotion.todo \ {k} \in SUBSET Keys
      BY <1>12 DEF EnqueueForPromotion, IInv, Lists, TypeOK, Todo
    <2>2. promotion'.todo = promotion.todo \ {k}
      BY <1>12, <2>1, ListingType DEF EnqueueForPromotion
    <2>3. UNCHANGED <<boot, leading, storages, store, worker, applied, retry, events, resync>>
      BY <1>12 DEF EnqueueForPromotion
    <2>4. (InForce' => InForce) /\ (InForce' => due' = due \cup {k})
      BY <1>12, <2>3 DEF EnqueueForPromotion, Enqueue, InForce
    <2>5. InForce' => \A j \in Keys : Pending(j) => Pending(j)'
      BY <2>1, <2>2, <2>3, <2>4 DEF Pending
    <2> QED BY <2>3, <2>4, <2>5, AllStill
  <1>13. ASSUME NEW k \in Keys, RetryFires(k)
         PROVE  NoneLost'
    <2>1. UNCHANGED <<boot, leading, storages, store, worker, applied, events, resync, promotion>>
      BY <1>13 DEF RetryFires
    <2>2. (InForce' => InForce) /\ (InForce' => due' = due \cup {k}) /\ retry' = retry \ {k}
      BY <1>13, <2>1 DEF RetryFires, Enqueue, InForce
    <2>3. InForce' => \A j \in Keys : Pending(j) => Pending(j)'
      BY <2>1, <2>2 DEF Pending
    <2> QED BY <2>1, <2>2, <2>3, AllStill
  <1>14. ASSUME NEW k \in Keys, Observe(k)
         PROVE  NoneLost'
    <2>1. /\ UNCHANGED <<boot, leading, storages, worker, applied, due, retry, resync, promotion>>
          /\ store' = [store EXCEPT ![k] = pa[k]] /\ events \subseteq events'
      BY <1>14 DEF Observe
    <2>2. ASSUME NEW j \in Keys, InForce', OnlyHPAClass(store'[j]), j # k
          PROVE  Attended(j)'
      <3>1. Attended(j) /\ store'[j] = store[j]
        BY <2>1, <2>2 DEF IInv, TypeOK, NoneLost, InForce
      <3>2. Pending(j) => Pending(j)'
        BY <2>1 DEF Pending
      <3> QED BY <2>1, <3>1, <3>2, AttendedStill
    <2>3. ASSUME OnlyHPAClass(store'[k])
          PROVE  Pending(k)'
      <3>1. OnlyHPAClass(pa[k])
        BY <2>1, <2>3 DEF IInv, TypeOK
      <3> QED BY <1>14, <3>1 DEF Observe, Pending
    <2> QED BY <2>2, <2>3 DEF NoneLost, Attended
  <1>15. ASSUME NEW k \in Keys, Handle(k)
         PROVE  NoneLost'
    <2>1. UNCHANGED <<boot, leading, storages, store, worker, applied, retry, resync, promotion>>
      BY <1>15 DEF Handle
    <2>2. (InForce' => InForce) /\ (InForce' => due' = due \cup {k}) /\ events' = events \ {k}
      BY <1>15, <2>1 DEF Handle, Enqueue, InForce
    <2>3. InForce' => \A j \in Keys : Pending(j) => Pending(j)'
      BY <2>1, <2>2 DEF Pending
    <2> QED BY <2>1, <2>2, <2>3, AllStill
  <1>16. ASSUME NEW k \in Keys, ChangePA(k)
         PROVE  NoneLost'
    <2>1. (InForce' => InForce) /\ \A j \in Keys : Pending(j) => Pending(j)'
      BY <1>16 DEF ChangePA, Pending, InForce
    <2> QED BY <1>16, <2>1, AllStill DEF ChangePA
  <1>17. ASSUME NEW w \in Workers, Reconciles(w)
         PROVE  NoneLost'
    <2>1. PICK s : ReconcileStep(w, s)
      BY <1>17, Reconciling
    <2>0. PICK k \in Keys : k = worker[w].key
      BY <2>1 DEF ReconcileStep
    <2>2. /\ worker'[w] = s /\ \A v \in Workers \ {w} : worker'[v] = worker[v]
          /\ UNCHANGED <<boot, storages, resync, store, events, leading, promotion>>
      BY <2>1, WorksOn DEF ReconcileStep, IInv
    <2>3. /\ worker[w].key = k /\ k # None /\ s.key \in {k, None} /\ due' = due
          /\ retry \subseteq retry'
          /\ \A v \in Workers \ {w} : worker[v].key # k
      BY <2>1, <2>0, IdleFields, ControllerAssumption DEF ReconcileStep, Reads, IInv, OneEach
    <2>4. \A j \in Keys : Pending(j) => Pending(j)'
      BY <2>2, <2>3 DEF Pending
    <2>5. ASSUME NEW j \in Keys, InForce', OnlyHPAClass(store'[j]), j # k
          PROVE  Attended(j)'
      <3>1. Attended(j) /\ applied'[j] = applied[j]
        BY <2>1, <2>2, <2>3, <2>5 DEF IInv, NoneLost, InForce, ReconcileStep, Functions
      <3>2. s.key # j
        BY <2>3, <2>5, ControllerAssumption
      <3>3. ASSUME NEW v \in Workers, worker[v].key = j, IsCurrent(v)
            PROVE  worker'[v].key = j /\ IsCurrent(v)'
        <4>1. worker'[v] = worker[v]
          BY <2>2, <2>3, <2>5, <3>3
        <4> QED BY <2>2, <3>3, <4>1 DEF IsCurrent
      <3>4. ASSUME UpToDate(j), \A v \in Workers : worker[v].key # j
            PROVE  UpToDate(j)' /\ \A v \in Workers : worker'[v].key # j
        BY <2>2, <3>1, <3>2, <3>4 DEF UpToDate
      <3> QED BY <2>4, <3>1, <3>3, <3>4 DEF Attended
    <2>6. ASSUME InForce', OnlyHPAClass(store'[k]), ~ Pending(k)'
          PROVE  Attended(k)'
      <3>1. Attended(k) /\ ~ Pending(k)
        BY <2>2, <2>3, <2>4, <2>6 DEF IInv, NoneLost, InForce
      <3>2. IsCurrent(w)
        BY <2>3, <3>1 DEF Attended
      <3>3. CASE s # Idle
        <4>1. Reads(w, s) /\ worker'[w].key = k
          BY <2>1, <2>2, <2>3, <3>3 DEF ReconcileStep, Reads
        <4>2. IsCurrent(w)'
          BY <2>2, <2>3, <3>2, <4>1 DEF IsCurrent, Reads
        <4> QED BY <4>1, <4>2 DEF Attended
      <3>4. CASE s = Idle
        <4>1. worker[w] # Idle
          BY <2>3, IdleFields
        <4>2. boot = "running" /\ leading
          BY <2>2, <2>6, <4>1 DEF InForce, IInv, Early
        <4>3. k \notin retry'
          BY <2>6 DEF Pending
        <4>4. worker[w].pc = "reconcile" /\ applied' = [applied EXCEPT ![k] = Read(w)]
          BY <2>1, <2>2, <2>3, <2>6, <3>4, <4>2, <4>3 DEF ReconcileStep, Drops
        <4>5. applied'[k] = Read(w)
          BY <2>3, <4>4 DEF IInv, Functions
        <4>6. UpToDate(k)'
          BY <2>2, <2>3, <3>2, <4>4, <4>5 DEF UpToDate, IsCurrent, Read
        <4>7. \A v \in Workers : worker'[v].key # k
          BY <2>2, <2>3, <3>4, IdleFields
        <4> QED BY <4>6, <4>7 DEF Attended
      <3> QED BY <3>3, <3>4
    <2> QED BY <2>5, <2>6 DEF NoneLost, Attended
  <1>18. ASSUME NEW w \in Workers, NEW k \in Keys, Start(w, k)
         PROVE  NoneLost'
    <2>1. PICK s \in Workings : Works(w, s) /\ s.key = k /\ s.pc = "leader"
      BY <1>18, Starting
    <2>2. /\ worker'[w] = s /\ \A v \in Workers \ {w} : worker'[v] = worker[v]
          /\ UNCHANGED <<boot, storages, resync, store, events, leading, promotion>>
      BY <2>1, WorksOn DEF IInv
    <2>3. /\ due \subseteq due' \cup {k} /\ UNCHANGED <<retry, applied>> /\ worker[w] = Idle
      BY <1>18 DEF Start
    <2>4. Attended(k)'
      BY <2>1, <2>2 DEF Attended, IsCurrent
    <2>5. ASSUME NEW j \in Keys, InForce', OnlyHPAClass(store'[j]), j # k
          PROVE  Attended(j)'
      <3>1. Attended(j)
        BY <2>2, <2>5 DEF IInv, NoneLost, InForce
      <3>2. Pending(j) => Pending(j)'
        BY <2>2, <2>3, <2>5 DEF Pending
      <3>3. ASSUME NEW v \in Workers, worker[v].key = j, IsCurrent(v)
            PROVE  worker'[v].key = j /\ IsCurrent(v)'
        <4>1. worker'[v] = worker[v]
          BY <2>2, <2>3, <3>3, IdleFields, ControllerAssumption
        <4> QED BY <2>2, <3>3, <4>1 DEF IsCurrent
      <3>4. ASSUME UpToDate(j), \A v \in Workers : worker[v].key # j
            PROVE  UpToDate(j)' /\ \A v \in Workers : worker'[v].key # j
        BY <2>1, <2>2, <2>3, <2>5, <3>4 DEF UpToDate
      <3> QED BY <3>1, <3>2, <3>3, <3>4 DEF Attended
    <2> QED BY <2>4, <2>5 DEF NoneLost
  <1> QED BY <1>1, <1>2, <1>3, <1>4, <1>5, <1>6, <1>7, <1>8, <1>9, <1>10, <1>11, <1>12, <1>13,
             <1>14, <1>15, <1>16, <1>17, <1>18 DEF Next

-------------------------------------------------------------------------------
(* The versions of a PA that are around. *)

NotAfter(p, q) == p # None /\ q # None => p.version <= q.version

\* No copy is from the future, and none is newer than what is at the API server.
Copy(k, p) == p # None => p.version <= changes /\ NotAfter(p, pa[k])

\* What a run has read was in the store, which only moves on.
Past(k, p) == p \in PAs /\ p # None /\ Copy(k, p) /\ NotAfter(p, store[k])

AgesOf(k) ==
  /\ Copy(k, pa[k]) /\ Copy(k, store[k])
  /\ applied[k] # None => Past(k, applied[k].pa)
  /\ \A w \in Workers : worker[w].key = k /\ worker[w].pc = "reconcile" =>
       /\ Past(k, worker[w].pa)
       /\ applied[k] # None => applied[k].pa.version <= worker[w].pa.version

Ages == \A k \in Keys : AgesOf(k)

\* A step concerns the environment of the runs, a PA, a run that goes on, or one that starts.
LEMMA Aside ==
  ASSUME IInv, Next
  PROVE  \/ /\ UNCHANGED <<pa, store, worker, applied>> /\ changes' \in {changes, changes + 1}
            /\ due' = due \/ \E k \in Keys : due' = due \cup {k}
         \/ \E k \in Keys : Observe(k) \/ ChangePA(k)
         \/ \E w \in Workers : Reconciles(w) \/ \E k \in Keys : Start(w, k)
  <1> DEFINE Apart == /\ UNCHANGED <<pa, store, worker, applied>> /\ changes' \in {changes, changes + 1}
                      /\ due' = due \/ \E k \in Keys : due' = due \cup {k}
  <1> USE DEF process, cache, leader, queue
  <1>1. CASE NewController \/ StartInformers \/ RunContext \/ ShutDown
    BY <1>1 DEF NewController, StartInformers, RunContext, ShutDown
  <1>2. CASE ListForResync \/ ListForPromotion \/ Promote \/ Demote
    BY <1>2 DEF ListForResync, ListForPromotion, Promote, Demote
  <1>3. ASSUME NEW n \in Watched, OnConfigChanged(n) \/ ChangeConfigMap(n)
        PROVE  Apart
    BY <1>3 DEF OnConfigChanged, ChangeConfigMap
  <1>4. ASSUME NEW k \in Keys,
               EnqueueForResync(k) \/ EnqueueForPromotion(k) \/ RetryFires(k) \/ Handle(k)
        PROVE  Apart
    <2>1. Enqueue(k) /\ UNCHANGED <<pa, store, worker, applied, changes>>
      BY <1>4 DEF EnqueueForResync, EnqueueForPromotion, RetryFires, Handle
    <2> QED BY <2>1 DEF Enqueue
  <1> QED BY <1>1, <1>2, <1>3, <1>4 DEF Next

\* Versions stay in order while no PA, store or run changes.
LEMMA AgesStill ==
  ASSUME IInv, Ages, UNCHANGED <<pa, store, worker, applied>>, changes' \in {changes, changes + 1}
  PROVE  Ages'
  <1>1. /\ pa \in [Keys -> PAs \cup {None}] /\ store \in [Keys -> PAs \cup {None}]
        /\ changes \in Nat
    BY ControllerAssumption DEF IInv, TypeOK
  <1>2. ASSUME NEW k \in Keys, NEW p \in PAs \cup {None}, Copy(k, p) PROVE Copy(k, p)'
    BY <1>1, <1>2 DEF Copy, NotAfter, PAs
  <1>3. ASSUME NEW k \in Keys, NEW p, Past(k, p) PROVE Past(k, p)'
    BY <1>2, <1>3 DEF Past, NotAfter
  <1>4. ASSUME NEW k \in Keys PROVE AgesOf(k)'
    <2>1. AgesOf(k) /\ pa[k] \in PAs \cup {None} /\ store[k] \in PAs \cup {None}
      BY <1>1 DEF Ages
    <2>2. Copy(k, pa[k])' /\ Copy(k, store[k])'
      BY <1>2, <2>1 DEF AgesOf
    <2> QED BY <1>3, <2>1, <2>2 DEF AgesOf
  <1> QED BY <1>4 DEF Ages

\* An edit makes a version newer than all copies.
LEMMA AgesChange ==
  ASSUME IInv, Ages, NEW x \in Keys, ChangePA(x)
  PROVE  Ages'
  <1>1. /\ pa \in [Keys -> PAs \cup {None}] /\ store \in [Keys -> PAs \cup {None}]
        /\ changes \in Nat /\ changes' = changes + 1
        /\ UNCHANGED <<store, worker, applied>>
    BY ControllerAssumption DEF IInv, TypeOK, ChangePA, queue
  <1>2. PICK q \in {None} \cup [class: {"hpa", "kpa"}, version: {changes + 1}] :
          pa' = [pa EXCEPT ![x] = q]
    BY DEF ChangePA
  <1>3. ASSUME NEW k \in Keys, NEW p \in PAs \cup {None}, Copy(k, p) PROVE Copy(k, p)'
    <2>1. p # None => p.version <= changes /\ p.version \in Nat
      BY <1>3 DEF Copy, PAs
    <2>2. CASE k = x
      <3>1. pa'[k] = q /\ (q # None => q.version = changes + 1)
        BY <1>1, <1>2, <2>2
      <3> QED BY <1>1, <2>1, <3>1 DEF Copy, NotAfter
    <2>3. CASE k # x
      <3>1. pa'[k] = pa[k]
        BY <1>1, <1>2, <2>3
      <3> QED BY <1>1, <1>3, <2>1, <3>1 DEF Copy, NotAfter
    <2> QED BY <2>2, <2>3
  <1>4. ASSUME NEW k \in Keys, NEW p, Past(k, p) PROVE Past(k, p)'
    BY <1>1, <1>3, <1>4 DEF Past, NotAfter
  <1>5. ASSUME NEW k \in Keys PROVE AgesOf(k)'
    <2>1. AgesOf(k) /\ pa[k] \in PAs \cup {None} /\ store[k] \in PAs \cup {None}
      BY <1>1 DEF Ages
    <2>2. Copy(k, store[k])'
      BY <1>1, <1>3, <2>1 DEF AgesOf
    <2>3. Copy(k, pa[k])'
      <3>1. CASE k = x
        <4>1. pa'[k] = q /\ (q # None => q.version = changes + 1)
          BY <1>1, <1>2, <3>1
        <4> QED BY <1>1, <4>1 DEF Copy, NotAfter
      <3>2. CASE k # x
        <4>1. pa'[k] = pa[k]
          BY <1>1, <1>2, <3>2
        <4> QED BY <1>3, <2>1, <4>1 DEF AgesOf
      <3> QED BY <3>1, <3>2
    <2> QED BY <1>1, <1>4, <2>1, <2>2, <2>3 DEF AgesOf
  <1> QED BY <1>5 DEF Ages

\* The informer brings the store what no copy is newer than.
LEMMA AgesObserve ==
  ASSUME IInv, Ages, NEW x \in Keys, Observe(x)
  PROVE  Ages'
  <1>1. /\ pa \in [Keys -> PAs \cup {None}] /\ store \in [Keys -> PAs \cup {None}]
        /\ changes \in Nat /\ store' = [store EXCEPT ![x] = pa[x]]
        /\ UNCHANGED <<pa, worker, applied, changes>>
    BY ControllerAssumption DEF IInv, TypeOK, Observe, queue
  <1>2. ASSUME NEW k \in Keys, NEW p, Copy(k, p) PROVE Copy(k, p)'
    BY <1>1, <1>2 DEF Copy, NotAfter
  <1>3. ASSUME NEW k \in Keys, NEW p, Past(k, p) PROVE Past(k, p)'
    <2>1. store'[k] \in {store[k], pa[k]}
      BY <1>1
    <2>2. NotAfter(p, store'[k])
      BY <1>3, <2>1 DEF Past, Copy, NotAfter
    <2> QED BY <1>2, <1>3, <2>2 DEF Past, NotAfter
  <1>4. ASSUME NEW k \in Keys PROVE AgesOf(k)'
    <2>1. AgesOf(k) /\ store'[k] \in {store[k], pa[k]}
      BY <1>1 DEF Ages
    <2>2. Copy(k, pa[k])' /\ Copy(k, store[k])'
      BY <1>1, <1>2, <2>1 DEF AgesOf
    <2> QED BY <1>1, <1>3, <2>1, <2>2 DEF AgesOf
  <1> QED BY <1>4 DEF Ages

\* A run reads the store, which is not older than what earlier runs have applied, and no
\* other run has its key when it applies that.
LEMMA AgesReconcile ==
  ASSUME IInv, Ages, NEW w \in Workers, Reconciles(w)
  PROVE  Ages'
  <1>1. PICK s : ReconcileStep(w, s)
    BY Reconciling
  <1>2. /\ worker'[w] = s /\ \A v \in Workers \ {w} : worker'[v] = worker[v]
        /\ UNCHANGED <<pa, store>> /\ worker[w] \in Workings /\ worker[w].key \in Keys
        /\ changes \in Nat /\ changes' \in Nat /\ changes <= changes'
        /\ pa \in [Keys -> PAs \cup {None}] /\ store \in [Keys -> PAs \cup {None}]
    BY <1>1, WorksOn, ControllerAssumption DEF ReconcileStep, IInv, TypeOK
  <1>3. ASSUME NEW k \in Keys, NEW p \in PAs \cup {None}, Copy(k, p) PROVE Copy(k, p)'
    BY <1>2, <1>3 DEF Copy, NotAfter, PAs
  <1>4. ASSUME NEW k \in Keys, NEW p, Past(k, p) PROVE Past(k, p)'
    BY <1>2, <1>3, <1>4 DEF Past, NotAfter
  <1>5. ASSUME NEW k \in Keys, k # worker[w].key PROVE AgesOf(k)'
    <2>1. AgesOf(k) /\ pa[k] \in PAs \cup {None} /\ store[k] \in PAs \cup {None}
      BY <1>2 DEF Ages
    <2>2. Copy(k, pa[k])' /\ Copy(k, store[k])'
      BY <1>2, <1>3, <2>1 DEF AgesOf
    <2>3. applied'[k] = applied[k]
      BY <1>1, <1>5 DEF ReconcileStep, IInv, Functions
    <2>4. s.key # k
      BY <1>1, <1>5, IdleFields, ControllerAssumption DEF ReconcileStep, Reads
    <2>5. ASSUME NEW v \in Workers, worker'[v].key = k
          PROVE  worker'[v] = worker[v]
      BY <1>2, <2>4, <2>5
    <2> QED BY <1>4, <2>1, <2>2, <2>3, <2>5 DEF AgesOf
  <1>6. ASSUME NEW k \in Keys, k = worker[w].key PROVE AgesOf(k)'
    <2>1. AgesOf(k) /\ pa[k] \in PAs \cup {None} /\ store[k] \in PAs \cup {None}
      BY <1>2 DEF Ages
    <2>2. Copy(k, pa[k])' /\ Copy(k, store[k])'
      BY <1>2, <1>3, <2>1 DEF AgesOf
    <2>3. \A v \in Workers \ {w} : worker'[v].key # k
      BY <1>2, <1>6, ControllerAssumption DEF IInv, OneEach
    <2>4. CASE s = Idle
      <3>1. \A v \in Workers : worker'[v].key # k
        BY <1>2, <2>3, <2>4, IdleFields, ControllerAssumption
      <3>2. applied'[k] # None => Past(k, applied'[k].pa)
        <4>1. CASE applied' = applied
          BY <2>1, <4>1 DEF AgesOf
        <4>2. CASE worker[w].pc = "reconcile" /\ applied' = [applied EXCEPT ![worker[w].key] = Read(w)]
          <5>1. applied'[k] = Read(w)
            BY <1>6, <4>2 DEF IInv, Functions
          <5>2. applied'[k].pa = worker[w].pa
            BY <5>1 DEF Read
          <5> QED BY <1>6, <2>1, <4>2, <5>2 DEF AgesOf
        <4> QED BY <1>1, <4>1, <4>2 DEF ReconcileStep
      <3>3. ASSUME applied'[k] # None PROVE Past(k, applied[k].pa)'
        BY <1>2, <1>3, <3>2, <3>3 DEF Past, NotAfter
      <3> QED BY <2>2, <3>1, <3>3 DEF AgesOf
    <2>5. CASE s # Idle
      <3>1. Reads(w, s) /\ applied' = applied
        BY <1>1, <2>5 DEF ReconcileStep
      <3>2. ASSUME applied[k] # None PROVE Past(k, applied[k].pa)'
        BY <1>4, <2>1, <3>1, <3>2 DEF AgesOf
      <3>3. ASSUME s.pc = "reconcile"
            PROVE  Past(k, s.pa) /\ (applied[k] # None => applied[k].pa.version <= s.pa.version)
        <4>1. CASE s.pa = worker[w].pa /\ worker[w].pc = "reconcile"
          BY <1>6, <2>1, <4>1 DEF AgesOf
        <4>2. CASE s.pa = store[s.key] /\ OnlyHPAClass(store[s.key])
          <5>1. s.pa = store[k] /\ store[k] # None
            BY <1>6, <3>1, <4>2 DEF Reads, OnlyHPAClass
          <5>2. s.pa.version \in Nat /\ Past(k, s.pa)
            BY <2>1, <5>1 DEF AgesOf, Past, NotAfter, PAs
          <5>3. applied[k] # None => applied[k].pa # None /\ NotAfter(applied[k].pa, s.pa)
            BY <2>1, <5>1 DEF AgesOf, Past
          <5>4. applied[k] # None => applied[k].pa.version <= s.pa.version
            BY <5>1, <5>3, ControllerAssumption DEF NotAfter
          <5> QED BY <5>2, <5>4
        <4> QED BY <3>1, <3>3, <4>1, <4>2 DEF Reads
      <3>4. ASSUME s.pc = "reconcile" PROVE Past(k, s.pa)'
        BY <1>2, <1>3, <3>3, <3>4 DEF Past, NotAfter
      <3> QED BY <1>2, <2>2, <2>3, <3>1, <3>2, <3>3, <3>4 DEF AgesOf
    <2> QED BY <2>4, <2>5
  <1> QED BY <1>5, <1>6 DEF Ages

\* A run that starts has read nothing yet.
LEMMA AgesStart ==
  ASSUME IInv, Ages, NEW w \in Workers, NEW x \in Keys, Start(w, x)
  PROVE  Ages'
  <1>1. PICK s \in Workings : Works(w, s) /\ s.key = x /\ s.pc = "leader"
    BY Starting
  <1>2. /\ worker'[w] = s /\ \A v \in Workers \ {w} : worker'[v] = worker[v]
        /\ UNCHANGED <<pa, store, applied, changes>>
    BY <1>1, WorksOn DEF IInv, Start
  <1>3. ASSUME NEW k \in Keys PROVE AgesOf(k)'
    <2>1. AgesOf(k)
      BY DEF Ages
    <2>2. ASSUME NEW v \in Workers, worker'[v].pc = "reconcile" PROVE worker'[v] = worker[v]
      BY <1>1, <1>2, <2>2
    <2> QED BY <1>2, <2>1, <2>2 DEF AgesOf, Copy, Past, NotAfter
  <1> QED BY <1>3 DEF Ages

-------------------------------------------------------------------------------
(* Theorems *)

\* So the invariant holds throughout.
LEMMA IInvHolds == Spec => []IInv
  <1>1. Init => IInv
    <2>1. ASSUME Init PROVE TypeOK /\ Functions
      <3>1. /\ [class |-> "hpa", version |-> 0] \in PAs /\ Quiet \in Todo
            /\ worker \in [Workers -> Workings] /\ 0 \in 0 .. MaxChanges
        BY <2>1, IdleFields, ControllerAssumption DEF Init, PAs, Quiet, Todo
      <3>2. pa \in [Keys -> PAs \cup {None}] /\ store \in [Keys -> PAs \cup {None}]
        BY <2>1, <3>1 DEF Init
      <3>3. Functions /\ \A n \in Watched : storages[n] = None
        BY <2>1 DEF Init, Functions
      <3>4. /\ ha \in BOOLEAN /\ boot \in Boots /\ leading \in BOOLEAN
            /\ \A n \in Watched : configMap[n] \in ConfigMaps[n]
            /\ changed = {} /\ events = {} /\ due = {} /\ retry = {}
            /\ resync = Quiet /\ promotion = Quiet /\ changes = 0
        BY <2>1, Zenon DEF Init, Boots
      <3> QED BY <3>1, <3>2, <3>3, <3>4 DEF TypeOK
    <2>2. ASSUME Init PROVE Early /\ Lists /\ OneEach /\ NoRunUnconfigured /\ NoneLost
      BY <2>2, IdleFields
         DEF Init, Early, Lists, OneEach, NoRunUnconfigured, NoneLost, InForce, Quiet, OnlyHPAClass
    <2> QED BY <2>1, <2>2 DEF IInv
  <1>2. IInv /\ [Next]_vars => IInv'
    <2>1. CASE Next
      BY <2>1, Typed, Shaped, Attends DEF IInv
    <2>2. ASSUME IInv, UNCHANGED vars
          PROVE  IInv'
      <3>1. TypeOK' /\ Functions' /\ Early' /\ Lists' /\ OneEach' /\ NoRunUnconfigured'
        BY <2>2 DEF IInv, vars, process, cache, leader, queue, TypeOK, Functions, Early, Lists,
                    OneEach, NoRunUnconfigured
      <3>2. (InForce' => InForce) /\ \A k \in Keys : Pending(k) => Pending(k)'
        BY <2>2 DEF vars, process, cache, leader, queue, InForce, Pending
      <3>3. NoneLost'
        BY <2>2, <3>2, AllStill DEF vars, process, cache, leader, queue
      <3> QED BY <3>1, <3>3 DEF IInv
    <2> QED BY <2>1, <2>2
  <1> QED BY <1>1, <1>2, PTL DEF Spec

\* Every state of a process is well formed: the ConfigMaps, their configurations, the
\* keys and the places of the workers.
THEOREM TypeOKHolds == Spec => []TypeOK
  BY IInvHolds, PTL DEF IInv

\* No run of a worker is ever without both configurations: Load does not panic.
THEOREM NoRunUnconfiguredHolds == Spec => []NoRunUnconfigured
  BY IInvHolds, PTL DEF IInv

\* While a process leads, a PA of its class was last reconciled as it is, with the
\* configuration in force, or there is a run of it to come.
THEOREM NoLostWakeupHolds == Spec => []NoLostWakeup
  <1>1. ASSUME IInv PROVE NoLostWakeup
    BY <1>1 DEF IInv, NoneLost, InForce, Attended, Pending, NoLostWakeup, ToCome
  <1> QED BY <1>1, IInvHolds, PTL

\* What is around of a PA is never newer than what has replaced it.
LEMMA AgesHold == Spec => []Ages
  <1>1. ASSUME Init PROVE Ages
    <2>1. /\ \A k \in Keys : pa[k] = None \/ pa[k] = [class |-> "hpa", version |-> 0]
          /\ \A k \in Keys : store[k] = None /\ applied[k] = None
          /\ \A w \in Workers : worker[w] = Idle
          /\ changes = 0
      BY <1>1 DEF Init
    <2>2. ASSUME NEW k \in Keys PROVE AgesOf(k)
      <3>1. Copy(k, pa[k]) /\ Copy(k, store[k])
        BY <2>1 DEF Copy, NotAfter
      <3> QED BY <2>1, <3>1, IdleFields DEF AgesOf
    <2> QED BY <2>2 DEF Ages
  <1>2. IInv /\ Ages /\ [Next]_vars => Ages'
    <2> SUFFICES ASSUME IInv, Ages, [Next]_vars PROVE Ages'
      OBVIOUS
    <2>1. CASE Next
      BY <2>1, Aside, AgesStill, AgesChange, AgesObserve, AgesReconcile, AgesStart
    <2>2. CASE UNCHANGED vars
      <3>1. UNCHANGED <<pa, store, worker, applied, changes>>
        BY <2>2 DEF vars, cache, queue
      <3> QED BY <3>1, AgesStill
    <2> QED BY <2>1, <2>2
  <1> QED BY <1>1, <1>2, IInvHolds, PTL DEF Spec

\* What was done for a PA is never undone by a run that has read an older version of it,
\* whichever worker runs it and whenever its key is added again.
THEOREM NeverBackToOlderHolds == Spec => NeverBackToOlder
  <1> DEFINE Forward ==
        \A k \in Keys : applied[k] # None => applied'[k].pa.version >= applied[k].pa.version
  <1>1. IInv /\ Ages /\ [Next]_vars => [Forward]_vars
    <2> SUFFICES ASSUME IInv, Ages, Next PROVE Forward
      OBVIOUS
    <2>1. ASSUME NEW k \in Keys, applied[k] # None
          PROVE  applied[k].pa.version \in Nat
      BY <2>1 DEF Ages, AgesOf, Past, PAs
    <2>2. CASE applied' = applied
      BY <2>1, <2>2
    <2>3. ASSUME NEW w \in Workers, Reconciles(w)
          PROVE  Forward
      <3>1. PICK s : ReconcileStep(w, s)
        BY <2>3, Reconciling
      <3>2. CASE worker[w].pc = "reconcile" /\ applied' = [applied EXCEPT ![worker[w].key] = Read(w)]
        <4> SUFFICES ASSUME NEW k \in Keys, applied[k] # None
                     PROVE  applied'[k].pa.version >= applied[k].pa.version
          OBVIOUS
        <4>1. CASE k = worker[w].key
          <5>1. applied'[k] = Read(w)
            BY <3>2, <4>1 DEF IInv, Functions
          <5>2. applied'[k].pa = worker[w].pa
            BY <5>1 DEF Read
          <5>3. applied[k].pa.version <= worker[w].pa.version /\ worker[w].pa.version \in Nat
            BY <3>2, <4>1 DEF Ages, AgesOf, Past, PAs
          <5> QED BY <2>1, <5>2, <5>3
        <4>2. CASE k # worker[w].key
          <5>1. applied'[k] = applied[k]
            BY <3>2, <4>2 DEF IInv, Functions
          <5> QED BY <2>1, <5>1
        <4> QED BY <4>1, <4>2
      <3> QED BY <2>2, <3>1, <3>2 DEF ReconcileStep
    <2>4. ASSUME NEW k \in Keys, Observe(k) \/ ChangePA(k)
          PROVE  applied' = applied
      BY <2>4 DEF Observe, ChangePA, queue
    <2>5. ASSUME NEW w \in Workers, NEW k \in Keys, Start(w, k)
          PROVE  applied' = applied
      BY <2>5 DEF Start
    <2> QED BY <2>2, <2>3, <2>4, <2>5, Aside
  <1> QED BY <1>1, IInvHolds, AgesHold, PTL DEF Spec, NeverBackToOlder

\* The runs of a process are those of one queue of keys, however keys get into it: a key
\* leaves it only to be run, and no two workers have the same.
THEOREM ImplementsKeyedWorkHolds == Spec => ImplementsKeyedWork
  <1> DEFINE running == [w \in Workers |-> worker[w].key]
             ANext   == [Abstract!Next]_<<due, running>>
  <1>1. Init => Abstract!Init
    <2> SUFFICES ASSUME Init PROVE due = {} /\ running = [w \in Workers |-> None]
      BY DEF Abstract!Init
    <2>1. \A w \in Workers : worker[w].key = None
      BY IdleFields DEF Init
    <2> QED BY <2>1 DEF Init
  <1>2. IInv /\ [Next]_vars => ANext
    <2> SUFFICES ASSUME IInv, [Next]_vars PROVE ANext
      OBVIOUS
    <2>1. CASE /\ worker' = worker
               /\ due' = due \/ \E k \in Keys : due' = due \cup {k}
      BY <2>1 DEF Abstract!Next, Abstract!Ask
    <2>2. ASSUME NEW w \in Workers, Reconciles(w)
          PROVE  ANext
      <3>1. PICK s : ReconcileStep(w, s)
        BY <2>2, Reconciling
      <3>2. /\ worker'[w] = s /\ \A v \in Workers \ {w} : worker'[v] = worker[v]
            /\ due' = due /\ worker[w].key \in Keys
        BY <3>1, WorksOn DEF ReconcileStep, IInv
      <3>3. CASE s = Idle
        <4>1. running' = [running EXCEPT ![w] = None]
          BY <3>2, <3>3, IdleFields
        <4>2. running[w] # None
          BY <3>2, ControllerAssumption
        <4>3. Abstract!Finish(w)
          BY <3>2, <4>1, <4>2 DEF Abstract!Finish
        <4> QED BY <4>3 DEF Abstract!Next
      <3>4. CASE s # Idle
        <4>1. s.key = worker[w].key
          BY <3>1, <3>4 DEF ReconcileStep, Reads
        <4>2. \A v \in Workers : worker'[v].key = worker[v].key
          BY <3>2, <4>1
        <4> QED BY <3>2, <4>2
      <3> QED BY <3>3, <3>4
    <2>3. ASSUME NEW w \in Workers, NEW k \in Keys, Start(w, k)
          PROVE  ANext
      <3>1. PICK s \in Workings : Works(w, s) /\ s.key = k
        BY <2>3, Starting
      <3>2. worker'[w] = s /\ \A v \in Workers \ {w} : worker'[v] = worker[v]
        BY <3>1, WorksOn DEF IInv
      <3>3. /\ k \in due /\ due' \in {due, due \ {k}} /\ running[w] = None
            /\ \A v \in Workers : running[v] # k
        BY <2>3, IdleFields DEF Start
      <3>4. running' = [running EXCEPT ![w] = k]
        BY <3>1, <3>2
      <3>5. Abstract!Start(w, k)
        BY <3>3, <3>4 DEF Abstract!Start
      <3> QED BY <3>5 DEF Abstract!Next
    <2>4. ASSUME NEW k \in Keys, Observe(k) \/ ChangePA(k)
          PROVE  worker' = worker /\ due' = due
      BY <2>4 DEF Observe, ChangePA, queue
    <2>5. CASE UNCHANGED vars
      BY <2>1, <2>5 DEF vars, queue
    <2> QED BY <2>1, <2>2, <2>3, <2>4, <2>5, Aside
  <1> QED BY <1>1, <1>2, IInvHolds, PTL DEF Spec, ImplementsKeyedWork, Abstract!Spec
===============================================================================
