---------------------------- MODULE KedaReconciler ----------------------------
(***************************************************************************)
(* One PodAutoscaler (PA) of the hpa class and everything that acts on it: *)
(* the autoscaler-keda reconciler, its informer caches and work queue, and *)
(* KEDA, the HPA controller, the ServerlessService (SKS) controller, the   *)
(* revision that owns the PA and users, who all act through the API server.*)
(*                                                                         *)
(* Every API object is kept as the log of its versions: the last entry is  *)
(* what the API server holds, the position of an entry is its resource     *)
(* version, and NoObject is a deletion.  A cache is a position in that     *)
(* log; informers move it forward one version at a time, each at its own   *)
(* pace.  What the reconciler holds is a position too, so an update is     *)
(* accepted exactly when the version held is still the last one.           *)
(***************************************************************************)
EXTENDS Integers, Sequences

CONSTANTS
  Specs, StartSpecs,      \* the specs (and annotations) the PA may get, and start with
  SOStarts, SKSStarts,    \* the SOs and SKSs that may exist beforehand
  ForeignSOs, ForeignSKSs,   \* the SOs and SKSs others may create
  MaxReplicas,            \* bound: largest replica count of an HPA
  DefaultInitialScale, AllowZeroInitialScale,   \* config-autoscaler
  AutoCreateDefault,      \* config-autoscaler-keda: create SOs by default
  MaxAttempts,            \* attempts of one status update (5 in the code)
  MaxLag,                 \* bound: versions the others may run ahead of a cache
  MaxEvents,              \* bound: disturbances in a behaviour
  Events                  \* the kinds of disturbance that may happen

Unspecified == -1         \* an absent initial-scale annotation, a nil scale
NoObject    == [owner |-> "none"]

PodDependents == {"Active", "ScaleTargetInitialized", "SKSReady"}
Cond == INSTANCE Conditions WITH Dependents <- PodDependents

Replicas    == 0 .. MaxReplicas
OptReplicas == {Unspecified} \cup Replicas

SpecType   == [reachable: BOOLEAN, minScale: Replicas, initial: OptReplicas,
               autoCreate: {"true", "false", "bad", "absent"}, cpu: BOOLEAN, valid: BOOLEAN]
StatusType == [observed: Nat, conds: [Cond!Types -> Cond!Statuses],
               why: {"", "NotOwned", "FailedCreate"},
               scale: OptReplicas \X OptReplicas,
               service: BOOLEAN]
PAType     == [generation: Nat, spec: SpecType, status: StatusType]
SOType     == [owner: {"pa", "other"}, min: Replicas, routed: BOOLEAN] \cup {NoObject}
HPAType    == [owner: {"keda"}, min: Replicas, desired: Replicas, current: Replicas,
               routed: BOOLEAN] \cup {NoObject}
SKSType    == [owner: {"pa", "other"}, mode: {"Serve", "Proxy"},
               phase: {"new", "named", "ready"}] \cup {NoObject}

ASSUME ConstantsAssumption ==
  /\ Specs \subseteq SpecType /\ StartSpecs \subseteq Specs
  /\ SOStarts \subseteq SOType /\ ForeignSOs \subseteq SOType
  /\ SKSStarts \subseteq SKSType /\ ForeignSKSs \subseteq SKSType
  /\ NoObject \notin ForeignSOs \cup ForeignSKSs
  /\ MaxReplicas \in Nat \ {0}
  /\ DefaultInitialScale \in Replicas
  /\ AllowZeroInitialScale \in BOOLEAN /\ AutoCreateDefault \in BOOLEAN
  /\ MaxAttempts \in Nat \ {0} /\ MaxLag \in Nat \ {0} /\ MaxEvents \in Nat

VARIABLES
  paLog, soLog, hpaLog, sksLog,   \* versions of each object at the API server
  seen,     \* kind -> the version its informer cache holds
  dirty,    \* the PA's key waits in the work queue (or must be run again)
  retry,    \* a rate-limited re-add of the key is pending
  pc,       \* the step the worker that holds the key is at
  held,     \* kind -> the version the worker read; 0 is nil
  status,   \* the worker's working copy of the PA status
  attempt,  \* attempts made at writing it
  failed,   \* ReconcileKind returned an error
  left      \* disturbances still to come

api    == <<paLog, soLog, hpaLog, sksLog>>
queue  == <<dirty, retry>>
worker == <<pc, held, status, attempt, failed>>
vars   == <<api, seen, queue, worker, left>>

Log == [pa |-> paLog, so |-> soLog, hpa |-> hpaLog, sks |-> sksLog]

Kinds == {"pa", "so", "hpa", "sks"}
Steps == {"idle", "readSO", "createSO", "updateSO", "readHPA", "readSKS", "createSKS",
          "updateSKS", "writeStatus", "refetch"}

Current(log) == log[Len(log)]
Exists(obj)  == obj # NoObject
IntMax(a, b) == IF a < b THEN b ELSE a

\* metav1.IsControlledBy
ControlledByAny(obj) == Exists(obj)            \* mutant
ControlledByPA(obj)  == obj.owner = "pa"

-------------------------------------------------------------------------------
(* What the reconciler derives from a PA and from the configuration. *)

ScaleMin(spec) == IF spec.reachable THEN spec.minScale ELSE 0

\* MinReplicaCount of the desired SO; 0 stands for a nil pointer.
DesiredMin(spec) ==
  IF ScaleMin(spec) > 0 THEN ScaleMin(spec) ELSE IF spec.cpu THEN 1 ELSE 0

ShouldCreateScaledObject(spec) ==
  IF spec.autoCreate \in {"true", "false"} THEN spec.autoCreate = "true" ELSE AutoCreateDefault

InitialScale(spec) ==
  IF spec.initial = Unspecified \/ (spec.initial = 0 /\ ~ AllowZeroInitialScale)
  THEN DefaultInitialScale
  ELSE spec.initial

\* The scale a target that is not initialized yet has to reach.
ActiveThreshold(spec) == IntMax(ScaleMin(spec), InitialScale(spec))

Initialized(st) == st.conds["ScaleTargetInitialized"] = "True"

FreshStatus == [observed |-> 0, conds |-> Cond!AllUnset, why |-> "",
                scale |-> <<Unspecified, Unspecified>>, service |-> FALSE]

\* PreProcessReconcile
PreProcess(pa) ==
  LET conds == Cond!InitializeConditions(pa.status.conds) IN
  [pa.status EXCEPT !.conds = IF pa.status.observed # pa.generation
                              THEN Cond!MarkUnknown(conds, Cond!Happy)
                              ELSE conds]

\* Mutants: the two reasons mixed up; the condition left undecided.
MarkNotOwned(st, reason)   == [st EXCEPT !.conds = Cond!MarkFalse(@, "Active"), !.why = "NotOwned"]
MarkActivating(st, reason) == [st EXCEPT !.conds = Cond!MarkUnknown(@, "Active"), !.why = reason]

MarkInactive(st, reason) ==
  [st EXCEPT !.conds = Cond!MarkFalse(@, "Active"), !.why = reason]

\* The service name is published whatever the readiness.
WithService(st, sks) == [st EXCEPT !.service = sks.phase # "new"]

\* The HPA has reached the scale the target has to reach; the mutant takes the
\* desired for the current replicas.
WantsEnough(hpa, spec) == hpa.desired >= ActiveThreshold(spec)
HasEnough(hpa, spec)   == hpa.current >= ActiveThreshold(spec)

\* The SKS half of ReconcileKind's last part: publish the service, mark SKSReady,
\* and initialize the scale target once the HPA has reached the threshold.
WithSKS(st, spec, sks, hpa) ==
  LET named == WithService(st, sks)
      ready == [named EXCEPT !.conds = Cond!MarkTrue(@, "SKSReady")]
  IN  IF sks.phase # "ready"
      THEN [named EXCEPT !.conds = Cond!MarkUnknown(@, "SKSReady")]
      ELSE IF ~ Initialized(st) /\ HasEnough(hpa, spec)
           THEN [ready EXCEPT !.conds = Cond!MarkTrue(@, "ScaleTargetInitialized")]
           ELSE ready

\* Mutants: the scale is not published, or only the first time.
ActivateUnscaled(st, hpa) == [st EXCEPT !.conds = Cond!MarkTrue(@, "Active"), !.why = ""]

ActivateOnce(st, hpa) ==
  [st EXCEPT !.conds = Cond!MarkTrue(@, "Active"), !.why = "",
             !.scale = IF @ = FreshStatus.scale THEN <<hpa.desired, hpa.current>> ELSE @]

\* The rest of ReconcileKind: mark Active and publish the HPA's scale.
Activate(st, hpa) ==
  [st EXCEPT !.conds = Cond!MarkTrue(@, "Active"), !.why = "",
             !.scale = <<hpa.desired, hpa.current>>]

-------------------------------------------------------------------------------
PA  == paLog[held["pa"]]       \* the version being reconciled
HPA == hpaLog[held["hpa"]]

Init ==
  /\ \E spec \in StartSpecs :
       paLog = << [generation |-> 1, spec |-> spec, status |-> FreshStatus] >>
  /\ \E so \in SOStarts : soLog = <<so>>
  /\ hpaLog = <<NoObject>>
  /\ \E sks \in SKSStarts : sksLog = <<sks>>
  /\ seen = [k \in Kinds |-> 1]
  /\ dirty = TRUE /\ retry = FALSE
  /\ pc = "idle" /\ held = [k \in Kinds |-> 0]
  /\ status = FreshStatus /\ attempt = 0 /\ failed = FALSE
  /\ left = MaxEvents

Disturb(kind) == kind \in Events /\ left > 0 /\ left' = left - 1

Goto(step) == pc' = step

ReturnUnobserved(st, err) ==       \* mutant: an error un-observes the generation
  /\ status' = [st EXCEPT !.observed = IF err THEN 0 ELSE PA.generation]
  /\ failed' = err /\ attempt' = 0
  /\ Goto("writeStatus")

\* The end of ReconcileKind: PostProcessReconcile bumps the observed generation,
\* and the status is written unless the cached one already says the same.
Return(st, err) ==
  /\ status' = [st EXCEPT !.observed = PA.generation]
  /\ failed' = err
  /\ attempt' = 0
  /\ Goto("writeStatus")

Continue(step) ==
  /\ Goto(step)
  /\ UNCHANGED <<status, attempt, failed>>

DoneAnyway(err) ==                 \* mutant: an error is forgotten like a success
  /\ pc' = "idle" /\ held' = [k \in Kinds |-> 0]
  /\ status' = FreshStatus /\ attempt' = 0 /\ failed' = FALSE
  /\ retry' = retry

\* The worker is done with the key: Forget on success, AddRateLimited on error.
Done(err) ==
  /\ pc' = "idle" /\ held' = [k \in Kinds |-> 0]
  /\ status' = FreshStatus /\ attempt' = 0 /\ failed' = FALSE
  /\ retry' = (retry \/ err)

Take ==
  /\ pc = "idle" /\ dirty
  /\ dirty' = FALSE
  /\ held' = [held EXCEPT !["pa"] = seen["pa"]]
  /\ LET pa == paLog[seen["pa"]] IN
       IF ~ ShouldCreateScaledObject(pa.spec)
       THEN status' = PreProcess(pa) /\ Goto("readHPA") /\ UNCHANGED <<attempt, failed>>
       ELSE IF pa.spec.valid
            THEN status' = PreProcess(pa) /\ Goto("readSO") /\ UNCHANGED <<attempt, failed>>
            ELSE /\ status' = [PreProcess(pa) EXCEPT !.observed = pa.generation]
                 /\ failed' = TRUE /\ attempt' = 0 /\ Goto("writeStatus")
  /\ UNCHANGED <<api, seen, retry, left>>

ReadSO ==
  LET so == soLog[seen["so"]] IN
  /\ pc = "readSO"
  /\ IF ~ Exists(so)
     THEN Continue("createSO") /\ UNCHANGED held
     ELSE IF ~ ControlledByPA(so)
     THEN Return(MarkInactive(status, "NotOwned"), TRUE) /\ UNCHANGED held
     ELSE /\ held' = [held EXCEPT !["so"] = seen["so"]]
          /\ Continue(IF so.min = DesiredMin(PA.spec) THEN "readHPA" ELSE "updateSO")
  /\ UNCHANGED <<api, seen, queue, left>>

\* The SO as the reconciler wants it.  Its HPA is named after the PA and inherits
\* the class annotation, so the HPA's events find their way back.
DesiredScaledObject == [owner |-> "pa", min |-> DesiredMin(PA.spec), routed |-> TRUE]

\* What the API server does with the four writes, when it accepts them.
SOCreated ==
  /\ ~ Exists(Current(soLog))
  /\ soLog' = Append(soLog, DesiredScaledObject)
  /\ UNCHANGED <<paLog, hpaLog, sksLog>>

SOUpdated ==
  /\ held["so"] = Len(soLog)
  /\ soLog' = Append(soLog, [Current(soLog) EXCEPT !.min = DesiredMin(PA.spec)])
  /\ UNCHANGED <<paLog, hpaLog, sksLog>>

NewSKS == [owner |-> "pa", mode |-> "Serve", phase |-> "new"]

SKSCreated ==
  /\ ~ Exists(Current(sksLog))
  /\ sksLog' = Append(sksLog, NewSKS)
  /\ UNCHANGED <<paLog, soLog, hpaLog>>

\* A new generation of the SKS is not ready until its controller has observed it.
ServeSKS(sks) == [sks EXCEPT !.mode = "Serve", !.phase = IF @ = "ready" THEN "named" ELSE @]

SKSUpdated ==
  /\ held["sks"] = Len(sksLog)
  /\ sksLog' = Append(sksLog, ServeSKS(Current(sksLog)))
  /\ UNCHANGED <<paLog, soLog, hpaLog>>

\* Only the status of the version held is replaced.
StatusUpdated ==
  /\ held["pa"] = Len(paLog)
  /\ paLog' = Append(paLog, [PA EXCEPT !.status = status])
  /\ UNCHANGED <<soLog, hpaLog, sksLog>>

\* The Create returns the created object, which becomes scaledObj.
CreateSO ==
  /\ pc = "createSO"
  /\ \/ /\ SOCreated
        /\ held' = [held EXCEPT !["so"] = Len(soLog) + 1]
        /\ Continue("readHPA")
     \/ /\ Exists(Current(soLog))                       \* AlreadyExists
        /\ Return(MarkInactive(status, "FailedCreate"), TRUE)
        /\ UNCHANGED <<api, held>>
  /\ UNCHANGED <<seen, queue, left>>

UpdateLatestSO ==        \* mutant: an update without the version that was checked
  /\ pc = "updateSO" /\ Exists(Current(soLog))
  /\ soLog' = Append(soLog, [Current(soLog) EXCEPT !.min = DesiredMin(PA.spec)])
  /\ Continue("readHPA")
  /\ UNCHANGED <<paLog, hpaLog, sksLog, seen, queue, held, left>>

\* The object the Update returns is dropped: scaledObj stays the cached version.
UpdateSO ==
  /\ pc = "updateSO"
  /\ \/ SOUpdated /\ Continue("readHPA")
     \/ held["so"] # Len(soLog) /\ Return(status, TRUE) /\ UNCHANGED api
  /\ UNCHANGED <<seen, queue, held, left>>

\* An HPA below the minimum of scaledObj is not configured properly yet.
AtMostMinimum(hpa) ==              \* mutant: off by one
  held["so"] # 0 /\ hpa.desired <= soLog[held["so"]].min

BelowMinimum(hpa) == held["so"] # 0 /\ hpa.desired < soLog[held["so"]].min

ReadHPA ==
  LET hpa == hpaLog[seen["hpa"]] IN
  /\ pc = "readHPA"
  /\ IF ~ Exists(hpa) \/ BelowMinimum(hpa)
     THEN Return(status, FALSE) /\ UNCHANGED held
     ELSE held' = [held EXCEPT !["hpa"] = seen["hpa"]] /\ Continue("readSKS")
  /\ UNCHANGED <<api, seen, queue, left>>

FinishWith(sks) == Return(Activate(WithSKS(status, PA.spec, sks, HPA), HPA), FALSE)

\* ReconcileSKS
ReadSKS ==
  LET sks == sksLog[seen["sks"]] IN
  /\ pc = "readSKS"
  /\ \/ ~ Exists(sks) /\ Continue("createSKS") /\ UNCHANGED held
     \/ /\ Exists(sks) /\ ~ ControlledByPA(sks)
        /\ Return(MarkInactive(status, "NotOwned"), TRUE)
        /\ UNCHANGED held
     \/ /\ Exists(sks) /\ ControlledByPA(sks)
        /\ held' = [held EXCEPT !["sks"] = seen["sks"]]
        /\ IF sks.mode = "Serve" THEN FinishWith(sks) ELSE Continue("updateSKS")
  /\ UNCHANGED <<api, seen, queue, left>>

\* After a Create the object built locally, without a status, is used further on.
CreateSKS ==
  /\ pc = "createSKS"
  /\ \/ SKSCreated /\ FinishWith(NewSKS)
     \/ Exists(Current(sksLog)) /\ Return(status, TRUE) /\ UNCHANGED api
  /\ UNCHANGED <<seen, queue, held, left>>

UpdateSKS ==
  /\ pc = "updateSKS"
  /\ \/ SKSUpdated /\ FinishWith(ServeSKS(Current(sksLog)))
     \/ held["sks"] # Len(sksLog) /\ Return(status, TRUE) /\ UNCHANGED api
  /\ UNCHANGED <<seen, queue, held, left>>

\* equality.Semantic.DeepEqual of the two statuses; the mutant never looks.
AlwaysChanged   == FALSE
StatusUnchanged == PA.status = status

\* Whether RetryUpdateConflicts goes round once more; the mutant is off by one.
MayRetryOnceMore == attempt < MaxAttempts
MayRetry         == attempt + 1 < MaxAttempts

\* updateStatus: nothing to do, a write, or a conflict.  The version held is the
\* cached one at first, and what a GET returned after a conflict.
WriteStatus ==
  /\ pc = "writeStatus"
  /\ \/ StatusUnchanged /\ Done(failed) /\ UNCHANGED api
     \/ ~ StatusUnchanged /\ StatusUpdated /\ Done(failed)
     \/ /\ ~ StatusUnchanged /\ held["pa"] # Len(paLog)
        /\ IF MayRetry
           THEN /\ attempt' = attempt + 1
                /\ Goto("refetch")
                /\ UNCHANGED <<held, status, failed, retry>>
           ELSE Done(TRUE)
        /\ UNCHANGED api
  /\ UNCHANGED <<seen, dirty, left>>

Refetch ==
  /\ pc = "refetch"
  /\ held' = [held EXCEPT !["pa"] = Len(paLog)]
  /\ Goto("writeStatus")
  /\ UNCHANGED <<api, seen, queue, status, attempt, failed, left>>

\* A call that fails for a reason of its own, before or after it took effect: a
\* timeout, a rejection, a reply lost on the way back.
CallFails ==
  /\ Disturb("fault")
  /\ \/ pc = "createSO" /\ (SOCreated \/ UNCHANGED api)
        /\ Return(MarkInactive(status, "FailedCreate"), TRUE) /\ UNCHANGED <<held, retry>>
     \/ /\ \/ pc = "updateSO" /\ (SOUpdated \/ UNCHANGED api)
           \/ pc = "createSKS" /\ (SKSCreated \/ UNCHANGED api)
           \/ pc = "updateSKS" /\ (SKSUpdated \/ UNCHANGED api)
        /\ Return(status, TRUE) /\ UNCHANGED <<held, retry>>
     \/ /\ \/ pc = "writeStatus" /\ ~ StatusUnchanged /\ (StatusUpdated \/ UNCHANGED api)
           \/ pc = "refetch" /\ UNCHANGED api
        /\ Done(TRUE)
  /\ UNCHANGED <<seen, dirty>>

-------------------------------------------------------------------------------
(* The controller around the worker: informers, queue, restarts. *)

\* An informer applies the next version and calls its handler.  PA and SKS events
\* enqueue the PA, an HPA event only if the SO that generated the HPA is named
\* after the PA and the HPA carries the class annotation; SOs have no handler.
Deliver(k) ==
  LET log     == Log[k]
      change  == {log[seen[k]], log[seen[k] + 1]}
      handled == CASE k = "pa"  -> TRUE
                   [] k = "so"  -> FALSE
                   [] k = "hpa" -> \E o \in change : Exists(o) /\ o.routed
                   [] k = "sks" -> \E o \in change : o.owner = "pa"
  IN
  /\ seen[k] < Len(log)
  /\ seen' = [seen EXCEPT ![k] = @ + 1]
  /\ dirty' = (dirty \/ handled)
  /\ UNCHANGED <<api, retry, worker, left>>

\* The delay of a rate-limited re-add is over.  A key added while it is being
\* processed runs again afterwards, so adding it between two runs is all there is.
RetryFires ==
  /\ pc = "idle" /\ retry /\ retry' = FALSE /\ dirty' = TRUE
  /\ UNCHANGED <<api, seen, worker, left>>

\* The PA informer's periodic resync, or the global resync on a config change.
Resync ==
  /\ pc = "idle" /\ ~ dirty /\ dirty' = TRUE
  /\ UNCHANGED <<api, seen, retry, worker, left>>

\* The process dies and a new one lists everything before its worker starts.
Restart ==
  /\ Disturb("restart")
  /\ pc' = "idle" /\ held' = [k \in Kinds |-> 0]
  /\ status' = FreshStatus /\ attempt' = 0 /\ failed' = FALSE
  /\ retry' = FALSE /\ dirty' = TRUE
  /\ seen' = [pa |-> Len(paLog), so |-> Len(soLog), hpa |-> Len(hpaLog), sks |-> Len(sksLog)]
  /\ UNCHANGED api

-------------------------------------------------------------------------------
(* The other parties at the API server. *)

Controller == <<seen, queue, worker>>

\* The pace of the other controllers: they wait for a cache that lags MaxLag behind.
Room(k) == Len(Log[k]) - seen[k] < MaxLag

\* The revision changes reachability (a new generation), or someone changes an
\* annotation (no new generation).
ChangePA ==
  /\ Disturb("spec")
  /\ LET pa == Current(paLog) IN
     \E spec \in Specs \ {pa.spec} :
       paLog' = Append(paLog, [pa EXCEPT !.spec = spec,
         !.generation = IF spec.reachable = pa.spec.reachable THEN @ ELSE @ + 1])
  /\ UNCHANGED <<soLog, hpaLog, sksLog, Controller>>

\* Users edit the SO, delete it, or put one of their own in its place.
UserSO ==
  /\ LET so == Current(soLog) IN
       \/ /\ Disturb("soEdit") /\ so.owner = "pa"
          /\ \E m \in Replicas \ {so.min} : soLog' = Append(soLog, [so EXCEPT !.min = m])
       \/ /\ Disturb("soDelete") /\ Exists(so)
          /\ soLog' = Append(soLog, NoObject)
       \/ /\ Disturb("soForeign") /\ ~ Exists(so)
          /\ \E own \in ForeignSOs : soLog' = Append(soLog, own)
  /\ UNCHANGED <<paLog, hpaLog, sksLog, Controller>>

\* KEDA keeps the HPA's minimum at the SO's (at least 1), and the HPA goes with
\* the SO that owns it.  A new HPA has no status yet.
KedaMin(so) == IntMax(so.min, 1)

Keda ==
  /\ Room("hpa")
  /\ LET so == Current(soLog)  hpa == Current(hpaLog) IN
       \/ /\ Exists(so) /\ ~ Exists(hpa)
          /\ hpaLog' = Append(hpaLog, [owner |-> "keda", min |-> KedaMin(so),
                                       desired |-> 0, current |-> 0, routed |-> so.routed])
       \/ /\ Exists(so) /\ Exists(hpa)
          /\ hpa.min # KedaMin(so) \/ hpa.routed # so.routed
          /\ hpaLog' = Append(hpaLog, [hpa EXCEPT !.min = KedaMin(so), !.routed = so.routed])
       \/ /\ ~ Exists(so) /\ Exists(hpa)
          /\ hpaLog' = Append(hpaLog, NoObject)
  /\ UNCHANGED <<paLog, soLog, sksLog, Controller, left>>

\* The HPA controller raises the desired count to the minimum, and the pods come.
HPASettles ==
  /\ Room("hpa")
  /\ LET hpa == Current(hpaLog)  n == IntMax(hpa.desired, hpa.min) IN
       /\ Exists(hpa)
       /\ hpa.desired # n \/ hpa.current # n
       /\ hpaLog' = Append(hpaLog, [hpa EXCEPT !.desired = n, !.current = n])
  /\ UNCHANGED <<paLog, soLog, sksLog, Controller, left>>

\* Load changes, pods come and go.
HPAMoves ==
  /\ Disturb("load")
  /\ LET hpa == Current(hpaLog) IN
       /\ Exists(hpa)
       /\ \E d \in hpa.min .. MaxReplicas, c \in Replicas :
            /\ <<d, c>> # <<hpa.desired, hpa.current>>
            /\ hpaLog' = Append(hpaLog, [hpa EXCEPT !.desired = d, !.current = c])
  /\ UNCHANGED <<paLog, soLog, sksLog, Controller>>

\* The SKS controller names the services and finds them ready.
SKSProgresses ==
  /\ Room("sks")
  /\ LET sks == Current(sksLog) IN
       /\ Exists(sks) /\ sks.phase # "ready"
       /\ sksLog' = Append(sksLog, [sks EXCEPT !.phase = "ready"])
  /\ UNCHANGED <<paLog, soLog, hpaLog, Controller, left>>

\* The SKS loses its endpoints and keeps its name, somebody deletes it, or puts
\* another one in its place.
SKSBreaks ==
  /\ LET sks == Current(sksLog) IN
       \/ /\ Disturb("sksUnready") /\ sks.owner = "pa" /\ sks.phase = "ready"
          /\ sksLog' = Append(sksLog, [sks EXCEPT !.phase = "named"])
       \/ /\ Disturb("sksDelete") /\ Exists(sks)
          /\ sksLog' = Append(sksLog, NoObject)
       \/ /\ Disturb("sksForeign") /\ ~ Exists(sks)
          /\ \E own \in ForeignSKSs : sksLog' = Append(sksLog, own)
  /\ UNCHANGED <<paLog, soLog, hpaLog, Controller>>

-------------------------------------------------------------------------------
Worker == \/ Take \/ ReadSO \/ CreateSO \/ UpdateSO \/ ReadHPA
          \/ ReadSKS \/ CreateSKS \/ UpdateSKS \/ WriteStatus \/ Refetch

Others == ChangePA \/ UserSO \/ Keda \/ HPASettles \/ HPAMoves \/ SKSProgresses \/ SKSBreaks

Next == \/ Worker \/ CallFails
        \/ \E k \in Kinds : Deliver(k)
        \/ RetryFires \/ Resync \/ Restart
        \/ Others

Spec == Init /\ [][Next]_vars

\* Threads keep running, watches keep delivering, timers fire, informers resync,
\* and the other controllers converge.  Nothing is assumed of users or of load.
Fairness ==
  /\ WF_vars(Worker)
  /\ \A k \in Kinds : WF_vars(Deliver(k))
  /\ WF_vars(RetryFires) /\ WF_vars(Resync)
  /\ WF_vars(Keda) /\ WF_vars(HPASettles) /\ WF_vars(SKSProgresses)

FairSpec == Spec /\ Fairness

-------------------------------------------------------------------------------
TypeOK ==
  /\ paLog \in Seq(PAType) /\ soLog \in Seq(SOType)
  /\ hpaLog \in Seq(HPAType) /\ sksLog \in Seq(SKSType)
  /\ seen \in [Kinds -> Nat] /\ held \in [Kinds -> Nat]
  /\ \A k \in Kinds : seen[k] \in 1 .. Len(Log[k]) /\ held[k] \in 0 .. Len(Log[k])
  /\ dirty \in BOOLEAN /\ retry \in BOOLEAN /\ failed \in BOOLEAN
  /\ pc \in Steps /\ status \in StatusType
  /\ attempt \in 0 .. MaxAttempts - 1 /\ left \in 0 .. MaxEvents

Published == Current(paLog).status
SO  == Current(soLog)
SKS == Current(sksLog)

\* Somebody else's SO keeps the content its owner gave it until it is removed,
\* however stale the cache that the ownership check of ReconcileKind looked at:
\* only the resource version protects what has replaced the SO checked.
ForeignSOUntouched == [][SO.owner = "other" /\ soLog' # soLog => ~ Exists(SO')]_vars

\* The same of somebody else's SKS and the ownership check of ReconcileSKS: its
\* mode stays what its owner asked for, and it keeps its owner.
ForeignSKSUntouched ==
  [][SKS.owner = "other" /\ Exists(SKS') => SKS'.owner = "other" /\ SKS'.mode = SKS.mode]_vars

\* The observed generation never exceeds the generation and never goes back, even
\* though a conflicting status is pushed onto whatever version a GET returns.
ObservedMonotone ==
  [][/\ Published'.observed >= Published.observed
     /\ Published'.observed <= Current(paLog)'.generation]_vars

\* A PA that is Ready has published a service name and a scale, and carries no
\* failure reason, whichever mix of old and new status the writes left behind.
ReadyIsServed ==
  Published.conds["Ready"] = "True" =>
    /\ Published.service /\ Published.why = ""
    /\ Published.scale # FreshStatus.scale

\* ScaleTargetInitialized is earned: some version of the HPA had as many replicas
\* as the initial or minimum scale of some version of the PA asked for, and some
\* version of the PA's own SKS was ready.
InitializedIsEarned ==
  Initialized(Published) =>
    /\ \E i \in DOMAIN hpaLog, j \in DOMAIN paLog :
         Exists(hpaLog[i]) /\ hpaLog[i].current >= ActiveThreshold(paLog[j].spec)
    /\ \E i \in DOMAIN sksLog :
         sksLog[i].owner = "pa" /\ sksLog[i].phase = "ready"

\* NotOwned is no false alarm: somebody else's SO or SKS has really been there.
NotOwnedIsTrue ==
  Published.why = "NotOwned" =>
    \/ \E i \in DOMAIN soLog : soLog[i].owner = "other"
    \/ \E i \in DOMAIN sksLog : sksLog[i].owner = "other"

\* No write is a no-op: the reconciler, woken by its own writes, does not write
\* again what is there already.
EveryWriteChanges ==
  \A k \in {"pa", "so", "sks"} :
    \A i \in 1 .. Len(Log[k]) - 1 : Log[k][i] # Log[k][i + 1]

\* Nothing will run: the key is nowhere, and no event that adds it is on its way.
AtRest == pc = "idle" /\ ~ dirty /\ ~ retry /\ \A k \in Kinds \ {"so"} : seen[k] = Len(Log[k])

\* The HPA finds its way back to the PA, and no version of the SO asked for more than
\* the HPA has come to.
Configured(hpa) ==
  /\ Exists(hpa) /\ hpa.routed
  /\ \A i \in DOMAIN soLog : Exists(soLog[i]) => soLog[i].min <= hpa.desired

Reported(st, spec, hpa, sks) ==
  /\ sks.owner = "pa" /\ sks.mode = "Serve"
  /\ st.conds["Active"] = "True" /\ st.why = "" /\ st.scale = <<hpa.desired, hpa.current>>
  /\ st.service = (sks.phase # "new")
  /\ st.conds["SKSReady"] = "True" <=> sks.phase = "ready"
  /\ sks.phase = "ready" /\ HasEnough(hpa, spec) => st.conds["Ready"] = "True"

\* An SO has been as the spec asks, if the reconciler is to make it.
Applied(spec) ==
  ShouldCreateScaledObject(spec) =>
    /\ spec.valid
    /\ \E i \in DOMAIN soLog : soLog[i].owner = "pa" /\ soLog[i].min = DesiredMin(spec)

\* No wake-up is missed and no write is lost for good: a PA at rest has its generation
\* observed, has had the SO it asks for and, its HPA being configured, has an SKS that
\* serves and a status that reports both as they are, after any calls that failed,
\* conflicts and stale reads.  (That the SO still is as asked cannot be said: its events
\* wake nobody, and a run may have looked at a version that has been replaced.)
RestIsDone ==
  AtRest => /\ Published.observed = Current(paLog).generation
            /\ Applied(Current(paLog).spec)
            /\ Configured(Current(hpaLog)) =>
                 Reported(Published, Current(paLog).spec, Current(hpaLog), SKS)

-------------------------------------------------------------------------------
\* What comments in the code say of a step, and the code does not do.

\* keda_hpa.go:127: an HPA below the minimum "is not configured properly yet" and
\* the reconciler waits; so a run that gets past the check has an HPA at or above
\* the minimum it wants of the SO.
UnconfiguredHPAIsSkipped ==
  pc = "readSKS" /\ ShouldCreateScaledObject(PA.spec) =>
    HPA.desired >= DesiredMin(PA.spec)

\* pa_types.go:104: ScaleTargetInitialized is set when the target "was ready to
\* serve traffic once", so it is never taken back.
InitializedIsSticky == [][Initialized(Published) => Initialized(Published)']_vars

-------------------------------------------------------------------------------
(* What the controller converges to. *)

\* Nothing is in the way of the PA as it is: its annotations yield an SO and the
\* name is free, or creating the SO is left to a user who has done it.
Reconcilable ==
  LET pa == Current(paLog) IN
  /\ SKS.owner # "other"
  /\ IF ShouldCreateScaledObject(pa.spec)
     THEN pa.spec.valid /\ SO.owner # "other"
     ELSE Exists(SO)

\* The SO and the SKS are as the PA's current spec wants them.
ResourcesMatch ==
  LET pa == Current(paLog) IN
  /\ ShouldCreateScaledObject(pa.spec) =>
       SO.owner = "pa" /\ SO.min = DesiredMin(pa.spec)
  /\ SKS.owner = "pa" /\ SKS.mode = "Serve"

\* The status reports the HPA's current scale for the current generation.
StatusMatches ==
  LET pa == Current(paLog)  hpa == Current(hpaLog) IN
  /\ pa.status.observed = pa.generation
  /\ Exists(hpa) /\ pa.status.scale = <<hpa.desired, hpa.current>>
  /\ pa.status.conds["Ready"] = "True"

\* Whatever was lost, delayed, edited or restarted on the way, and whoever
\* creates the SO: once nothing is in the way any more, the resources end up as
\* specified and the status as observed.
Converges == <>[]Reconcilable => <>[](ResourcesMatch /\ StatusMatches)

\* Somebody else's SO that stays in the way is reported for good: Active is False.
ForeignIsReported ==
  <>[](SO.owner = "other" /\ ShouldCreateScaledObject(Current(paLog).spec)
       /\ Current(paLog).spec.valid)
    => <>[](Published.conds["Active"] = "False" /\ Published.why = "NotOwned")
===============================================================================
