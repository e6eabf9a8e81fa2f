------------------------- MODULE KedaReconcilerProofs -------------------------
(***************************************************************************)
(* Safety of the reconciler for every configuration, any number of         *)
(* replicas, attempts and disturbances, and any lag of its caches.         *)
(***************************************************************************)
EXTENDS KedaReconciler, TLAPS

CondsType == [Cond!Types -> Cond!Statuses]

\* The condition algebra keeps the shape of the conditions.
LEMMA CondsTyped ==
  ASSUME NEW c \in CondsType, NEW t \in Cond!Types
  PROVE  /\ Cond!MarkTrue(c, t) \in CondsType
         /\ Cond!MarkFalse(c, t) \in CondsType
         /\ Cond!MarkUnknown(c, t) \in CondsType
         /\ Cond!InitializeConditions(c) \in CondsType
  BY DEF CondsType, Cond!Types, Cond!Statuses, Cond!Happy, Cond!MarkTrue, Cond!MarkFalse,
         Cond!MarkUnknown, Cond!InitializeConditions, Cond!RecomputeHappiness, Cond!Summary

\* What ReconcileKind does to the status keeps its shape.
LEMMA StatusTyped ==
  ASSUME NEW st \in StatusType
  PROVE  /\ \A r \in {"NotOwned", "FailedCreate"} : MarkInactive(st, r) \in StatusType
         /\ \A spec, sks, hpa : WithSKS(st, spec, sks, hpa) \in StatusType
         /\ \A hpa \in HPAType : Exists(hpa) => Activate(st, hpa) \in StatusType
  <1> DEFINE T == {"Active", "ScaleTargetInitialized", "SKSReady"}
  <1>1. T \subseteq Cond!Types
    BY DEF Cond!Types, PodDependents
  <1>2. st.conds \in CondsType
    BY DEF StatusType, CondsType
  <1>3. \A t \in T : /\ Cond!MarkTrue(st.conds, t) \in CondsType
                     /\ Cond!MarkFalse(st.conds, t) \in CondsType
                     /\ Cond!MarkUnknown(st.conds, t) \in CondsType
    BY <1>1, <1>2, CondsTyped
  <1>4. \A r \in {"NotOwned", "FailedCreate"} : MarkInactive(st, r) \in StatusType
    BY <1>3 DEF MarkInactive, StatusType, CondsType
  <1>5. \A spec, sks, hpa : WithSKS(st, spec, sks, hpa) \in StatusType
    <2> TAKE spec, sks, hpa
    <2> DEFINE named == WithService(st, sks)
    <2>1. named \in StatusType /\ named.conds = st.conds
      BY DEF WithService, StatusType
    <2> DEFINE ready == [named EXCEPT !.conds = Cond!MarkTrue(@, "SKSReady")]
    <2>2. ready \in StatusType /\ ready.conds \in CondsType
      BY <2>1, <1>3 DEF StatusType, CondsType
    <2>3. [named EXCEPT !.conds = Cond!MarkUnknown(@, "SKSReady")] \in StatusType
      BY <2>1, <1>3 DEF StatusType, CondsType
    <2>4. [ready EXCEPT !.conds = Cond!MarkTrue(@, "ScaleTargetInitialized")] \in StatusType
      BY <2>2, <1>1, CondsTyped DEF StatusType, CondsType
    <2>5. QED BY <2>2, <2>3, <2>4 DEF WithSKS
  <1>6. \A hpa \in HPAType : Exists(hpa) => Activate(st, hpa) \in StatusType
    BY <1>3 DEF Activate, StatusType, CondsType, HPAType, Exists, OptReplicas
  <1>7. QED BY <1>4, <1>5, <1>6

-------------------------------------------------------------------------------
(* Logs only grow. *)

Extends(old, new, S) ==
  /\ new \in Seq(S)
  /\ Len(old) <= Len(new)
  /\ \A i \in 1 .. Len(old) : new[i] = old[i]

\* A version appended to a log leaves the earlier ones where they are.
LEMMA AppendExtends ==
  ASSUME NEW S, NEW s \in Seq(S), NEW e \in S
  PROVE  Extends(s, Append(s, e), S)
  BY DEF Extends

\* A log that is left alone extends itself.
LEMMA SameExtends ==
  ASSUME NEW S, NEW s \in Seq(S)
  PROVE  Extends(s, s, S)
  BY DEF Extends

LogsGrow ==
  /\ Extends(paLog, paLog', PAType) /\ Extends(soLog, soLog', SOType)
  /\ Extends(hpaLog, hpaLog', HPAType) /\ Extends(sksLog, sksLog', SKSType)

\* The versions the worker relies on at each step: it holds the PA it reconciles,
\* and it has checked the SO and the SKS it is about to update.
HeldOK ==
  /\ pc # "idle" => held["pa"] >= 1
  /\ pc = "updateSO" => held["so"] >= 1 /\ ControlledByPA(soLog[held["so"]])
  /\ pc \in {"readSKS", "createSKS", "updateSKS"} =>
       held["hpa"] >= 1 /\ Exists(hpaLog[held["hpa"]])
  /\ pc = "updateSKS" => held["sks"] >= 1 /\ ControlledByPA(sksLog[held["sks"]])

IInv == TypeOK /\ HeldOK

\* The positions that caches and worker have are positions in the logs.
LEMMA PositionsTyped ==
  ASSUME TypeOK
  PROVE  /\ seen["pa"] \in 1 .. Len(paLog) /\ seen["so"] \in 1 .. Len(soLog)
         /\ seen["hpa"] \in 1 .. Len(hpaLog) /\ seen["sks"] \in 1 .. Len(sksLog)
         /\ held["pa"] \in 0 .. Len(paLog) /\ held["so"] \in 0 .. Len(soLog)
         /\ held["hpa"] \in 0 .. Len(hpaLog) /\ held["sks"] \in 0 .. Len(sksLog)
  <1>1. \A k \in Kinds : seen[k] \in 1 .. Len(Log[k]) /\ held[k] \in 0 .. Len(Log[k])
    BY DEF TypeOK
  <1>2. /\ Log["pa"] = paLog /\ Log["so"] = soLog /\ Log["hpa"] = hpaLog /\ Log["sks"] = sksLog
    BY DEF Log
  <1>3. "pa" \in Kinds /\ "so" \in Kinds /\ "hpa" \in Kinds /\ "sks" \in Kinds
    BY DEF Kinds
  <1>4. QED BY <1>1, <1>2, <1>3

\* A log has a first version, and its versions have the type of the object.
LEMMA LogTyped ==
  ASSUME NEW S, NEW log \in Seq(S), NEW i \in 1 .. Len(log)
  PROVE  /\ log[i] \in S /\ Current(log) \in S
         /\ Len(log) \in Nat /\ Len(log) >= 1
  BY DEF Current

\* What the API server holds of each object has the type of the object.
LEMMA CurrentTyped ==
  ASSUME TypeOK
  PROVE  /\ Current(paLog) \in PAType /\ Current(soLog) \in SOType
         /\ Current(hpaLog) \in HPAType /\ Current(sksLog) \in SKSType
         /\ \A k \in Kinds : Len(Log[k]) \in Nat /\ Len(Log[k]) >= 1
  <1>1. /\ paLog \in Seq(PAType) /\ soLog \in Seq(SOType)
        /\ hpaLog \in Seq(HPAType) /\ sksLog \in Seq(SKSType)
    BY DEF TypeOK
  <1>2. /\ Current(paLog) \in PAType /\ Current(soLog) \in SOType
        /\ Current(hpaLog) \in HPAType /\ Current(sksLog) \in SKSType
        /\ Len(paLog) \in Nat /\ Len(soLog) \in Nat /\ Len(hpaLog) \in Nat /\ Len(sksLog) \in Nat
        /\ Len(paLog) >= 1 /\ Len(soLog) >= 1 /\ Len(hpaLog) >= 1 /\ Len(sksLog) >= 1
    BY <1>1, PositionsTyped, LogTyped
  <1>3. QED BY <1>2 DEF Kinds, Log

\* So has every version a cache holds.
LEMMA SeenTyped ==
  ASSUME TypeOK
  PROVE  /\ paLog[seen["pa"]] \in PAType /\ soLog[seen["so"]] \in SOType
         /\ hpaLog[seen["hpa"]] \in HPAType /\ sksLog[seen["sks"]] \in SKSType
  <1>1. /\ paLog \in Seq(PAType) /\ soLog \in Seq(SOType)
        /\ hpaLog \in Seq(HPAType) /\ sksLog \in Seq(SKSType)
    BY DEF TypeOK
  <1>2. QED BY <1>1, PositionsTyped, LogTyped

\* And every version the worker has to do with.
LEMMA HeldTyped ==
  ASSUME TypeOK, HeldOK
  PROVE  /\ pc # "idle" => PA \in PAType
         /\ pc \in {"readSKS", "createSKS", "updateSKS"} => HPA \in HPAType /\ Exists(HPA)
  <1>1. paLog \in Seq(PAType) /\ hpaLog \in Seq(HPAType)
    BY DEF TypeOK
  <1>2. pc # "idle" => PA \in PAType
    <2>1. pc # "idle" => held["pa"] \in 1 .. Len(paLog)
      BY PositionsTyped DEF HeldOK
    <2>2. QED BY <1>1, <2>1, LogTyped DEF PA
  <1>3. pc \in {"readSKS", "createSKS", "updateSKS"} => HPA \in HPAType /\ Exists(HPA)
    <2>1. pc \in {"readSKS", "createSKS", "updateSKS"} =>
            held["hpa"] \in 1 .. Len(hpaLog) /\ Exists(hpaLog[held["hpa"]])
      BY PositionsTyped DEF HeldOK
    <2>2. QED BY <1>1, <2>1, LogTyped DEF HPA
  <1>4. QED BY <1>2, <1>3

\* The constants mean what they should: replica counts stay in range.
LEMMA ReplicasTyped ==
  /\ \A a, b \in Replicas : IntMax(a, b) \in Replicas
  /\ 0 \in Replicas /\ 1 \in Replicas
  /\ \A spec \in SpecType : DesiredMin(spec) \in Replicas
  /\ \A so \in SOType : Exists(so) => KedaMin(so) \in Replicas
  <1>1. MaxReplicas \in Nat /\ MaxReplicas >= 1
    BY ConstantsAssumption
  <1>2. QED
    BY <1>1 DEF Replicas, IntMax, SpecType, DesiredMin, ScaleMin, SOType, Exists, KedaMin

\* Nothing written is everything left as it is.
LEMMA UnchangedGrows ==
  ASSUME TypeOK, UNCHANGED api
  PROVE  LogsGrow
  BY SameExtends DEF TypeOK, LogsGrow, api

\* Each write of the worker appends a version of the right type, or none.
LEMMA WritesGrow ==
  ASSUME TypeOK, HeldOK, pc # "idle"
  PROVE  /\ SOCreated => LogsGrow
         /\ SOUpdated /\ pc = "updateSO" => LogsGrow
         /\ SKSCreated => LogsGrow
         /\ SKSUpdated /\ pc = "updateSKS" => LogsGrow
         /\ StatusUpdated => LogsGrow
  <1>1. /\ \A e \in SOType : soLog' = Append(soLog, e) /\ UNCHANGED <<paLog, hpaLog, sksLog>>
                              => LogsGrow
        /\ \A e \in SKSType : sksLog' = Append(sksLog, e) /\ UNCHANGED <<paLog, soLog, hpaLog>>
                              => LogsGrow
        /\ \A e \in PAType : paLog' = Append(paLog, e) /\ UNCHANGED <<soLog, hpaLog, sksLog>>
                              => LogsGrow
    BY SameExtends, AppendExtends DEF TypeOK, LogsGrow
  <1>2. PA \in PAType /\ DesiredMin(PA.spec) \in Replicas
    BY HeldTyped, ReplicasTyped DEF PAType
  <1>3. DesiredScaledObject \in SOType
    BY <1>2 DEF DesiredScaledObject, SOType
  <1>4. held["so"] = Len(soLog) /\ pc = "updateSO" =>
          [Current(soLog) EXCEPT !.min = DesiredMin(PA.spec)] \in SOType
    BY <1>2, CurrentTyped DEF SOType, HeldOK, ControlledByPA, Current, NoObject
  <1>5. NewSKS \in SKSType
    BY DEF NewSKS, SKSType
  <1>6. held["sks"] = Len(sksLog) /\ pc = "updateSKS" => ServeSKS(Current(sksLog)) \in SKSType
    BY CurrentTyped DEF SKSType, HeldOK, ControlledByPA, Current, NoObject, ServeSKS
  <1>7. [PA EXCEPT !.status = status] \in PAType
    BY <1>2 DEF PAType, TypeOK
  <1>8. QED BY <1>1, <1>3, <1>4, <1>5, <1>6, <1>7
        DEF SOCreated, SOUpdated, SKSCreated, SKSUpdated, StatusUpdated

\* So do the others; they leave the worker, its caches and its queue alone.
LEMMA OthersGrow ==
  ASSUME TypeOK, Others
  PROVE  LogsGrow /\ UNCHANGED <<seen, queue, worker>> /\ left' \in 0 .. MaxEvents
  <1>1. /\ \A e \in PAType : paLog' = Append(paLog, e) /\ UNCHANGED <<soLog, hpaLog, sksLog>>
                              => LogsGrow
        /\ \A e \in SOType : soLog' = Append(soLog, e) /\ UNCHANGED <<paLog, hpaLog, sksLog>>
                              => LogsGrow
        /\ \A e \in HPAType : hpaLog' = Append(hpaLog, e) /\ UNCHANGED <<paLog, soLog, sksLog>>
                              => LogsGrow
        /\ \A e \in SKSType : sksLog' = Append(sksLog, e) /\ UNCHANGED <<paLog, soLog, hpaLog>>
                              => LogsGrow
    BY SameExtends, AppendExtends DEF TypeOK, LogsGrow
  <1>2. left \in 0 .. MaxEvents /\ MaxEvents \in Nat /\ MaxReplicas \in Nat
    BY ConstantsAssumption DEF TypeOK
  <1>3. NoObject \in SOType /\ NoObject \in HPAType /\ NoObject \in SKSType
    BY DEF SOType, HPAType, SKSType
  <1>4. CASE ChangePA
    <2> DEFINE pa == Current(paLog)
               g(spec) == IF spec.reachable = pa.spec.reachable
                          THEN pa.generation ELSE pa.generation + 1
    <2>1. PICK spec \in Specs : paLog' = Append(paLog, [pa EXCEPT !.spec = spec, !.generation = g(spec)])
      BY <1>4 DEF ChangePA
    <2>2. pa \in PAType /\ pa.generation \in Nat /\ spec \in SpecType
      BY ConstantsAssumption, CurrentTyped DEF PAType
    <2>3. g(spec) \in Nat
      BY <2>2
    <2> HIDE DEF g
    <2>4. [pa EXCEPT !.spec = spec, !.generation = g(spec)] \in PAType
      BY <2>2, <2>3 DEF PAType
    <2>5. QED BY <1>1, <1>2, <1>4, <2>1, <2>4 DEF ChangePA, Disturb, Controller
  <1>5. CASE UserSO
    <2>1. Current(soLog) \in SOType
      BY CurrentTyped
    <2>2. \A m \in Replicas : Current(soLog).owner = "pa" =>
            [Current(soLog) EXCEPT !.min = m] \in SOType
      BY <2>1 DEF SOType, NoObject
    <2>3. \A own \in ForeignSOs : own \in SOType
      BY ConstantsAssumption
    <2>4. \E so \in SOType : soLog' = Append(soLog, so)
      BY <1>3, <1>5, <2>2, <2>3 DEF UserSO
    <2>5. LogsGrow
      BY <1>1, <1>5, <2>4 DEF UserSO
    <2>6. QED BY <1>2, <1>5, <2>5 DEF UserSO, Disturb, Controller
  <1>6. CASE Keda
    <2>1. Current(soLog) \in SOType /\ Current(hpaLog) \in HPAType
      BY CurrentTyped
    <2>2. ASSUME Exists(Current(soLog))
          PROVE  /\ KedaMin(Current(soLog)) \in Replicas /\ 0 \in Replicas
                 /\ Current(soLog).routed \in BOOLEAN
      BY <2>1, <2>2, ReplicasTyped DEF SOType, Exists
    <2>3. Exists(Current(soLog)) =>
            [owner |-> "keda", min |-> KedaMin(Current(soLog)), desired |-> 0, current |-> 0,
             routed |-> Current(soLog).routed] \in HPAType
      BY <2>2 DEF HPAType
    <2>4. Exists(Current(soLog)) /\ Exists(Current(hpaLog)) =>
            [Current(hpaLog) EXCEPT !.min = KedaMin(Current(soLog)),
                                    !.routed = Current(soLog).routed] \in HPAType
      BY <2>1, <2>2 DEF HPAType, Exists
    <2>5. QED BY <1>1, <1>2, <1>3, <1>6, <2>3, <2>4 DEF Keda, Controller
  <1>7. CASE HPASettles
    <2>1. Exists(Current(hpaLog)) =>
            LET n == IntMax(Current(hpaLog).desired, Current(hpaLog).min) IN
            [Current(hpaLog) EXCEPT !.desired = n, !.current = n] \in HPAType
      BY CurrentTyped, ReplicasTyped DEF HPAType, Exists
    <2>2. QED BY <1>1, <1>2, <1>7, <2>1 DEF HPASettles, Controller
  <1>8. CASE HPAMoves
    <2>1. Exists(Current(hpaLog)) => Current(hpaLog).min \in Replicas
      BY CurrentTyped DEF HPAType, Exists
    <2>2. Exists(Current(hpaLog)) => Current(hpaLog).min .. MaxReplicas \subseteq Replicas
      BY <1>2, <2>1 DEF Replicas
    <2>3. Exists(Current(hpaLog)) => \A d, c \in Replicas :
            [Current(hpaLog) EXCEPT !.desired = d, !.current = c] \in HPAType
      BY CurrentTyped DEF HPAType, Exists
    <2>4. PICK d \in Current(hpaLog).min .. MaxReplicas, c \in Replicas :
            hpaLog' = Append(hpaLog, [Current(hpaLog) EXCEPT !.desired = d, !.current = c])
      BY <1>8 DEF HPAMoves
    <2>5. Exists(Current(hpaLog)) /\ UNCHANGED <<paLog, soLog, sksLog>>
      BY <1>8 DEF HPAMoves
    <2>6. d \in Replicas
      BY <2>2, <2>4, <2>5
    <2>7. LogsGrow
      BY <1>1, <2>3, <2>4, <2>5, <2>6
    <2>8. QED BY <1>2, <1>8, <2>7 DEF HPAMoves, Controller, Disturb
  <1>9. CASE SKSProgresses
    <2>1. Exists(Current(sksLog)) => [Current(sksLog) EXCEPT !.phase = "ready"] \in SKSType
      BY CurrentTyped DEF SKSType, Exists
    <2>2. QED BY <1>1, <1>2, <1>9, <2>1 DEF SKSProgresses, Controller
  <1>10. CASE SKSBreaks
    <2>1. Current(sksLog).owner = "pa" => [Current(sksLog) EXCEPT !.phase = "named"] \in SKSType
      BY CurrentTyped DEF SKSType, NoObject
    <2>2. \A own \in ForeignSKSs : own \in SKSType
      BY ConstantsAssumption
    <2>3. QED BY <1>1, <1>2, <1>3, <1>10, <2>1, <2>2 DEF SKSBreaks, Disturb, Controller
  <1>11. QED BY <1>4, <1>5, <1>6, <1>7, <1>8, <1>9, <1>10 DEF Others

-------------------------------------------------------------------------------
(* The worker's steps. *)

\* Positions that were in a log are in what it has grown to, and hold the same.
LEMMA PositionsStay ==
  ASSUME TypeOK, LogsGrow
  PROVE  /\ \A k \in Kinds : Len(Log[k])' \in Nat /\ Len(Log[k])' >= Len(Log[k])
         /\ \A k \in Kinds : seen[k] \in 1 .. Len(Log[k])' /\ held[k] \in 0 .. Len(Log[k])'
         /\ \A i \in 1 .. Len(soLog)  : soLog'[i] = soLog[i]
         /\ \A i \in 1 .. Len(hpaLog) : hpaLog'[i] = hpaLog[i]
         /\ \A i \in 1 .. Len(sksLog) : sksLog'[i] = sksLog[i]
  <1>1. \A k \in Kinds : Len(Log[k])' \in Nat /\ Len(Log[k])' >= Len(Log[k])
    BY DEF LogsGrow, Extends, Kinds, Log
  <1>2. \A k \in Kinds : Len(Log[k]) \in Nat
    BY CurrentTyped
  <1>3. \A k \in Kinds : seen[k] \in 1 .. Len(Log[k])' /\ held[k] \in 0 .. Len(Log[k])'
    BY <1>1, <1>2 DEF TypeOK
  <1>4. QED BY <1>1, <1>3 DEF LogsGrow, Extends

\* A run that returns leaves a status of the right shape to be written.
LEMMA ReturnTyped ==
  ASSUME TypeOK, HeldOK, pc # "idle" , NEW st \in StatusType, NEW err \in BOOLEAN,
         Return(st, err)
  PROVE  /\ pc' = "writeStatus" /\ status' \in StatusType
         /\ failed' \in BOOLEAN /\ attempt' \in 0 .. MaxAttempts - 1
  <1>1. PA.generation \in Nat
    BY HeldTyped DEF PAType
  <1>2. [st EXCEPT !.observed = PA.generation] \in StatusType
    BY <1>1 DEF StatusType
  <1>3. MaxAttempts \in Nat \ {0}
    BY ConstantsAssumption
  <1>4. QED BY <1>2, <1>3 DEF Return, Goto

\* So does one that is done.
LEMMA DoneTyped ==
  ASSUME TypeOK, NEW err \in BOOLEAN, Done(err)
  PROVE  /\ pc' = "idle" /\ status' \in StatusType /\ held' = [k \in Kinds |-> 0]
         /\ failed' \in BOOLEAN /\ attempt' \in 0 .. MaxAttempts - 1 /\ retry' \in BOOLEAN
  <1>1. FreshStatus \in StatusType
    BY DEF FreshStatus, StatusType, OptReplicas, Cond!AllUnset, Cond!Statuses
  <1>2. MaxAttempts \in Nat \ {0}
    BY ConstantsAssumption
  <1>3. 0 \in 0 .. MaxAttempts - 1
    BY <1>2
  <1>4. retry \in BOOLEAN
    BY DEF TypeOK
  <1>5. retry' \in BOOLEAN
    BY <1>4 DEF Done
  <1>6. QED BY <1>1, <1>3, <1>5 DEF Done

\* PreProcessReconcile starts a run with a status of the right shape.
LEMMA PreProcessTyped ==
  ASSUME NEW pa \in PAType
  PROVE  PreProcess(pa) \in StatusType
  <1>1. pa.status \in StatusType /\ pa.status.conds \in CondsType
    BY DEF PAType, StatusType, CondsType
  <1>2. Cond!Happy \in Cond!Types
    BY DEF Cond!Types, Cond!Happy
  <1>3. Cond!InitializeConditions(pa.status.conds) \in CondsType
    BY <1>1, <1>2, CondsTyped
  <1>4. Cond!MarkUnknown(Cond!InitializeConditions(pa.status.conds), Cond!Happy) \in CondsType
    BY <1>2, <1>3, CondsTyped
  <1>5. QED BY <1>1, <1>3, <1>4 DEF PreProcess, StatusType, CondsType

\* What a step of the worker leaves: everything TypeOK and HeldOK say, except of
\* the logs (LogsGrow) and the caches, which it does not touch.
WorkerOK ==
  /\ held \in [Kinds -> Nat] /\ \A k \in Kinds : held[k] \in 0 .. Len(Log[k])
  /\ dirty \in BOOLEAN /\ retry \in BOOLEAN /\ failed \in BOOLEAN
  /\ pc \in Steps /\ status \in StatusType
  /\ attempt \in 0 .. MaxAttempts - 1 /\ left \in 0 .. MaxEvents
  /\ HeldOK

\* A step that returns keeps the versions held and so is fine whatever it wrote.
LEMMA ReturnOK ==
  ASSUME TypeOK, HeldOK, pc # "idle", LogsGrow,
         NEW st \in StatusType, NEW err \in BOOLEAN, Return(st, err),
         held' \in [Kinds -> Nat], \A k \in Kinds : held'[k] \in 0 .. Len(Log[k])',
         held'["pa"] = held["pa"],
         UNCHANGED <<queue>>, left' \in 0 .. MaxEvents
  PROVE  WorkerOK'
  <1>1. /\ pc' = "writeStatus" /\ status' \in StatusType
        /\ failed' \in BOOLEAN /\ attempt' \in 0 .. MaxAttempts - 1
    BY ReturnTyped
  <1>2. HeldOK'
    BY <1>1 DEF HeldOK
  <1>3. QED BY <1>1, <1>2 DEF WorkerOK, TypeOK, queue, Steps

\* A step that is done holds nothing any more.
LEMMA DoneOK ==
  ASSUME TypeOK, LogsGrow, NEW err \in BOOLEAN, Done(err),
         UNCHANGED dirty, left' \in 0 .. MaxEvents
  PROVE  WorkerOK'
  <1>1. /\ pc' = "idle" /\ status' \in StatusType /\ held' = [k \in Kinds |-> 0]
        /\ failed' \in BOOLEAN /\ attempt' \in 0 .. MaxAttempts - 1 /\ retry' \in BOOLEAN
    BY DoneTyped
  <1>2. held' \in [Kinds -> Nat] /\ \A k \in Kinds : held'[k] \in 0 .. Len(Log[k])'
    BY <1>1, PositionsStay
  <1>3. HeldOK'
    BY <1>1 DEF HeldOK
  <1>4. QED BY <1>1, <1>2, <1>3 DEF WorkerOK, TypeOK, Steps

\* The steps that read a cache write nothing.
LEMMA ReadsOK ==
  ASSUME TypeOK, HeldOK, Take \/ ReadSO \/ ReadHPA \/ ReadSKS \/ Refetch
  PROVE  LogsGrow /\ WorkerOK' /\ UNCHANGED seen
  <1>1. UNCHANGED <<api, seen, left>>
    BY DEF Take, ReadSO, ReadHPA, ReadSKS, Refetch
  <1>2. LogsGrow
    BY <1>1, UnchangedGrows
  <1>3. \A k \in Kinds : Len(Log[k])' = Len(Log[k]) /\ Log[k]' = Log[k]
    BY <1>1 DEF api, Log, Kinds
  <1>4. /\ held \in [Kinds -> Nat] /\ \A k \in Kinds : held[k] \in 0 .. Len(Log[k])
        /\ \A k \in Kinds : seen[k] \in 1 .. Len(Log[k])
    BY DEF TypeOK
  <1>5. \A k \in Kinds : LET h == [held EXCEPT ![k] = seen[k]] IN
          /\ h \in [Kinds -> Nat] /\ \A j \in Kinds : h[j] \in 0 .. Len(Log[j])'
          /\ k # "pa" => h["pa"] = held["pa"]
    <2> TAKE k \in Kinds
    <2> DEFINE h == [held EXCEPT ![k] = seen[k]]
    <2>1. seen[k] \in Nat /\ seen[k] \in 0 .. Len(Log[k])'
      BY <1>3, <1>4
    <2>2. h \in [Kinds -> Nat] /\ h[k] = seen[k] /\ \A j \in Kinds \ {k} : h[j] = held[j]
      BY <1>4, <2>1
    <2>3. \A j \in Kinds : held[j] \in 0 .. Len(Log[j])'
      BY <1>3, <1>4
    <2> HIDE DEF h
    <2>4. \A j \in Kinds : h[j] \in 0 .. Len(Log[j])'
      BY <2>1, <2>2, <2>3
    <2>5. k # "pa" => h["pa"] = held["pa"]
      BY <2>2 DEF Kinds
    <2>6. QED BY <2>2, <2>4, <2>5 DEF h
  <1>6. /\ held \in [Kinds -> Nat] /\ \A j \in Kinds : held[j] \in 0 .. Len(Log[j])'
    BY <1>3, <1>4
  <1>7. /\ pc \in Steps /\ status \in StatusType /\ attempt \in 0 .. MaxAttempts - 1
        /\ dirty \in BOOLEAN /\ retry \in BOOLEAN /\ failed \in BOOLEAN /\ left' \in 0 .. MaxEvents
    BY <1>1 DEF TypeOK
  <1>8. CASE Take
    <2> DEFINE pa == paLog[seen["pa"]]
    <2>1. pa \in PAType
      BY SeenTyped
    <2>2. PreProcess(pa) \in StatusType /\ [PreProcess(pa) EXCEPT !.observed = pa.generation] \in StatusType
      BY <2>1, PreProcessTyped DEF StatusType, PAType
    <2>3. held' = [held EXCEPT !["pa"] = seen["pa"]]
      BY <1>8 DEF Take
    <2>4. held'["pa"] >= 1
      BY <1>4, <2>3 DEF Kinds
    <2>5. /\ pc' \in {"readHPA", "readSO", "writeStatus"} /\ status' \in StatusType
          /\ attempt' \in 0 .. MaxAttempts - 1 /\ failed' \in BOOLEAN
          /\ dirty' \in BOOLEAN /\ retry' \in BOOLEAN
      <3>1. 0 \in 0 .. MaxAttempts - 1
        BY ConstantsAssumption
      <3>2. QED BY <1>7, <1>8, <2>2, <3>1 DEF Take, Goto
    <2>6. HeldOK'
      BY <2>4, <2>5 DEF HeldOK
    <2>7. QED BY <1>1, <1>2, <1>5, <1>7, <2>3, <2>5, <2>6 DEF WorkerOK, Kinds, Steps
  <1>9. CASE ReadSO
    <2> DEFINE so == soLog[seen["so"]]
    <2>1. pc = "readSO" /\ UNCHANGED queue
      BY <1>9 DEF ReadSO
    <2>2. CASE ~ Exists(so)
      <3>1. pc' = "createSO" /\ UNCHANGED <<held, status, attempt, failed>>
        BY <1>9, <2>2 DEF ReadSO, Continue, Goto
      <3>2. HeldOK'
        BY <2>1, <3>1 DEF HeldOK
      <3>3. QED BY <1>1, <1>2, <1>6, <1>7, <2>1, <3>1, <3>2 DEF WorkerOK, queue, Steps
    <2>3. CASE Exists(so) /\ ~ ControlledByPA(so)
      <3>1. Return(MarkInactive(status, "NotOwned"), TRUE) /\ UNCHANGED held
        BY <1>9, <2>3 DEF ReadSO
      <3>2. MarkInactive(status, "NotOwned") \in StatusType
        BY <1>7, StatusTyped
      <3>3. QED BY <1>1, <1>2, <1>6, <1>7, <2>1, <3>1, <3>2, ReturnOK
    <2>4. CASE Exists(so) /\ ControlledByPA(so)
      <3>1. /\ held' = [held EXCEPT !["so"] = seen["so"]]
            /\ pc' \in {"readHPA", "updateSO"} /\ UNCHANGED <<status, attempt, failed>>
        BY <1>9, <2>4 DEF ReadSO, Continue, Goto
      <3>2. held'["so"] = seen["so"] /\ seen["so"] >= 1 /\ held'["pa"] = held["pa"]
        BY <1>4, <3>1 DEF Kinds
      <3>3. HeldOK'
        BY <1>1, <2>1, <2>4, <3>1, <3>2 DEF HeldOK, api
      <3>4. QED BY <1>1, <1>2, <1>5, <1>7, <2>1, <3>1, <3>3 DEF WorkerOK, queue, Steps, Kinds
    <2>5. QED BY <2>2, <2>3, <2>4
  <1>10. CASE ReadHPA
    <2> DEFINE hpa == hpaLog[seen["hpa"]]
    <2>1. pc = "readHPA" /\ UNCHANGED queue
      BY <1>10 DEF ReadHPA
    <2>2. CASE ~ Exists(hpa) \/ BelowMinimum(hpa)
      <3>1. Return(status, FALSE) /\ UNCHANGED held
        BY <1>10, <2>2 DEF ReadHPA
      <3>2. QED BY <1>1, <1>2, <1>6, <1>7, <2>1, <3>1, ReturnOK
    <2>3. CASE Exists(hpa) /\ ~ BelowMinimum(hpa)
      <3>1. /\ held' = [held EXCEPT !["hpa"] = seen["hpa"]]
            /\ pc' = "readSKS" /\ UNCHANGED <<status, attempt, failed>>
        BY <1>10, <2>3 DEF ReadHPA, Continue, Goto
      <3>2. held'["hpa"] = seen["hpa"] /\ seen["hpa"] >= 1 /\ held'["pa"] = held["pa"]
        BY <1>4, <3>1 DEF Kinds
      <3>3. HeldOK'
        BY <1>1, <2>1, <2>3, <3>1, <3>2 DEF HeldOK, api
      <3>4. QED BY <1>1, <1>2, <1>5, <1>7, <2>1, <3>1, <3>3 DEF WorkerOK, queue, Steps, Kinds
    <2>4. QED BY <2>2, <2>3
  <1>11. CASE ReadSKS
    <2> DEFINE sks == sksLog[seen["sks"]]
    <2>1. pc = "readSKS" /\ UNCHANGED queue
      BY <1>11 DEF ReadSKS
    <2>2. CASE ~ Exists(sks) /\ Continue("createSKS") /\ UNCHANGED held
      <3>1. pc' = "createSKS" /\ UNCHANGED <<held, status, attempt, failed>>
        BY <2>2 DEF Continue, Goto
      <3>2. HeldOK'
        BY <1>1, <2>1, <3>1 DEF HeldOK, api
      <3>3. QED BY <1>1, <1>2, <1>6, <1>7, <2>1, <3>1, <3>2 DEF WorkerOK, queue, Steps
    <2>3. CASE Exists(sks) /\ ~ ControlledByPA(sks) /\ UNCHANGED held
                /\ Return(MarkInactive(status, "NotOwned"), TRUE)
      <3>1. MarkInactive(status, "NotOwned") \in StatusType
        BY <1>7, StatusTyped
      <3>2. QED BY <1>1, <1>2, <1>6, <1>7, <2>1, <2>3, <3>1, ReturnOK
    <2>4. CASE /\ Exists(sks) /\ ControlledByPA(sks)
               /\ held' = [held EXCEPT !["sks"] = seen["sks"]]
               /\ IF sks.mode = "Serve" THEN FinishWith(sks) ELSE Continue("updateSKS")
      <3>1. held'["sks"] = seen["sks"] /\ seen["sks"] >= 1 /\ held'["pa"] = held["pa"]
            /\ held'["hpa"] = held["hpa"]
        BY <1>4, <2>4 DEF Kinds
      <3>2. CASE sks.mode = "Serve"
        <4> DEFINE st == Activate(WithSKS(status, PA.spec, sks, HPA), HPA)
        <4>1. st \in StatusType
          BY <1>7, <2>1, StatusTyped, HeldTyped
        <4>2. Return(st, FALSE)
          BY <2>4, <3>2 DEF FinishWith
        <4>3. QED
          BY <1>1, <1>2, <1>5, <1>7, <2>1, <2>4, <3>1, <4>1, <4>2, ReturnOK DEF Kinds
      <3>3. CASE sks.mode # "Serve"
        <4>1. pc' = "updateSKS" /\ UNCHANGED <<status, attempt, failed>>
          BY <2>4, <3>3 DEF Continue, Goto
        <4>2. HeldOK'
          BY <1>1, <2>1, <2>4, <3>1, <4>1 DEF HeldOK, api
        <4>3. QED BY <1>1, <1>2, <1>5, <1>7, <2>1, <2>4, <4>1, <4>2
              DEF WorkerOK, queue, Steps, Kinds
      <3>4. QED BY <3>2, <3>3
    <2>5. QED BY <1>11, <2>2, <2>3, <2>4 DEF ReadSKS
  <1>12. CASE Refetch
    <2>1. /\ held' = [held EXCEPT !["pa"] = Len(paLog)] /\ pc' = "writeStatus"
          /\ UNCHANGED <<queue, status, attempt, failed>>
      BY <1>12 DEF Refetch, Goto
    <2>2. Len(paLog) \in Nat /\ Len(paLog) >= 1
      BY CurrentTyped DEF Kinds, Log
    <2>3. Len(Log["pa"])' = Len(paLog) /\ held'["pa"] >= 1
      <3>1. paLog' = paLog
        BY <1>1 DEF api
      <3>2. Log'["pa"] = paLog'
        BY DEF Log
      <3>3. held'["pa"] = Len(paLog)
        BY <1>4, <2>1 DEF Kinds
      <3>4. QED BY <2>2, <3>1, <3>2, <3>3
    <2>4. HeldOK'
      BY <2>1, <2>3 DEF HeldOK
    <2>5. held' \in [Kinds -> Nat] /\ \A j \in Kinds : held'[j] \in 0 .. Len(Log[j])'
      <3>1. held'["pa"] \in 0 .. Len(Log["pa"])'
        BY <1>4, <2>1, <2>2, <2>3 DEF Kinds
      <3>2. \A j \in Kinds \ {"pa"} : held'[j] = held[j]
        BY <1>4, <2>1
      <3>3. held' \in [Kinds -> Nat]
        BY <1>4, <2>1, <2>2
      <3>4. QED BY <1>6, <3>1, <3>2, <3>3
    <2>6. QED BY <1>1, <1>2, <1>7, <2>1, <2>4, <2>5 DEF WorkerOK, queue, Steps
  <1>13. QED BY <1>8, <1>9, <1>10, <1>11, <1>12

\* The versions held stay where they are while the logs grow.
LEMMA HeldStays ==
  ASSUME TypeOK, LogsGrow, UNCHANGED held
  PROVE  /\ held' \in [Kinds -> Nat] /\ \A k \in Kinds : held'[k] \in 0 .. Len(Log[k])'
         /\ held'["pa"] = held["pa"]
  BY PositionsStay DEF TypeOK

\* The steps that write keep everything typed, and a worker that goes on after a
\* write goes on with what it has checked.
LEMMA WritesOK ==
  ASSUME TypeOK, HeldOK, CreateSO \/ UpdateSO \/ CreateSKS \/ UpdateSKS \/ WriteStatus
  PROVE  LogsGrow /\ WorkerOK' /\ UNCHANGED seen
  <1>1. /\ pc \in Steps /\ status \in StatusType /\ attempt \in 0 .. MaxAttempts - 1
        /\ dirty \in BOOLEAN /\ retry \in BOOLEAN /\ failed \in BOOLEAN
        /\ left' \in 0 .. MaxEvents /\ UNCHANGED <<seen, left>> /\ pc # "idle"
    BY DEF TypeOK, CreateSO, UpdateSO, CreateSKS, UpdateSKS, WriteStatus
  <1>2. MarkInactive(status, "FailedCreate") \in StatusType
    BY <1>1, StatusTyped
  <1>3. CASE CreateSO
    <2>1. pc = "createSO" /\ UNCHANGED queue
      BY <1>3 DEF CreateSO
    <2>2. CASE /\ SOCreated /\ Continue("readHPA")
               /\ held' = [held EXCEPT !["so"] = Len(soLog) + 1]
      <3>1. LogsGrow
        BY <1>1, <2>2, WritesGrow
      <3>2. Len(Log["so"])' = Len(soLog) + 1 /\ Len(soLog) \in Nat
        BY <2>2 DEF SOCreated, Log, TypeOK
      <3>3. /\ held' \in [Kinds -> Nat] /\ \A k \in Kinds : held'[k] \in 0 .. Len(Log[k])'
            /\ held'["pa"] = held["pa"]
        <4>1. held \in [Kinds -> Nat] /\ \A k \in Kinds : held[k] \in 0 .. Len(Log[k])'
          BY <3>1, PositionsStay DEF TypeOK
        <4>2. held'["so"] \in 0 .. Len(Log["so"])'
          BY <2>2, <3>2, <4>1 DEF Kinds
        <4>3. \A k \in Kinds \ {"so"} : held'[k] = held[k]
          BY <2>2, <4>1
        <4>4. held' \in [Kinds -> Nat]
          <5>1. Len(soLog) + 1 \in Nat
            BY <3>2
          <5>2. held \in [Kinds -> Nat]
            BY <4>1
          <5>3. QED BY <2>2, <5>1, <5>2
        <4>5. ASSUME NEW k \in Kinds PROVE held'[k] \in 0 .. Len(Log[k])'
          <5>1. CASE k = "so"
            BY <4>2, <5>1
          <5>2. CASE k # "so"
            BY <4>1, <4>3, <5>2
          <5>3. QED BY <5>1, <5>2
        <4>6. held'["pa"] = held["pa"]
          BY <4>3 DEF Kinds
        <4>7. QED BY <4>4, <4>5, <4>6
      <3>4. pc' = "readHPA" /\ UNCHANGED <<status, attempt, failed>>
        BY <2>2 DEF Continue, Goto
      <3>5. HeldOK'
        BY <2>1, <3>3, <3>4 DEF HeldOK
      <3>6. QED BY <1>1, <2>1, <3>1, <3>3, <3>4, <3>5 DEF WorkerOK, queue, Steps
    <2>3. CASE Return(MarkInactive(status, "FailedCreate"), TRUE) /\ UNCHANGED <<api, held>>
      <3>1. LogsGrow
        BY <2>3, UnchangedGrows
      <3>2. QED BY <1>1, <1>2, <2>1, <2>3, <3>1, HeldStays, ReturnOK
    <2>4. QED BY <1>3, <2>2, <2>3 DEF CreateSO
  <1>4. CASE UpdateSO
    <2>1. pc = "updateSO" /\ UNCHANGED <<queue, held>>
      BY <1>4 DEF UpdateSO
    <2>2. CASE SOUpdated /\ Continue("readHPA")
      <3>1. LogsGrow
        BY <1>1, <2>1, <2>2, WritesGrow
      <3>2. pc' = "readHPA" /\ UNCHANGED <<status, attempt, failed>>
        BY <2>2 DEF Continue, Goto
      <3>3. HeldOK'
        BY <2>1, <3>2 DEF HeldOK
      <3>4. QED BY <1>1, <2>1, <3>1, <3>2, <3>3, HeldStays DEF WorkerOK, queue, Steps
    <2>3. CASE Return(status, TRUE) /\ UNCHANGED api
      <3>1. LogsGrow
        BY <2>3, UnchangedGrows
      <3>2. QED BY <1>1, <2>1, <2>3, <3>1, HeldStays, ReturnOK
    <2>4. QED BY <1>4, <2>2, <2>3 DEF UpdateSO
  <1>5. CASE CreateSKS
    <2>1. pc = "createSKS" /\ UNCHANGED <<queue, held>>
      BY <1>5 DEF CreateSKS
    <2>2. CASE SKSCreated /\ FinishWith(NewSKS)
      <3> DEFINE st == Activate(WithSKS(status, PA.spec, NewSKS, HPA), HPA)
      <3>1. LogsGrow
        BY <1>1, <2>2, WritesGrow
      <3>2. st \in StatusType
        BY <1>1, <2>1, StatusTyped, HeldTyped
      <3>3. Return(st, FALSE)
        BY <2>2 DEF FinishWith
      <3>4. QED BY <1>1, <2>1, <3>1, <3>2, <3>3, HeldStays, ReturnOK
    <2>3. CASE Return(status, TRUE) /\ UNCHANGED api
      <3>1. LogsGrow
        BY <2>3, UnchangedGrows
      <3>2. QED BY <1>1, <2>1, <2>3, <3>1, HeldStays, ReturnOK
    <2>4. QED BY <1>5, <2>2, <2>3 DEF CreateSKS
  <1>6. CASE UpdateSKS
    <2>1. pc = "updateSKS" /\ UNCHANGED <<queue, held>>
      BY <1>6 DEF UpdateSKS
    <2>2. CASE SKSUpdated /\ FinishWith(ServeSKS(Current(sksLog)))
      <3> DEFINE st == Activate(WithSKS(status, PA.spec, ServeSKS(Current(sksLog)), HPA), HPA)
      <3>1. LogsGrow
        BY <1>1, <2>1, <2>2, WritesGrow
      <3>2. st \in StatusType
        BY <1>1, <2>1, StatusTyped, HeldTyped
      <3>3. Return(st, FALSE)
        BY <2>2 DEF FinishWith
      <3>4. QED BY <1>1, <2>1, <3>1, <3>2, <3>3, HeldStays, ReturnOK
    <2>3. CASE Return(status, TRUE) /\ UNCHANGED api
      <3>1. LogsGrow
        BY <2>3, UnchangedGrows
      <3>2. QED BY <1>1, <2>1, <2>3, <3>1, HeldStays, ReturnOK
    <2>4. QED BY <1>6, <2>2, <2>3 DEF UpdateSKS
  <1>7. CASE WriteStatus
    <2>1. pc = "writeStatus" /\ UNCHANGED dirty
      BY <1>7 DEF WriteStatus
    <2>2. CASE Done(failed) /\ (UNCHANGED api \/ StatusUpdated)
      <3>1. LogsGrow
        BY <1>1, <2>2, UnchangedGrows, WritesGrow
      <3>2. QED BY <1>1, <2>1, <2>2, <3>1, DoneOK
    <2>3. CASE Done(TRUE) /\ UNCHANGED api
      <3>1. LogsGrow
        BY <2>3, UnchangedGrows
      <3>2. QED BY <1>1, <2>1, <2>3, <3>1, DoneOK
    <2>4. CASE /\ MayRetry /\ attempt' = attempt + 1 /\ Goto("refetch")
               /\ UNCHANGED <<held, status, failed, retry>> /\ UNCHANGED api
      <3>1. LogsGrow
        BY <2>4, UnchangedGrows
      <3>2. attempt' \in 0 .. MaxAttempts - 1
        BY <1>1, <2>4, ConstantsAssumption DEF MayRetry
      <3>3. pc' = "refetch"
        BY <2>4 DEF Goto
      <3>4. HeldOK'
        BY <2>1, <2>4, <3>3 DEF HeldOK
      <3>5. QED BY <1>1, <2>1, <2>4, <3>1, <3>2, <3>3, <3>4, HeldStays DEF WorkerOK, Steps
    <2>5. QED BY <1>7, <2>2, <2>3, <2>4 DEF WriteStatus
  <1>8. QED BY <1>3, <1>4, <1>5, <1>6, <1>7

\* A call that fails ends the run, whether or not it took effect.
LEMMA CallFailsOK ==
  ASSUME TypeOK, HeldOK, CallFails
  PROVE  LogsGrow /\ WorkerOK' /\ UNCHANGED seen
  <1>1. status \in StatusType /\ UNCHANGED <<seen, dirty>> /\ MarkInactive(status, "FailedCreate") \in StatusType
    BY StatusTyped DEF TypeOK, CallFails
  <1>2. left' \in 0 .. MaxEvents
    BY ConstantsAssumption DEF CallFails, Disturb, TypeOK
  <1>3. CASE /\ pc = "createSO" /\ (SOCreated \/ UNCHANGED api)
             /\ Return(MarkInactive(status, "FailedCreate"), TRUE) /\ UNCHANGED <<held, retry>>
    <2>1. LogsGrow
      BY <1>3, UnchangedGrows, WritesGrow
    <2>2. WorkerOK'
      BY <1>1, <1>2, <1>3, <2>1, HeldStays, ReturnOK DEF queue
    <2>3. QED BY <1>1, <2>1, <2>2
  <1>4. CASE /\ \/ pc = "updateSO" /\ (SOUpdated \/ UNCHANGED api)
                \/ pc = "createSKS" /\ (SKSCreated \/ UNCHANGED api)
                \/ pc = "updateSKS" /\ (SKSUpdated \/ UNCHANGED api)
             /\ Return(status, TRUE) /\ UNCHANGED <<held, retry>>
    <2>1. LogsGrow
      BY <1>4, UnchangedGrows, WritesGrow
    <2>2. pc # "idle"
      BY <1>4
    <2>3. WorkerOK'
      BY <1>1, <1>2, <1>4, <2>1, <2>2, HeldStays, ReturnOK DEF queue
    <2>4. QED BY <1>1, <2>1, <2>3
  <1>5. CASE /\ \/ pc = "writeStatus" /\ ~ StatusUnchanged /\ (StatusUpdated \/ UNCHANGED api)
                \/ pc = "refetch" /\ UNCHANGED api
             /\ Done(TRUE)
    <2>1. LogsGrow
      BY <1>5, UnchangedGrows, WritesGrow
    <2>2. WorkerOK'
      BY <1>1, <1>2, <1>5, <2>1, DoneOK
    <2>3. QED BY <1>1, <2>1, <2>2
  <1>6. QED BY <1>3, <1>4, <1>5 DEF CallFails

\* Informers move a cache forward, timers and resyncs mark the key, and a new
\* process starts with caches that are up to date.
LEMMA ControllerOK ==
  ASSUME TypeOK, HeldOK, (\E k \in Kinds : Deliver(k)) \/ RetryFires \/ Resync \/ Restart
  PROVE  TypeOK' /\ HeldOK' /\ UNCHANGED api
  <1>1. UNCHANGED api
    BY DEF Deliver, RetryFires, Resync, Restart
  <1>2. \A k \in Kinds : Log[k]' = Log[k] /\ Len(Log[k])' = Len(Log[k])
    BY <1>1 DEF api, Log, Kinds
  <1>3. CASE \E k \in Kinds : Deliver(k)
    <2>1. PICK k \in Kinds : Deliver(k)
      BY <1>3
    <2>2. /\ seen' = [seen EXCEPT ![k] = @ + 1] /\ seen[k] < Len(Log[k])
          /\ UNCHANGED <<retry, worker, left>>
      BY <2>1 DEF Deliver
    <2>3. dirty' \in BOOLEAN
      <3>1. dirty \in BOOLEAN
        BY DEF TypeOK
      <3>2. QED BY <2>1, <3>1 DEF Deliver
    <2>4. seen' \in [Kinds -> Nat] /\ \A j \in Kinds : seen'[j] \in 1 .. Len(Log[j])'
      <3>1. /\ seen \in [Kinds -> Nat] /\ \A j \in Kinds : seen[j] \in 1 .. Len(Log[j])
            /\ \A j \in Kinds : Len(Log[j]) \in Nat
        BY CurrentTyped DEF TypeOK
      <3>2. \A j \in Kinds : seen'[j] \in 1 .. Len(Log[j])
        BY <2>2, <3>1
      <3>3. seen' \in [Kinds -> Nat]
        BY <2>2, <3>1
      <3>4. QED BY <1>2, <3>2, <3>3
    <2>5. HeldOK'
      BY <1>1, <2>2 DEF HeldOK, api, worker
    <2>6. QED BY <1>1, <1>2, <2>2, <2>3, <2>4, <2>5 DEF TypeOK, api, worker
  <1>4. CASE RetryFires \/ Resync
    <2>1. dirty' \in BOOLEAN /\ retry' \in BOOLEAN /\ UNCHANGED <<api, seen, worker, left>>
      BY <1>4 DEF RetryFires, Resync, TypeOK
    <2>2. HeldOK'
      BY <2>1 DEF HeldOK, api, worker
    <2>3. QED BY <1>2, <2>1, <2>2 DEF TypeOK, api, worker
  <1>5. CASE Restart
    <2>1. /\ pc' = "idle" /\ held' = [k \in Kinds |-> 0] /\ status' = FreshStatus
          /\ attempt' = 0 /\ failed' = FALSE /\ retry' = FALSE /\ dirty' = TRUE
          /\ seen' = [pa |-> Len(paLog), so |-> Len(soLog), hpa |-> Len(hpaLog), sks |-> Len(sksLog)]
          /\ left' \in 0 .. MaxEvents
      BY <1>5, ConstantsAssumption DEF Restart, Disturb, TypeOK
    <2>2. FreshStatus \in StatusType
      BY DEF FreshStatus, StatusType, OptReplicas, Cond!AllUnset, Cond!Statuses
    <2>3. attempt' \in 0 .. MaxAttempts - 1 /\ pc' \in Steps
      BY <2>1, ConstantsAssumption DEF Steps
    <2>4. \A k \in Kinds : Len(Log[k]) \in Nat /\ Len(Log[k]) >= 1
      BY CurrentTyped
    <2>5. /\ held' \in [Kinds -> Nat] /\ \A k \in Kinds : held'[k] \in 0 .. Len(Log[k])'
      BY <1>2, <2>1, <2>4
    <2>6. \A k \in Kinds : seen'[k] = Len(Log[k])
      BY <2>1 DEF Kinds, Log
    <2>7. seen' \in [Kinds -> Nat]
      BY <2>1, <2>4 DEF Kinds, Log
    <2>8. \A k \in Kinds : seen'[k] \in 1 .. Len(Log[k])'
      BY <1>2, <2>4, <2>6
    <2>9. HeldOK'
      BY <2>1 DEF HeldOK
    <2>10. QED BY <1>1, <2>1, <2>2, <2>3, <2>5, <2>7, <2>8, <2>9 DEF TypeOK, api
  <1>6. QED BY <1>1, <1>3, <1>4, <1>5

-------------------------------------------------------------------------------
(* The invariant, and what it is for. *)

\* It holds of the states a controller starts in.
LEMMA IInvInit == Init => IInv
  <1> SUFFICES ASSUME Init PROVE TypeOK /\ HeldOK
    BY DEF IInv
  <1>1. FreshStatus \in StatusType
    BY DEF FreshStatus, StatusType, OptReplicas, Cond!AllUnset, Cond!Statuses
  <1>2. paLog \in Seq(PAType) /\ Len(paLog) = 1
    BY <1>1, ConstantsAssumption DEF Init, PAType
  <1>3. /\ soLog \in Seq(SOType) /\ Len(soLog) = 1
        /\ hpaLog \in Seq(HPAType) /\ Len(hpaLog) = 1
        /\ sksLog \in Seq(SKSType) /\ Len(sksLog) = 1
    BY ConstantsAssumption DEF Init, HPAType
  <1>4. /\ seen \in [Kinds -> Nat] /\ held \in [Kinds -> Nat]
        /\ \A k \in Kinds : seen[k] = 1 /\ held[k] = 0
    BY DEF Init
  <1>5. \A k \in Kinds : Len(Log[k]) = 1
    BY <1>2, <1>3 DEF Kinds, Log
  <1>6. \A k \in Kinds : seen[k] \in 1 .. Len(Log[k]) /\ held[k] \in 0 .. Len(Log[k])
    <2> TAKE k \in Kinds
    <2>1. seen[k] = 1 /\ held[k] = 0 /\ Len(Log[k]) = 1
      BY <1>4, <1>5
    <2>2. 1 \in 1 .. 1 /\ 0 \in 0 .. 1
      OBVIOUS
    <2>3. QED BY <2>1, <2>2
  <1>7. /\ dirty \in BOOLEAN /\ retry \in BOOLEAN /\ failed \in BOOLEAN
        /\ pc \in Steps /\ attempt \in 0 .. MaxAttempts - 1 /\ left \in 0 .. MaxEvents
    <2>1. 0 \in 0 .. MaxAttempts - 1 /\ MaxEvents \in 0 .. MaxEvents
      BY ConstantsAssumption
    <2>2. QED BY <2>1 DEF Init, Steps
  <1>8. QED BY <1>1, <1>2, <1>3, <1>4, <1>6, <1>7 DEF TypeOK, HeldOK, Init

\* Every step keeps it.
LEMMA IInvNext == IInv /\ [Next]_vars => IInv'
  <1> SUFFICES ASSUME TypeOK, HeldOK, [Next]_vars PROVE TypeOK' /\ HeldOK'
    BY DEF IInv
  <1>1. CASE Worker \/ CallFails
    <2>1. LogsGrow /\ WorkerOK' /\ UNCHANGED seen
      BY <1>1, ReadsOK, WritesOK, CallFailsOK DEF Worker
    <2>2. QED BY <2>1, PositionsStay DEF TypeOK, WorkerOK, LogsGrow, Extends
  <1>2. CASE Others
    <2>1. LogsGrow /\ UNCHANGED <<seen, queue, worker>> /\ left' \in 0 .. MaxEvents
      BY <1>2, OthersGrow
    <2>2. TypeOK'
      BY <2>1, PositionsStay DEF TypeOK, LogsGrow, Extends, queue, worker
    <2>3. HeldOK'
      <3>1. held["so"] \in 0 .. Len(soLog) /\ held["hpa"] \in 0 .. Len(hpaLog) /\ held["sks"] \in 0 .. Len(sksLog)
        BY DEF TypeOK, Kinds, Log
      <3>2. /\ held["so"] >= 1 => soLog'[held["so"]] = soLog[held["so"]]
            /\ held["hpa"] >= 1 => hpaLog'[held["hpa"]] = hpaLog[held["hpa"]]
            /\ held["sks"] >= 1 => sksLog'[held["sks"]] = sksLog[held["sks"]]
        BY <2>1, <3>1, PositionsStay
      <3>3. QED BY <2>1, <3>2 DEF HeldOK, worker
    <2>4. QED BY <2>2, <2>3
  <1>3. CASE (\E k \in Kinds : Deliver(k)) \/ RetryFires \/ Resync \/ Restart
    BY <1>3, ControllerOK
  <1>4. CASE UNCHANGED vars
    BY <1>4 DEF vars, api, queue, worker, TypeOK, HeldOK, Log
  <1>5. QED BY <1>1, <1>2, <1>3, <1>4 DEF Next

\* Type correctness, and that the worker acts only on versions it holds and has
\* checked: an SO or SKS it is about to update is one that the PA controls.
THEOREM IInvHolds == Spec => []IInv
  BY IInvInit, IInvNext, PTL DEF Spec

\* The reconciler and its environment keep every variable in its type, for any
\* numbers of replicas, attempts and disturbances.
THEOREM TypeCorrect == Spec => []TypeOK
  BY IInvHolds, PTL DEF IInv

\* A write to the SO that the API server accepts is on the version whose owner was
\* checked, so a step that changes somebody else's SO can only remove it.
LEMMA ForeignSOStep ==
  ASSUME IInv, [Next]_vars, SO.owner = "other", soLog' # soLog
  PROVE  ~ Exists(SO')
  <1>1. Len(soLog) \in Nat /\ soLog \in Seq(SOType)
    BY CurrentTyped DEF IInv, TypeOK
  <1>2. Exists(Current(soLog))
    BY DEF SO, Exists, NoObject
  <1>3. ~ SOCreated
    BY <1>2 DEF SOCreated
  <1>4. ~ (pc = "updateSO" /\ SOUpdated)
    BY DEF SOUpdated, IInv, HeldOK, ControlledByPA, SO, Current
  <1>5. UserSO
    BY <1>3, <1>4 DEF Next, Worker, Take, ReadSO, CreateSO, UpdateSO, ReadHPA, ReadSKS, CreateSKS,
       UpdateSKS, WriteStatus, Refetch, CallFails, SKSCreated, SKSUpdated, StatusUpdated, Deliver,
       RetryFires, Resync, Restart, Others, ChangePA, Keda, HPASettles, HPAMoves, SKSProgresses,
       SKSBreaks, vars, api
  <1>6. soLog' = Append(soLog, NoObject)
    BY <1>2, <1>5 DEF UserSO, SO
  <1>7. SO' = NoObject
    BY <1>1, <1>6 DEF SO, Current
  <1>8. QED BY <1>7 DEF Exists

\* Somebody else's SO is never modified, whatever the lag of the caches.
THEOREM ForeignSOSafe == Spec => ForeignSOUntouched
  <1>1. IInv /\ [Next]_vars => [SO.owner = "other" /\ soLog' # soLog => ~ Exists(SO')]_vars
    BY ForeignSOStep
  <1>2. QED BY <1>1, IInvHolds, PTL DEF Spec, ForeignSOUntouched

\* The same of the SKS: its controller only reports on it.
LEMMA ForeignSKSStep ==
  ASSUME IInv, [Next]_vars, SKS.owner = "other", Exists(SKS')
  PROVE  SKS'.owner = "other" /\ SKS'.mode = SKS.mode
  <1>1. /\ Len(sksLog) \in Nat /\ sksLog \in Seq(SKSType) /\ SKS \in SKSType
        /\ \A e \in SKSType : Append(sksLog, e)[Len(Append(sksLog, e))] = e
    BY CurrentTyped DEF IInv, TypeOK, SKS
  <1>2. Exists(SKS)
    BY DEF Exists, NoObject
  <1>3. ~ SKSCreated
    BY <1>2 DEF SKSCreated, SKS
  <1>4. ~ (pc = "updateSKS" /\ SKSUpdated)
    BY DEF SKSUpdated, IInv, HeldOK, ControlledByPA, SKS, Current
  <1>5. SKSProgresses \/ SKSBreaks \/ UNCHANGED sksLog
    BY <1>3, <1>4 DEF Next, Worker, Take, ReadSO, CreateSO, UpdateSO, ReadHPA, ReadSKS, CreateSKS,
       UpdateSKS, WriteStatus, Refetch, CallFails, SOCreated, SOUpdated, StatusUpdated, Deliver,
       RetryFires, Resync, Restart, Others, ChangePA, Keda, HPASettles, HPAMoves, UserSO, vars, api
  <1>6. CASE UNCHANGED sksLog
    BY <1>6 DEF SKS, Current
  <1>7. CASE sksLog' = Append(sksLog, [SKS EXCEPT !.phase = "ready"])
    <2>1. [SKS EXCEPT !.phase = "ready"] \in SKSType
      BY <1>1, <1>2 DEF SKSType, Exists
    <2>2. SKS' = [SKS EXCEPT !.phase = "ready"]
      BY <1>1, <1>7, <2>1 DEF SKS, Current
    <2>3. QED BY <1>1, <1>2, <2>2 DEF SKSType, Exists
  <1>8. CASE sksLog' = Append(sksLog, NoObject)
    <2>1. SKS' = NoObject
      BY <1>1, <1>8 DEF SKS, Current, SKSType
    <2>2. QED BY <2>1 DEF Exists
  <1>9. QED BY <1>2, <1>5, <1>6, <1>7, <1>8 DEF SKSProgresses, SKSBreaks, SKS

\* Somebody else's SKS is never given another mode or owner by the reconciler.
THEOREM ForeignSKSSafe == Spec => ForeignSKSUntouched
  <1>1. IInv /\ [Next]_vars =>
          [SKS.owner = "other" /\ Exists(SKS') => SKS'.owner = "other" /\ SKS'.mode = SKS.mode]_vars
    BY ForeignSKSStep
  <1>2. QED BY <1>1, IInvHolds, PTL DEF Spec, ForeignSKSUntouched

-------------------------------------------------------------------------------
(* The observed generation. *)

CachedGeneration == paLog[seen["pa"]].generation

\* Why a stale status never takes the observed generation back: it was computed
\* from a version at least as new as any whose generation has been published, and
\* no newer than the cache.
ObservedOK ==
  /\ \A i, j \in DOMAIN paLog : i <= j => paLog[i].generation <= paLog[j].generation
  /\ Published.observed <= CachedGeneration
  /\ pc \notin {"idle", "writeStatus", "refetch"} =>
       PA.generation >= Published.observed /\ PA.generation <= CachedGeneration
  /\ pc \in {"writeStatus", "refetch"} =>
       status.observed >= Published.observed /\ status.observed <= CachedGeneration

\* The numbers it compares are numbers.
LEMMA GenerationsTyped ==
  ASSUME IInv
  PROVE  /\ Len(paLog) \in Nat /\ Len(paLog) >= 1 /\ DOMAIN paLog = 1 .. Len(paLog)
         /\ \A i \in DOMAIN paLog : paLog[i] \in PAType /\ paLog[i].generation \in Nat
                                   /\ paLog[i].status.observed \in Nat
         /\ seen["pa"] \in DOMAIN paLog /\ Len(paLog) \in DOMAIN paLog
         /\ CachedGeneration \in Nat /\ Published.observed \in Nat /\ status.observed \in Nat
         /\ pc # "idle" => held["pa"] \in DOMAIN paLog /\ PA.generation \in Nat
  <1>1. /\ Len(paLog) \in Nat /\ Len(paLog) >= 1 /\ DOMAIN paLog = 1 .. Len(paLog)
    BY CurrentTyped DEF IInv, TypeOK, Kinds, Log
  <1>2. \A i \in DOMAIN paLog : paLog[i] \in PAType /\ paLog[i].generation \in Nat
                              /\ paLog[i].status.observed \in Nat
    <2>1. \A i \in DOMAIN paLog : paLog[i] \in PAType
      BY <1>1 DEF IInv, TypeOK
    <2>2. \A pa \in PAType : pa.generation \in Nat /\ pa.status \in StatusType
      BY DEF PAType
    <2>3. \A st \in StatusType : st.observed \in Nat
      BY DEF StatusType
    <2>4. QED BY <2>1, <2>2, <2>3
  <1>3. seen["pa"] \in DOMAIN paLog /\ Len(paLog) \in DOMAIN paLog
    BY <1>1 DEF IInv, TypeOK, Kinds, Log
  <1>4. status.observed \in Nat
    BY DEF IInv, TypeOK, StatusType
  <1>5. pc # "idle" => held["pa"] \in DOMAIN paLog
    <2>1. held["pa"] \in 0 .. Len(paLog)
      BY DEF IInv, TypeOK, Kinds, Log
    <2>2. pc # "idle" => held["pa"] >= 1
      BY DEF IInv, HeldOK
    <2>3. QED BY <1>1, <2>1, <2>2
  <1>6. QED BY <1>1, <1>2, <1>3, <1>4, <1>5 DEF CachedGeneration, Published, Current, PA

\* Steps that leave the PA alone move its cache only forward.
LEMMA ObservedAlone ==
  ASSUME IInv, IInv', ObservedOK, UNCHANGED paLog, seen'["pa"] >= seen["pa"]
  PROVE  /\ CachedGeneration' >= CachedGeneration /\ UNCHANGED Published
         /\ \A i, j \in DOMAIN paLog' : i <= j => paLog'[i].generation <= paLog'[j].generation
  <1>1. seen["pa"] \in DOMAIN paLog /\ seen'["pa"] \in DOMAIN paLog
    <2>1. seen'["pa"] \in DOMAIN paLog'
      BY GenerationsTyped DEF IInv, TypeOK, Kinds, Log
    <2>2. QED BY <2>1, GenerationsTyped
  <1>2. CachedGeneration' >= CachedGeneration
    BY <1>1 DEF ObservedOK, CachedGeneration
  <1>3. QED BY <1>2 DEF ObservedOK, Published, Current
Between == {"idle", "writeStatus", "refetch"}    \* no generation is being reconciled

\* A step in the middle of a run either goes on with the PA it holds or returns with
\* its generation as the observed one.
LEMMA ObservedInRun ==
  ASSUME IInv, IInv', ObservedOK, UNCHANGED <<paLog, seen>>, held'["pa"] = held["pa"],
         pc \notin Between,
         \/ pc' \notin Between
         \/ \E st, err : Return(st, err) /\ st \in StatusType
  PROVE  ObservedOK' /\ UNCHANGED Published
  <1>1. /\ CachedGeneration' = CachedGeneration /\ UNCHANGED <<Published, PA>>
        /\ \A i, j \in DOMAIN paLog' : i <= j => paLog'[i].generation <= paLog'[j].generation
    BY DEF ObservedOK, CachedGeneration, Published, Current, PA
  <1>2. PA.generation >= Published.observed /\ PA.generation <= CachedGeneration
    BY DEF ObservedOK, Between
  <1>3. CASE pc' \notin Between
    BY <1>1, <1>2, <1>3 DEF ObservedOK, Between
  <1>4. CASE \E st, err : Return(st, err) /\ st \in StatusType
    <2>1. pc' = "writeStatus" /\ status'.observed = PA.generation
      BY <1>4 DEF Return, Goto, StatusType
    <2>2. QED BY <1>1, <1>2, <2>1 DEF ObservedOK
  <1>5. QED BY <1>3, <1>4

\* Those steps are all of the worker's and of CallFails but the first and the last.
LEMMA InRunSteps ==
  ASSUME IInv, \/ ReadSO \/ CreateSO \/ UpdateSO \/ ReadHPA \/ ReadSKS \/ CreateSKS \/ UpdateSKS
               \/ CallFails /\ pc \notin Between
  PROVE  /\ UNCHANGED <<paLog, seen>> /\ held'["pa"] = held["pa"] /\ pc \notin Between
         /\ \/ pc' \notin Between
            \/ \E st, err : Return(st, err) /\ st \in StatusType
  <1>1. /\ status \in StatusType /\ held \in [Kinds -> Nat]
        /\ \A r \in {"NotOwned", "FailedCreate"} : MarkInactive(status, r) \in StatusType
    BY StatusTyped DEF IInv, TypeOK
  <1>2. CASE ReadSO \/ ReadHPA
    BY <1>1, <1>2 DEF ReadSO, ReadHPA, Between, Continue, Goto, api, Kinds
  <1>3. CASE CreateSO
    BY <1>1, <1>3 DEF CreateSO, SOCreated, Between, Continue, Goto, api, Kinds
  <1>4. CASE UpdateSO
    BY <1>1, <1>4 DEF UpdateSO, SOUpdated, Between, Continue, Goto, api
  <1>5. CASE ReadSKS \/ CreateSKS \/ UpdateSKS
    <2>1. pc \in {"readSKS", "createSKS", "updateSKS"}
      BY <1>5 DEF ReadSKS, CreateSKS, UpdateSKS
    <2>2. \A sks : Activate(WithSKS(status, PA.spec, sks, HPA), HPA) \in StatusType
      BY <1>1, <2>1, StatusTyped, HeldTyped DEF IInv
    <2>3. CASE ReadSKS
      BY <1>1, <2>2, <2>3 DEF ReadSKS, FinishWith, Between, Continue, Goto, api, Kinds
    <2>4. CASE CreateSKS \/ UpdateSKS
      BY <1>1, <2>2, <2>4 DEF CreateSKS, UpdateSKS, SKSCreated, SKSUpdated, FinishWith, Between, api
    <2>5. QED BY <1>5, <2>3, <2>4
  <1>6. CASE CallFails /\ pc \notin Between
    BY <1>1, <1>6 DEF CallFails, SOCreated, SOUpdated, SKSCreated, SKSUpdated, Between, api
  <1>7. QED BY <1>2, <1>3, <1>4, <1>5, <1>6

\* A new version of the PA keeps the generations in order, and the observed one in
\* its bounds, if it takes neither back.
LEMMA ObservedAppend ==
  ASSUME IInv, IInv', ObservedOK, NEW pa \in PAType, paLog' = Append(paLog, pa), UNCHANGED seen,
         pa.generation >= Current(paLog).generation,
         pa.status.observed >= Published.observed, pa.status.observed <= CachedGeneration
  PROVE  /\ CachedGeneration' = CachedGeneration /\ Published'.observed = pa.status.observed
         /\ \A i, j \in DOMAIN paLog' : i <= j => paLog'[i].generation <= paLog'[j].generation
         /\ \A i \in DOMAIN paLog : paLog'[i] = paLog[i]
  <1> DEFINE n == Len(paLog)
  <1>1. /\ n \in Nat /\ n >= 1 /\ DOMAIN paLog = 1 .. n /\ seen["pa"] \in 1 .. n
        /\ \A i \in 1 .. n : paLog[i].generation \in Nat
    BY GenerationsTyped
  <1>2. /\ DOMAIN paLog' = 1 .. n + 1 /\ Len(paLog') = n + 1 /\ paLog'[n + 1] = pa
        /\ \A i \in 1 .. n : paLog'[i] = paLog[i]
    <2>1. paLog \in Seq(PAType)
      BY DEF IInv, TypeOK
    <2>2. /\ Len(Append(paLog, pa)) = n + 1 /\ Append(paLog, pa)[n + 1] = pa
          /\ \A i \in 1 .. n : Append(paLog, pa)[i] = paLog[i]
          /\ DOMAIN Append(paLog, pa) = 1 .. n + 1
      BY <2>1
    <2>3. QED BY <2>2
  <1>3. CachedGeneration' = CachedGeneration
    BY <1>1, <1>2 DEF CachedGeneration
  <1>4. Published' = pa.status
    BY <1>2 DEF Published, Current
  <1>5. \A i \in 1 .. n : paLog[i].generation <= pa.generation
    <2>1. pa.generation \in Nat /\ pa.generation >= paLog[n].generation
      BY DEF PAType, Current
    <2>2. \A i \in DOMAIN paLog : n \in DOMAIN paLog /\ i <= n
      BY <1>1
    <2>3. \A i \in DOMAIN paLog : paLog[i].generation <= paLog[n].generation
      BY <2>2 DEF ObservedOK
    <2>4. n \in 1 .. n
      BY <1>1
    <2>5. QED BY <1>1, <2>1, <2>3, <2>4
  <1>6. ASSUME NEW i \in 1 .. n + 1, NEW j \in 1 .. n + 1, i <= j
        PROVE  paLog'[i].generation <= paLog'[j].generation
    <2>1. CASE j = n + 1 /\ i = n + 1
      BY <1>2, <2>1 DEF PAType
    <2>2. CASE j = n + 1 /\ i # n + 1
      BY <1>1, <1>2, <1>5, <2>2
    <2>3. CASE j # n + 1
      <3>1. i \in 1 .. n /\ j \in 1 .. n
        BY <1>1, <1>6, <2>3
      <3>2. QED BY <1>1, <1>2, <1>6, <3>1 DEF ObservedOK
    <2>4. QED BY <2>1, <2>2, <2>3
  <1>7. QED BY <1>1, <1>2, <1>3, <1>4, <1>6

\* The status written is at least as new as the one it replaces.
LEMMA ObservedWrite ==
  ASSUME IInv, IInv', ObservedOK, pc = "writeStatus", StatusUpdated, pc' = "idle", UNCHANGED seen
  PROVE  ObservedOK' /\ Published'.observed >= Published.observed
  <1> DEFINE pa == [PA EXCEPT !.status = status]
  <1>1. PA = Current(paLog) /\ PA \in PAType /\ status \in StatusType
    BY CurrentTyped DEF StatusUpdated, PA, Current, IInv, TypeOK
  <1>2. pa \in PAType /\ pa.generation = PA.generation /\ pa.status = status
    BY <1>1 DEF PAType
  <1>3. status.observed >= Published.observed /\ status.observed <= CachedGeneration
    BY DEF ObservedOK
  <1>4. paLog' = Append(paLog, pa) /\ pa.generation >= Current(paLog).generation
    BY <1>1, <1>2 DEF StatusUpdated, PAType
  <1> HIDE DEF pa
  <1>5. /\ CachedGeneration' = CachedGeneration /\ Published'.observed = status.observed
        /\ \A i, j \in DOMAIN paLog' : i <= j => paLog'[i].generation <= paLog'[j].generation
    BY <1>2, <1>3, <1>4, ObservedAppend
  <1>6. QED BY <1>3, <1>5 DEF ObservedOK

\* A change of the PA leaves the status it has.
LEMMA ObservedChange ==
  ASSUME IInv, IInv', ObservedOK, ChangePA
  PROVE  ObservedOK' /\ Published'.observed >= Published.observed
  <1> DEFINE old == Current(paLog)
             g(spec) == IF spec.reachable = old.spec.reachable
                        THEN old.generation ELSE old.generation + 1
  <1>1. PICK spec \in Specs : paLog' = Append(paLog, [old EXCEPT !.spec = spec, !.generation = g(spec)])
    BY DEF ChangePA
  <1>2. UNCHANGED <<seen, pc, held, status>>
    BY DEF ChangePA, Controller, worker
  <1>3. old \in PAType /\ old.generation \in Nat /\ spec \in SpecType
    BY ConstantsAssumption, CurrentTyped DEF PAType, IInv
  <1>4. g(spec) \in Nat /\ g(spec) >= old.generation
    BY <1>3
  <1> HIDE DEF g
  <1> DEFINE pa == [old EXCEPT !.spec = spec, !.generation = g(spec)]
  <1>5. pa \in PAType /\ pa.generation = g(spec) /\ pa.status = Published
    BY <1>3, <1>4 DEF PAType, Published
  <1>6. paLog' = Append(paLog, pa)
    BY <1>1
  <1> HIDE DEF pa, old
  <1>7. Published.observed \in Nat /\ CachedGeneration \in Nat /\ Published.observed <= CachedGeneration
    BY GenerationsTyped DEF ObservedOK
  <1>8. pa.generation >= Current(paLog).generation
    BY <1>4, <1>5 DEF old
  <1>9. pa.status.observed >= Published.observed /\ pa.status.observed <= CachedGeneration
    BY <1>5, <1>7
  <1>10. /\ CachedGeneration' = CachedGeneration /\ Published'.observed = Published.observed
         /\ \A i, j \in DOMAIN paLog' : i <= j => paLog'[i].generation <= paLog'[j].generation
         /\ \A i \in DOMAIN paLog : paLog'[i] = paLog[i]
    BY <1>2, <1>5, <1>6, <1>8, <1>9, ObservedAppend
  <1>11. pc # "idle" => PA' = PA
    BY <1>2, <1>10, GenerationsTyped DEF PA
  <1>12. QED BY <1>2, <1>7, <1>10, <1>11 DEF ObservedOK

\* A step that leaves the PA alone, and the worker outside a run or where it is.
LEMMA ObservedIdle ==
  ASSUME IInv, IInv', ObservedOK, UNCHANGED paLog, seen'["pa"] >= seen["pa"],
         \/ pc' = "idle"
         \/ pc \in {"writeStatus", "refetch"} /\ pc' \in {"writeStatus", "refetch"}
              /\ UNCHANGED status
         \/ UNCHANGED worker
  PROVE  ObservedOK' /\ UNCHANGED Published
  <1>1. /\ CachedGeneration' >= CachedGeneration /\ UNCHANGED Published
        /\ \A i, j \in DOMAIN paLog' : i <= j => paLog'[i].generation <= paLog'[j].generation
    BY ObservedAlone
  <1>2. /\ CachedGeneration \in Nat /\ CachedGeneration' \in Nat
        /\ Published.observed \in Nat /\ status.observed \in Nat
        /\ pc # "idle" => PA.generation \in Nat
    <2>1. seen'["pa"] \in DOMAIN paLog'
      BY GenerationsTyped DEF IInv, TypeOK, Kinds, Log
    <2>2. QED BY <2>1, GenerationsTyped DEF CachedGeneration
  <1>3. CASE pc' = "idle"
    BY <1>1, <1>2, <1>3 DEF ObservedOK
  <1>4. CASE pc \in {"writeStatus", "refetch"} /\ pc' \in {"writeStatus", "refetch"}
               /\ UNCHANGED status
    BY <1>1, <1>2, <1>4 DEF ObservedOK
  <1>5. CASE UNCHANGED worker
    <2>1. PA' = PA /\ UNCHANGED <<pc, status>>
      BY <1>5 DEF worker, PA
    <2>2. QED BY <1>1, <1>2, <2>1 DEF ObservedOK
  <1>6. QED BY <1>3, <1>4, <1>5

\* Every step keeps the invariant and does not take the observed generation back.
LEMMA ObservedStep ==
  ASSUME IInv, IInv', ObservedOK, [Next]_vars
  PROVE  ObservedOK' /\ Published'.observed >= Published.observed
  <1>1. UNCHANGED Published => Published'.observed >= Published.observed
    BY GenerationsTyped
  <1>2. CASE Take
    <2> DEFINE pa == paLog[seen["pa"]]
    <2>1. pa \in PAType /\ PreProcess(pa) \in StatusType /\ pa.generation = CachedGeneration
      BY SeenTyped, PreProcessTyped DEF IInv, CachedGeneration
    <2>2. /\ UNCHANGED <<paLog, seen>> /\ held' = [held EXCEPT !["pa"] = seen["pa"]]
          /\ \/ pc' \in {"readHPA", "readSO"}
             \/ pc' = "writeStatus" /\ status' = [PreProcess(pa) EXCEPT !.observed = pa.generation]
      BY <1>2 DEF Take, Goto, api
    <2>3. PA' = pa
      BY <2>2 DEF PA, IInv, TypeOK, Kinds
    <2>4. pc' = "writeStatus" => status'.observed = CachedGeneration
      BY <2>1, <2>2 DEF StatusType
    <2>5. UNCHANGED <<Published, CachedGeneration>>
      BY <2>2 DEF Published, Current, CachedGeneration
    <2>6. CachedGeneration \in Nat /\ Published.observed <= CachedGeneration
      BY GenerationsTyped DEF ObservedOK
    <2>7. QED BY <1>1, <2>1, <2>2, <2>3, <2>4, <2>5, <2>6 DEF ObservedOK
  <1>3. CASE ReadSO \/ CreateSO \/ UpdateSO \/ ReadHPA \/ ReadSKS \/ CreateSKS \/ UpdateSKS
    BY <1>1, <1>3, InRunSteps, ObservedInRun
  <1>4. CASE WriteStatus
    <2>1. UNCHANGED seen /\ pc = "writeStatus" /\ seen'["pa"] >= seen["pa"]
      BY <1>4, GenerationsTyped DEF WriteStatus
    <2>2. CASE StatusUpdated /\ Done(failed)
      BY <2>1, <2>2, ObservedWrite DEF Done
    <2>3. CASE UNCHANGED api /\ pc' = "idle"
      BY <1>1, <2>1, <2>3, ObservedIdle DEF api
    <2>4. CASE UNCHANGED api /\ pc' = "refetch" /\ UNCHANGED status
      BY <1>1, <2>1, <2>4, ObservedIdle DEF api
    <2>5. QED BY <1>4, <2>2, <2>3, <2>4 DEF WriteStatus, Done, Goto
  <1>5. CASE Refetch
    <2>1. /\ UNCHANGED <<paLog, seen, status>> /\ pc = "refetch" /\ pc' = "writeStatus"
          /\ seen'["pa"] >= seen["pa"]
      BY <1>5, GenerationsTyped DEF Refetch, Goto, api
    <2>2. QED BY <1>1, <2>1, ObservedIdle
  <1>6. CASE CallFails
    <2>1. UNCHANGED seen /\ seen'["pa"] >= seen["pa"]
      BY <1>6, GenerationsTyped DEF CallFails
    <2>2. CASE pc \notin Between
      BY <1>1, <1>6, <2>2, InRunSteps, ObservedInRun
    <2>3. CASE pc \in Between
      <3>1. pc' = "idle" /\ (UNCHANGED api \/ (pc = "writeStatus" /\ StatusUpdated))
        <4>1. pc \in {"writeStatus", "refetch"}
          BY <1>6, <2>3 DEF CallFails, Between
        <4>2. /\ \/ pc = "writeStatus" /\ (StatusUpdated \/ UNCHANGED api)
                 \/ UNCHANGED api
              /\ Done(TRUE)
          BY <1>6, <4>1 DEF CallFails
        <4>3. pc' = "idle"
          BY <4>2 DEF Done
        <4>4. UNCHANGED api \/ (pc = "writeStatus" /\ StatusUpdated)
          BY <4>2
        <4>5. QED BY <4>3, <4>4
      <3>2. CASE UNCHANGED api
        BY <1>1, <2>1, <3>1, <3>2, ObservedIdle DEF api
      <3>3. CASE pc = "writeStatus" /\ StatusUpdated
        BY <2>1, <3>1, <3>3, ObservedWrite
      <3>4. QED BY <3>1, <3>2, <3>3
    <2>4. QED BY <2>2, <2>3
  <1>7. CASE ChangePA
    BY <1>7, ObservedChange
  <1>8. CASE (\E k \in Kinds : Deliver(k)) \/ RetryFires \/ Resync \/ (Others /\ ~ ChangePA)
                \/ UNCHANGED vars
    <2>1. seen'["pa"] >= seen["pa"] /\ UNCHANGED <<paLog, worker>>
      <3>1. seen \in [Kinds -> Nat]
        BY DEF IInv, TypeOK
      <3>2. CASE \E k \in Kinds : Deliver(k)
        BY <3>1, <3>2 DEF Deliver, api, Kinds
      <3>3. CASE RetryFires \/ Resync \/ UNCHANGED vars
        BY <3>1, <3>3 DEF RetryFires, Resync, vars, api, worker, Kinds
      <3>4. CASE Others /\ ~ ChangePA
        <4>1. UNCHANGED <<seen, worker>>
          BY <3>4, OthersGrow DEF IInv
        <4>2. UNCHANGED paLog
          BY <3>4 DEF Others, UserSO, Keda, HPASettles, HPAMoves, SKSProgresses, SKSBreaks
        <4>3. seen'["pa"] >= seen["pa"]
          BY <4>1, GenerationsTyped
        <4>4. QED BY <4>1, <4>2, <4>3
      <3>5. QED BY <1>8, <3>2, <3>3, <3>4
    <2>2. QED BY <1>1, <2>1, ObservedIdle
  <1>9. CASE Restart
    <2>1. pc' = "idle" /\ UNCHANGED paLog /\ seen'["pa"] = Len(paLog)
      BY <1>9 DEF Restart, api
    <2>2. seen'["pa"] >= seen["pa"]
      BY <2>1, GenerationsTyped
    <2>3. QED BY <1>1, <2>1, <2>2, ObservedIdle
  <1>10. QED BY <1>2, <1>3, <1>4, <1>5, <1>6, <1>7, <1>8, <1>9 DEF Next, Worker, Others

\* The invariant holds when the controller starts: nothing has been observed yet.
LEMMA ObservedInit == Init => ObservedOK
  <1> SUFFICES ASSUME Init PROVE ObservedOK
    OBVIOUS
  <1>1. PICK spec \in StartSpecs :
          paLog = << [generation |-> 1, spec |-> spec, status |-> FreshStatus] >>
    BY DEF Init
  <1> DEFINE pa == [generation |-> 1, spec |-> spec, status |-> FreshStatus]
  <1>2. /\ Len(paLog) = 1 /\ DOMAIN paLog = 1 .. 1 /\ paLog[1].generation = 1
        /\ paLog[1].status.observed = 0
    <2>1. pa.generation = 1 /\ pa.status.observed = 0
      BY DEF FreshStatus
    <2> HIDE DEF pa
    <2>2. paLog = <<pa>>
      BY <1>1 DEF pa
    <2>3. QED BY <2>1, <2>2
  <1>3. seen["pa"] = 1 /\ pc = "idle"
    BY DEF Init, Kinds
  <1>4. \A i \in DOMAIN paLog : i = 1
    BY <1>2
  <1>5. Published.observed = 0 /\ CachedGeneration = 1
    BY <1>2, <1>3 DEF Published, Current, CachedGeneration
  <1>6. \A i, j \in DOMAIN paLog : paLog[i].generation <= paLog[j].generation
    BY <1>2, <1>4
  <1>7. QED BY <1>3, <1>5, <1>6 DEF ObservedOK

\* What is published was computed from a version the cache had, so it never runs
\* ahead of the generation of the PA.
LEMMA ObservedBounded ==
  ASSUME IInv, ObservedOK
  PROVE  Published.observed <= Current(paLog).generation
  <1>1. CachedGeneration <= Current(paLog).generation
    BY GenerationsTyped DEF ObservedOK, CachedGeneration, Current
  <1>2. QED BY <1>1, GenerationsTyped DEF ObservedOK, Current

\* The observed generation is monotone and never ahead of the generation, for any
\* lag of the cache, any number of conflicts and any crash in between.
THEOREM ObservedIsMonotone == Spec => ObservedMonotone
  <1> DEFINE Bounded == Published.observed <= Current(paLog).generation
             Grows   == Published'.observed >= Published.observed
             Mono    == Grows /\ Published'.observed <= Current(paLog)'.generation
  <1>1. Init => ObservedOK
    BY ObservedInit
  <1>2. IInv /\ IInv' /\ ObservedOK /\ [Next]_vars => ObservedOK' /\ Grows
    BY ObservedStep
  <1>3. IInv /\ ObservedOK => Bounded
    BY ObservedBounded
  <1>4. Bounded' /\ Grows => Mono
    OBVIOUS
  <1> HIDE DEF Bounded, Grows, Mono
  <1>5. Spec => [][Mono]_vars
    BY <1>1, <1>2, <1>3, <1>4, IInvHolds, PTL DEF Spec
  <1>6. QED BY <1>5, PTL DEF ObservedMonotone, Mono, Grows
===============================================================================
