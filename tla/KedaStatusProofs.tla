--------------------------- MODULE KedaStatusProofs ---------------------------
(***************************************************************************)
(* What the status published on a PA says has a cause, and every write has *)
(* an effect: for every configuration, any number of replicas, attempts    *)
(* and disturbances, and any lag of the caches.                            *)
(***************************************************************************)
EXTENDS KedaReconcilerProofs

\* What a status may be due to, if it has ever been at the API server.
ForeignSeen ==
  \/ \E i \in DOMAIN soLog : soLog[i].owner = "other"
  \/ \E i \in DOMAIN sksLog : sksLog[i].owner = "other"

ScaleSeen ==
  \E i \in DOMAIN hpaLog, j \in DOMAIN paLog :
    Exists(hpaLog[i]) /\ hpaLog[i].current >= ActiveThreshold(paLog[j].spec)

ServiceSeen == \E i \in DOMAIN sksLog : sksLog[i].owner = "pa" /\ sksLog[i].phase = "ready"

\* A status whose parts agree, and have a cause in what has been seen.
ReadyAgrees(conds) == conds["Ready"] = "True" => \A t \in PodDependents : conds[t] = "True"

Justified(st, foreign, earned) ==
  /\ ReadyAgrees(st.conds)
  /\ st.conds["Active"] = "True" => st.why = "" /\ st.scale # FreshStatus.scale
  /\ st.conds["SKSReady"] = "True" => st.service
  /\ Initialized(st) => earned
  /\ st.why = "NotOwned" => foreign

\* Not only of what is published: the worker's copy began as an older version.
StatusOK ==
  /\ Justified(status, ForeignSeen, ScaleSeen /\ ServiceSeen)
  /\ \A i \in DOMAIN paLog : Justified(paLog[i].status, ForeignSeen, ScaleSeen /\ ServiceSeen)

-------------------------------------------------------------------------------
(* The marks *)

\* What a mark does to each dependent, and to Ready.
LEMMA Marks ==
  ASSUME NEW c \in CondsType, NEW t \in PodDependents
  PROVE  /\ \A d \in PodDependents :
              /\ Cond!MarkTrue(c, t)[d] = (IF d = t THEN "True" ELSE c[d])
              /\ Cond!MarkFalse(c, t)[d] = (IF d = t THEN "False" ELSE c[d])
              /\ Cond!MarkUnknown(c, t)[d] = (IF d = t THEN "Unknown" ELSE c[d])
         /\ ReadyAgrees(Cond!MarkTrue(c, t)) /\ ReadyAgrees(Cond!MarkFalse(c, t))
         /\ ReadyAgrees(Cond!MarkUnknown(c, t))
  <1>1. c = [d \in Cond!Types |-> c[d]] /\ \A d \in Cond!Types : c[d] \in Cond!Statuses
    BY DEF CondsType
  <1>2. PodDependents \subseteq Cond!Types /\ "Ready" \in Cond!Types /\ "Ready" \notin PodDependents
    BY DEF PodDependents, Cond!Types, Cond!Happy
  <1> DEFINE s(v) == [c EXCEPT ![t] = v]
  <1>3. \A v, d : d \in Cond!Types => s(v)[d] = IF d = t THEN v ELSE c[d]
    BY <1>1, <1>2
  <1>4. \A v : s(v) = [d \in Cond!Types |-> s(v)[d]]
    BY <1>1
  <1>5. Cond!MarkTrue(c, t) = [s("True") EXCEPT !["Ready"] = Cond!Summary(s("True"))]
    BY <1>2 DEF Cond!MarkTrue, Cond!RecomputeHappiness, Cond!Happy
  <1>6. Cond!MarkFalse(c, t) = [s("False") EXCEPT !["Ready"] = "False"]
    BY DEF Cond!MarkFalse, Cond!Happy
  <1>7. Cond!MarkUnknown(c, t) \in {[s("Unknown") EXCEPT !["Ready"] = v] : v \in {"False", "Unknown"}}
    BY <1>2 DEF Cond!MarkUnknown, Cond!MarkFalse, Cond!Happy
  <1> HIDE DEF s
  <1>8. \A d \in PodDependents : Cond!MarkTrue(c, t)[d] = (IF d = t THEN "True" ELSE c[d])
    BY <1>2, <1>3, <1>4, <1>5
  <1>9. /\ \A d \in PodDependents : Cond!MarkFalse(c, t)[d] = (IF d = t THEN "False" ELSE c[d])
        /\ Cond!MarkFalse(c, t)["Ready"] = "False"
    BY <1>2, <1>3, <1>4, <1>6
  <1>10. /\ \A d \in PodDependents : Cond!MarkUnknown(c, t)[d] = (IF d = t THEN "Unknown" ELSE c[d])
         /\ Cond!MarkUnknown(c, t)["Ready"] \in {"False", "Unknown"}
    BY <1>2, <1>3, <1>4, <1>7
  <1>11. ReadyAgrees(Cond!MarkTrue(c, t))
    <2>1. Cond!MarkTrue(c, t)["Ready"] = Cond!Summary(s("True"))
      BY <1>2, <1>4, <1>5
    <2>2. Cond!Summary(s("True")) = "True" => \A d \in PodDependents : s("True")[d] \notin {"False", "Unknown", "Unset"}
      BY DEF Cond!Summary, Cond!SomeDependent
    <2>3. \A d \in PodDependents : s("True")[d] \in {"True", "False", "Unknown", "Unset"}
      BY <1>1, <1>2, <1>3 DEF Cond!Statuses
    <2>4. \A d \in PodDependents : Cond!MarkTrue(c, t)[d] = s("True")[d]
      BY <1>2, <1>3, <1>8
    <2>5. QED BY <2>1, <2>2, <2>3, <2>4 DEF ReadyAgrees
  <1>12. QED BY <1>8, <1>9, <1>10, <1>11 DEF ReadyAgrees

-------------------------------------------------------------------------------
(* The operators of ReconcileKind *)

\* What a status is made of.
LEMMA StatusFields ==
  ASSUME NEW st \in StatusType
  PROVE  st.conds \in CondsType /\ DOMAIN st = {"observed", "conds", "why", "scale", "service"}
  BY DEF StatusType, CondsType

\* PreProcessReconcile takes Ready back or leaves it: a stored Ready vouches for nothing
\* that is not known, as its dependents all are.
LEMMA PreProcessJustified ==
  ASSUME NEW pa \in PAType, NEW foreign, NEW earned, Justified(pa.status, foreign, earned)
  PROVE  Justified(PreProcess(pa), foreign, earned)
  <1> DEFINE c == pa.status.conds
             i == Cond!InitializeConditions(c)
             u == Cond!MarkUnknown(i, Cond!Happy)
  <1>1. pa.status \in StatusType /\ c \in CondsType
    BY StatusFields DEF PAType
  <1>2. PodDependents \subseteq Cond!Types /\ "Ready" \in Cond!Types /\ "Ready" \notin PodDependents
    BY DEF PodDependents, Cond!Types, Cond!Happy
  <1>3. i \in CondsType /\ u \in CondsType
    BY <1>1, <1>2, CondsTyped DEF Cond!Happy
  <1>4. \A d \in PodDependents : i[d] = "True" => c[d] = "True"
    BY <1>1, <1>2 DEF Justified, ReadyAgrees, Cond!InitializeConditions, Cond!Happy
  <1>5. ReadyAgrees(i)
    BY <1>1, <1>2 DEF Justified, ReadyAgrees, Cond!InitializeConditions, Cond!Happy
  <1> HIDE DEF i
  <1>6. /\ u \in {[[i EXCEPT !["Ready"] = "Unknown"] EXCEPT !["Ready"] = v] : v \in {"False", "Unknown"}}
             \cup {[i EXCEPT !["Ready"] = "Unknown"]}
    BY <1>2 DEF Cond!MarkUnknown, Cond!MarkFalse, Cond!Happy, Cond!Types, Cond!SomeDependent
  <1>7. (\A d \in PodDependents : u[d] = i[d]) /\ u["Ready"] # "True"
    BY <1>2, <1>3, <1>6 DEF CondsType
  <1>8. PreProcess(pa).conds \in {i, u} /\ PreProcess(pa).why = pa.status.why
        /\ PreProcess(pa).scale = pa.status.scale /\ PreProcess(pa).service = pa.status.service
    BY <1>1, StatusFields DEF PreProcess, i, StatusType
  <1> HIDE DEF u
  <1>9. /\ ReadyAgrees(PreProcess(pa).conds)
        /\ \A d \in PodDependents : PreProcess(pa).conds[d] = "True" => c[d] = "True"
    BY <1>4, <1>5, <1>7, <1>8 DEF ReadyAgrees
  <1>10. QED BY <1>8, <1>9 DEF Justified, Initialized, PodDependents

\* The observed generation is no part of it.
LEMMA ObservedJustified ==
  ASSUME NEW st \in StatusType, NEW foreign, NEW earned, Justified(st, foreign, earned), NEW n
  PROVE  Justified([st EXCEPT !.observed = n], foreign, earned)
  BY StatusFields DEF Justified, Initialized

\* MarkInactive needs a cause if the reason is NotOwned.
LEMMA InactiveJustified ==
  ASSUME NEW st \in StatusType, NEW foreign, NEW earned, Justified(st, foreign, earned),
         NEW reason, reason = "NotOwned" => foreign
  PROVE  Justified(MarkInactive(st, reason), foreign, earned)
  <1> DEFINE c == Cond!MarkFalse(st.conds, "Active")
             r == MarkInactive(st, reason)
  <1>1. ReadyAgrees(c) /\ c["Active"] = "False" /\ \A d \in PodDependents \ {"Active"} : c[d] = st.conds[d]
    BY StatusFields, Marks DEF PodDependents
  <1>2. r = [[st EXCEPT !.conds = c] EXCEPT !.why = reason]
    BY DEF MarkInactive
  <1>3. r.conds = c /\ r.why = reason /\ r.scale = st.scale /\ r.service = st.service
    BY <1>2, StatusFields
  <1> HIDE DEF c, r
  <1>4. Justified(r, foreign, earned)
    BY <1>1, <1>3 DEF Justified, Initialized, PodDependents
  <1>5. QED BY <1>4 DEF r

\* The rest of ReconcileKind needs one if it initializes the scale target.
LEMMA ActiveJustified ==
  ASSUME NEW st \in StatusType, NEW foreign, NEW earned, Justified(st, foreign, earned),
         NEW spec, NEW sks, NEW hpa \in HPAType, Exists(hpa),
         sks.phase = "ready" /\ HasEnough(hpa, spec) => earned
  PROVE  Justified(Activate(WithSKS(st, spec, sks, hpa), hpa), foreign, earned)
  <1> DEFINE w == WithSKS(st, spec, sks, hpa)
             a == Activate(w, hpa)
             c == Cond!MarkTrue(w.conds, "Active")
  <1>1. w \in StatusType
    BY StatusTyped
  <1>2. w.conds["SKSReady"] = "True" => w.service
    <2>1. CASE sks.phase # "ready"
      <3>1. w.conds = Cond!MarkUnknown(st.conds, "SKSReady")
        BY <2>1, StatusFields DEF WithSKS, WithService
      <3>2. QED BY <3>1, StatusFields, Marks DEF PodDependents
    <2>2. CASE sks.phase = "ready"
      BY <2>2, StatusFields DEF WithSKS, WithService
    <2>3. QED BY <2>1, <2>2
  <1>3. w.conds["ScaleTargetInitialized"] = "True" => earned
    <2> DEFINE t == Cond!MarkTrue(st.conds, "SKSReady")
    <2>1. t \in CondsType
      BY StatusFields, CondsTyped DEF PodDependents, Cond!Types
    <2>2. /\ t["ScaleTargetInitialized"] = st.conds["ScaleTargetInitialized"]
          /\ Cond!MarkUnknown(st.conds, "SKSReady")["ScaleTargetInitialized"] = st.conds["ScaleTargetInitialized"]
      BY StatusFields, Marks DEF PodDependents
    <2>3. \/ w.conds = t
          \/ w.conds = Cond!MarkUnknown(st.conds, "SKSReady")
          \/ sks.phase = "ready" /\ HasEnough(hpa, spec)
      BY StatusFields DEF WithSKS, WithService
    <2>4. QED BY <2>2, <2>3 DEF Justified, Initialized
  <1> HIDE DEF w
  <1>4. /\ ReadyAgrees(c) /\ c["Active"] = "True" /\ c["SKSReady"] = w.conds["SKSReady"]
        /\ c["ScaleTargetInitialized"] = w.conds["ScaleTargetInitialized"]
    BY <1>1, StatusFields, Marks DEF PodDependents
  <1>5. a = [[[w EXCEPT !.conds = c] EXCEPT !.why = ""] EXCEPT !.scale = <<hpa.desired, hpa.current>>]
    BY DEF Activate
  <1>6. a.conds = c /\ a.why = "" /\ a.scale = <<hpa.desired, hpa.current>> /\ a.service = w.service
    BY <1>1, <1>5, StatusFields
  <1>7. a.scale # FreshStatus.scale
    <2>1. hpa.desired # Unspecified
      BY DEF HPAType, Exists, Replicas, Unspecified
    <2>2. FreshStatus.scale = <<Unspecified, Unspecified>>
      BY Zenon DEF FreshStatus
    <2>3. \A n : <<hpa.desired, hpa.current>> = <<n, n>> => hpa.desired = n
      OBVIOUS
    <2>4. QED BY <1>6, <2>1, <2>2, <2>3, Zenon
  <1> HIDE DEF a, c
  <1>8. Justified(a, foreign, earned)
    BY <1>2, <1>3, <1>4, <1>6, <1>7 DEF Justified, Initialized
  <1>9. QED BY <1>8 DEF a, w

\* A status that says nothing needs no cause.
LEMMA FreshJustified ==
  ASSUME NEW foreign, NEW earned
  PROVE  Justified(FreshStatus, foreign, earned)
  BY DEF Justified, Initialized, FreshStatus, ReadyAgrees, Cond!AllUnset, Cond!Types, PodDependents,
         Cond!Happy

-------------------------------------------------------------------------------
(* What has been seen stays seen. *)

\* Whatever is in a log now is in it after any step.
LEMMA LogsStay ==
  ASSUME TypeOK, LogsGrow
  PROVE  /\ \A i \in DOMAIN paLog  : i \in DOMAIN paLog'  /\ paLog'[i]  = paLog[i]
         /\ \A i \in DOMAIN soLog  : i \in DOMAIN soLog'  /\ soLog'[i]  = soLog[i]
         /\ \A i \in DOMAIN hpaLog : i \in DOMAIN hpaLog' /\ hpaLog'[i] = hpaLog[i]
         /\ \A i \in DOMAIN sksLog : i \in DOMAIN sksLog' /\ sksLog'[i] = sksLog[i]
  <1>1. ASSUME NEW S, NEW old \in Seq(S), NEW new, Extends(old, new, S)
        PROVE  \A i \in DOMAIN old : i \in DOMAIN new /\ new[i] = old[i]
    BY <1>1 DEF Extends
  <1>2. QED BY <1>1 DEF TypeOK, LogsGrow

\* So what has been a cause remains one.
LEMMA SeenStays ==
  ASSUME TypeOK, LogsGrow
  PROVE  /\ ForeignSeen => ForeignSeen'
         /\ ScaleSeen => ScaleSeen'
         /\ ServiceSeen => ServiceSeen'
  BY LogsStay DEF ForeignSeen, ScaleSeen, ServiceSeen

\* And a status that had one keeps it.
LEMMA JustifiedStays ==
  ASSUME TypeOK, LogsGrow, NEW st, Justified(st, ForeignSeen, ScaleSeen /\ ServiceSeen)
  PROVE  Justified(st, ForeignSeen', ScaleSeen' /\ ServiceSeen')
  BY SeenStays DEF Justified

\* It is enough to look at the version that is appended, if there is one, and at the
\* worker's copy.
LEMMA StatusStays ==
  ASSUME TypeOK, LogsGrow, StatusOK,
         Justified(status', ForeignSeen, ScaleSeen /\ ServiceSeen),
         \/ UNCHANGED paLog
         \/ \E pa : /\ paLog' = Append(paLog, pa)
                   /\ Justified(pa.status, ForeignSeen, ScaleSeen /\ ServiceSeen)
  PROVE  StatusOK'
  <1>1. \A i \in DOMAIN paLog' : Justified(paLog'[i].status, ForeignSeen, ScaleSeen /\ ServiceSeen)
    <2>1. CASE UNCHANGED paLog
      BY <2>1 DEF StatusOK
    <2>2. CASE \E pa : /\ paLog' = Append(paLog, pa)
                      /\ Justified(pa.status, ForeignSeen, ScaleSeen /\ ServiceSeen)
      <3>1. PICK pa : /\ paLog' = Append(paLog, pa)
                      /\ Justified(pa.status, ForeignSeen, ScaleSeen /\ ServiceSeen)
        BY <2>2
      <3>2. paLog \in Seq(PAType)
        BY DEF TypeOK
      <3>3. \A i \in DOMAIN paLog' : paLog'[i] = pa \/ (i \in DOMAIN paLog /\ paLog'[i] = paLog[i])
        BY <3>1, <3>2
      <3>4. QED BY <3>1, <3>3 DEF StatusOK
    <2>3. QED BY <2>1, <2>2
  <1>2. Justified(status', ForeignSeen', ScaleSeen' /\ ServiceSeen')
    BY JustifiedStays
  <1>3. \A i \in DOMAIN paLog' : Justified(paLog'[i].status, ForeignSeen', ScaleSeen' /\ ServiceSeen')
    BY <1>1, JustifiedStays
  <1>4. QED BY <1>2, <1>3 DEF StatusOK

-------------------------------------------------------------------------------
(* The steps *)

Cause(st) == Justified(st, ForeignSeen, ScaleSeen /\ ServiceSeen)

\* A run that returns does so with a status that was justified before the observed
\* generation was bumped.
LEMMA ReturnJustified ==
  ASSUME NEW st \in StatusType, Cause(st), NEW err, Return(st, err)
  PROVE  Cause(status')
  BY ObservedJustified DEF Return, Cause

\* The worker forgets the status with the key.
LEMMA DoneJustified ==
  ASSUME NEW err, Done(err)
  PROVE  Cause(status')
  BY FreshJustified DEF Done, Cause

\* Whoever is found to own an object in the PA's place has been there.
LEMMA FoundForeign ==
  ASSUME TypeOK
  PROVE  /\ LET so == soLog[seen["so"]] IN Exists(so) /\ ~ ControlledByPA(so) => ForeignSeen
         /\ LET sks == sksLog[seen["sks"]] IN Exists(sks) /\ ~ ControlledByPA(sks) => ForeignSeen
  <1>1. seen["so"] \in DOMAIN soLog /\ seen["sks"] \in DOMAIN sksLog
    <2>1. soLog \in Seq(SOType) /\ sksLog \in Seq(SKSType)
      BY DEF TypeOK
    <2>2. DOMAIN soLog = 1 .. Len(soLog) /\ DOMAIN sksLog = 1 .. Len(sksLog)
      BY <2>1
    <2>3. QED BY <2>2, PositionsTyped
  <1>2. soLog[seen["so"]] \in SOType /\ sksLog[seen["sks"]] \in SKSType
    BY SeenTyped
  <1>3. \A so \in SOType : Exists(so) /\ ~ ControlledByPA(so) => so.owner = "other"
    BY DEF Exists, ControlledByPA, SOType
  <1>4. \A sks \in SKSType : Exists(sks) /\ ~ ControlledByPA(sks) => sks.owner = "other"
    BY DEF Exists, ControlledByPA, SKSType
  <1>5. soLog[seen["so"]].owner = "other" => ForeignSeen
    BY <1>1 DEF ForeignSeen
  <1>6. sksLog[seen["sks"]].owner = "other" => ForeignSeen
    BY <1>1 DEF ForeignSeen
  <1>7. QED BY <1>2, <1>3, <1>4, <1>5, <1>6

\* What a run ends with, having looked at an SKS that is ready only if it is the PA's and
\* was seen to be.
LEMMA FinishJustified ==
  ASSUME TypeOK, HeldOK, pc \in {"readSKS", "createSKS", "updateSKS"}, Cause(status),
         NEW sks, sks.phase = "ready" => ServiceSeen, FinishWith(sks)
  PROVE  Cause(status')
  <1>1. status \in StatusType /\ HPA \in HPAType /\ Exists(HPA)
    BY HeldTyped DEF TypeOK
  <1>2. HasEnough(HPA, PA.spec) => ScaleSeen
    <2>1. held["hpa"] \in DOMAIN hpaLog /\ held["pa"] \in DOMAIN paLog
      BY PositionsTyped DEF TypeOK, HeldOK
    <2>2. QED BY <1>1, <2>1 DEF HasEnough, ScaleSeen, HPA, PA
  <1> DEFINE st == Activate(WithSKS(status, PA.spec, sks, HPA), HPA)
  <1>3. st \in StatusType
    BY <1>1, StatusTyped
  <1>4. Cause(st)
    BY <1>1, <1>2, ActiveJustified DEF Cause
  <1>5. Return(st, FALSE)
    BY DEF FinishWith
  <1> HIDE DEF st
  <1>6. QED BY <1>3, <1>4, <1>5, ReturnJustified

\* A step in the middle of a run leaves the PA alone.
LEMMA InRunJustified ==
  ASSUME IInv, StatusOK,
         Take \/ ReadSO \/ CreateSO \/ UpdateSO \/ ReadHPA \/ ReadSKS \/ CreateSKS \/ UpdateSKS
  PROVE  UNCHANGED paLog /\ Cause(status')
  <1>1. TypeOK /\ HeldOK /\ status \in StatusType /\ Cause(status)
    BY DEF IInv, TypeOK, StatusOK, Cause
  <1>2. /\ MarkInactive(status, "FailedCreate") \in StatusType
        /\ MarkInactive(status, "NotOwned") \in StatusType
        /\ Cause(MarkInactive(status, "FailedCreate"))
        /\ ForeignSeen => Cause(MarkInactive(status, "NotOwned"))
    BY <1>1, StatusTyped, InactiveJustified DEF Cause
  <1>3. CASE Take
    <2> DEFINE pa == paLog[seen["pa"]]
    <2>1. pa \in PAType /\ seen["pa"] \in DOMAIN paLog
      BY <1>1, SeenTyped, PositionsTyped DEF TypeOK
    <2>2. PreProcess(pa) \in StatusType /\ Cause(PreProcess(pa))
      BY <2>1, PreProcessTyped, PreProcessJustified DEF StatusOK, Cause
    <2>3. /\ UNCHANGED paLog
          /\ status' \in {PreProcess(pa), [PreProcess(pa) EXCEPT !.observed = pa.generation]}
      BY <1>3 DEF Take, api
    <2>4. QED BY <2>2, <2>3, ObservedJustified DEF Cause
  <1>4. CASE ReadSO
    <2>1. UNCHANGED paLog
      BY <1>4 DEF ReadSO, api
    <2>2. \/ UNCHANGED status
          \/ ForeignSeen /\ Return(MarkInactive(status, "NotOwned"), TRUE)
      BY <1>1, <1>4, FoundForeign DEF ReadSO, Continue
    <2>3. QED BY <1>1, <1>2, <2>1, <2>2, ReturnJustified DEF Cause
  <1>5. CASE CreateSO
    <2>1. UNCHANGED paLog
      BY <1>5 DEF CreateSO, SOCreated, api
    <2>2. UNCHANGED status \/ Return(MarkInactive(status, "FailedCreate"), TRUE)
      BY <1>5 DEF CreateSO, Continue
    <2>3. QED BY <1>1, <1>2, <2>1, <2>2, ReturnJustified DEF Cause
  <1>6. CASE UpdateSO \/ ReadHPA
    <2>1. UNCHANGED paLog
      BY <1>6 DEF UpdateSO, ReadHPA, SOUpdated, api
    <2>2. UNCHANGED status \/ \E err : Return(status, err)
      BY <1>6 DEF UpdateSO, ReadHPA, Continue
    <2>3. QED BY <1>1, <2>1, <2>2, ReturnJustified DEF Cause
  <1>7. CASE ReadSKS
    <2> DEFINE sks == sksLog[seen["sks"]]
    <2>1. UNCHANGED paLog /\ pc = "readSKS"
      BY <1>7 DEF ReadSKS, api
    <2>2. \/ UNCHANGED status
          \/ ForeignSeen /\ Return(MarkInactive(status, "NotOwned"), TRUE)
          \/ ControlledByPA(sks) /\ FinishWith(sks)
      BY <1>1, <1>7, FoundForeign DEF ReadSKS, Continue
    <2>3. CASE ControlledByPA(sks) /\ FinishWith(sks)
      <3>1. seen["sks"] \in DOMAIN sksLog
        BY <1>1, PositionsTyped DEF TypeOK
      <3>2. sks.phase = "ready" => ServiceSeen
        BY <2>3, <3>1 DEF ServiceSeen, ControlledByPA
      <3>3. QED BY <1>1, <2>1, <2>3, <3>2, FinishJustified
    <2>4. QED BY <1>1, <1>2, <2>1, <2>2, <2>3, ReturnJustified DEF Cause
  <1>8. CASE CreateSKS \/ UpdateSKS
    <2>1. UNCHANGED paLog /\ pc \in {"createSKS", "updateSKS"}
      BY <1>8 DEF CreateSKS, UpdateSKS, SKSCreated, SKSUpdated, api
    <2>2. \/ \E err : Return(status, err)
          \/ \E sks : sks.phase # "ready" /\ FinishWith(sks)
      <3>1. NewSKS.phase # "ready"
        BY DEF NewSKS
      <3>2. UpdateSKS => ServeSKS(Current(sksLog)).phase # "ready" \/ Return(status, TRUE)
        <4>1. Current(sksLog) \in SKSType
          BY <1>1, CurrentTyped
        <4>2. ControlledByPA(Current(sksLog)) => ServeSKS(Current(sksLog)).phase # "ready"
          BY <4>1 DEF ServeSKS, SKSType, ControlledByPA, NoObject
        <4>3. UpdateSKS /\ held["sks"] = Len(sksLog) => ControlledByPA(Current(sksLog))
          BY <1>1 DEF UpdateSKS, HeldOK, Current
        <4>4. QED BY <4>2, <4>3 DEF UpdateSKS, SKSUpdated
      <3>3. QED BY <1>8, <3>1, <3>2 DEF CreateSKS, UpdateSKS
    <2>3. QED BY <1>1, <2>1, <2>2, ReturnJustified, FinishJustified
  <1>9. QED BY <1>3, <1>4, <1>5, <1>6, <1>7, <1>8

\* Every step lets the logs grow.
LEMMA NextGrows ==
  ASSUME IInv, [Next]_vars
  PROVE  LogsGrow
  <1>1. TypeOK /\ HeldOK
    BY DEF IInv
  <1>2. CASE Worker \/ CallFails
    BY <1>1, <1>2, ReadsOK, WritesOK, CallFailsOK DEF Worker
  <1>3. CASE Others
    BY <1>1, <1>3, OthersGrow
  <1>4. CASE (\E k \in Kinds : Deliver(k)) \/ RetryFires \/ Resync \/ Restart
    BY <1>1, <1>4, ControllerOK, UnchangedGrows
  <1>5. CASE UNCHANGED vars
    BY <1>1, <1>5, UnchangedGrows DEF vars, api
  <1>6. QED BY <1>2, <1>3, <1>4, <1>5 DEF Next

\* What is published is the worker's copy.
LEMMA WriteJustified ==
  ASSUME IInv, StatusOK, pc = "writeStatus", StatusUpdated
  PROVE  \E pa : paLog' = Append(paLog, pa) /\ Justified(pa.status, ForeignSeen, ScaleSeen /\ ServiceSeen)
  <1> DEFINE pa == [PA EXCEPT !.status = status]
  <1>1. PA \in PAType
    BY HeldTyped DEF IInv
  <1>2. pa.status = status
    BY <1>1 DEF PAType
  <1>3. paLog' = Append(paLog, pa)
    BY DEF StatusUpdated
  <1> HIDE DEF pa
  <1>4. QED BY <1>2, <1>3 DEF StatusOK

\* Whoever changes the spec leaves the status.
LEMMA ChangeJustified ==
  ASSUME IInv, StatusOK, ChangePA
  PROVE  \E pa : paLog' = Append(paLog, pa) /\ Justified(pa.status, ForeignSeen, ScaleSeen /\ ServiceSeen)
  <1> DEFINE old == Current(paLog)
             g(spec) == IF spec.reachable = old.spec.reachable
                        THEN old.generation ELSE old.generation + 1
  <1>1. PICK spec \in Specs : paLog' = Append(paLog, [old EXCEPT !.spec = spec, !.generation = g(spec)])
    BY DEF ChangePA
  <1>2. old \in PAType /\ old = paLog[Len(paLog)] /\ Len(paLog) \in DOMAIN paLog
    BY CurrentTyped DEF IInv, Current, TypeOK, Kinds, Log
  <1> HIDE DEF g
  <1> DEFINE pa == [old EXCEPT !.spec = spec, !.generation = g(spec)]
  <1>3. pa.status = old.status
    BY <1>2 DEF PAType
  <1>4. Justified(old.status, ForeignSeen, ScaleSeen /\ ServiceSeen)
    BY <1>2 DEF StatusOK
  <1>5. paLog' = Append(paLog, pa)
    BY <1>1
  <1> HIDE DEF pa, old
  <1>6. QED BY <1>3, <1>4, <1>5

\* The last step of a run writes the status, or not, and forgets it, or tries again.
LEMMA EndJustified ==
  ASSUME IInv, StatusOK, WriteStatus \/ Refetch
  PROVE  /\ Cause(status')
         /\ UNCHANGED paLog \/ (pc = "writeStatus" /\ StatusUpdated)
  <1>1. Cause(status)
    BY DEF StatusOK, Cause
  <1>2. UNCHANGED status \/ \E err : Done(err)
    BY DEF WriteStatus, Refetch
  <1>3. UNCHANGED paLog \/ (pc = "writeStatus" /\ StatusUpdated)
    BY DEF WriteStatus, Refetch, api
  <1>4. QED BY <1>1, <1>2, <1>3, DoneJustified DEF Cause

\* So does a run that is cut short.
LEMMA FaultJustified ==
  ASSUME IInv, StatusOK, CallFails
  PROVE  /\ Cause(status')
         /\ UNCHANGED paLog \/ (pc = "writeStatus" /\ StatusUpdated)
  <1>1. status \in StatusType /\ Cause(status)
    BY DEF IInv, TypeOK, StatusOK, Cause
  <1>2. /\ MarkInactive(status, "FailedCreate") \in StatusType
        /\ Cause(MarkInactive(status, "FailedCreate"))
    BY <1>1, StatusTyped, InactiveJustified DEF Cause
  <1>3. \/ Return(MarkInactive(status, "FailedCreate"), TRUE)
        \/ Return(status, TRUE)
        \/ Done(TRUE)
    BY DEF CallFails
  <1>4. UNCHANGED paLog \/ (pc = "writeStatus" /\ StatusUpdated)
    BY DEF CallFails, SOCreated, SOUpdated, SKSCreated, SKSUpdated, api
  <1>5. QED BY <1>1, <1>2, <1>3, <1>4, ReturnJustified, DoneJustified

\* Every step keeps statuses justified.
LEMMA StatusStep ==
  ASSUME IInv, StatusOK, [Next]_vars
  PROVE  StatusOK'
  <1>1. TypeOK /\ LogsGrow /\ Cause(status)
    BY NextGrows DEF IInv, StatusOK, Cause
  <1>2. ASSUME Cause(status'),
               UNCHANGED paLog \/ (pc = "writeStatus" /\ StatusUpdated) \/ ChangePA
        PROVE  StatusOK'
    <2>1. \/ UNCHANGED paLog
          \/ \E pa : paLog' = Append(paLog, pa)
                     /\ Justified(pa.status, ForeignSeen, ScaleSeen /\ ServiceSeen)
      BY <1>2, WriteJustified, ChangeJustified
    <2>2. Justified(status', ForeignSeen, ScaleSeen /\ ServiceSeen)
      BY <1>2 DEF Cause
    <2>3. QED BY <1>1, <2>1, <2>2, StatusStays
  <1>3. CASE Take \/ ReadSO \/ CreateSO \/ UpdateSO \/ ReadHPA \/ ReadSKS \/ CreateSKS \/ UpdateSKS
    BY <1>2, <1>3, InRunJustified
  <1>4. CASE WriteStatus \/ Refetch
    BY <1>2, <1>4, EndJustified
  <1>5. CASE CallFails
    BY <1>2, <1>5, FaultJustified
  <1>6. CASE Others
    <2>1. UNCHANGED status
      BY <1>1, <1>6, OthersGrow DEF worker
    <2>2. UNCHANGED paLog \/ ChangePA
      BY <1>6 DEF Others, UserSO, Keda, HPASettles, HPAMoves, SKSProgresses, SKSBreaks
    <2>3. QED BY <1>1, <1>2, <2>1, <2>2 DEF Cause
  <1>7. CASE (\E k \in Kinds : Deliver(k)) \/ RetryFires \/ Resync \/ UNCHANGED vars
    <2>1. UNCHANGED <<paLog, status>>
      BY <1>7 DEF Deliver, RetryFires, Resync, vars, api, worker
    <2>2. QED BY <1>1, <1>2, <2>1 DEF Cause
  <1>8. CASE Restart
    <2>1. UNCHANGED paLog /\ status' = FreshStatus
      BY <1>8 DEF Restart, api
    <2>2. QED BY <1>2, <2>1, FreshJustified DEF Cause
  <1>9. QED BY <1>3, <1>4, <1>5, <1>6, <1>7, <1>8 DEF Next, Worker

\* At first there is no status.
LEMMA StatusInit == Init => StatusOK
  <1> SUFFICES ASSUME Init PROVE StatusOK
    OBVIOUS
  <1>1. PICK spec \in StartSpecs :
          paLog = << [generation |-> 1, spec |-> spec, status |-> FreshStatus] >>
    BY DEF Init
  <1> DEFINE pa == [generation |-> 1, spec |-> spec, status |-> FreshStatus]
  <1>2. pa.status = FreshStatus /\ paLog = <<pa>>
    BY <1>1
  <1> HIDE DEF pa
  <1>3. \A i \in DOMAIN paLog : paLog[i].status = FreshStatus
    BY <1>2
  <1>4. status = FreshStatus
    BY DEF Init
  <1>5. QED BY <1>3, <1>4, FreshJustified DEF StatusOK

\* Every status there ever is has a cause.
THEOREM StatusHolds == Spec => []StatusOK
  <1>1. Init => StatusOK
    BY StatusInit
  <1>2. IInv /\ StatusOK /\ [Next]_vars => StatusOK'
    BY StatusStep
  <1>3. QED BY <1>1, <1>2, IInvHolds, PTL DEF Spec

\* What is published is one of them.
LEMMA PublishedJustified ==
  ASSUME IInv, StatusOK
  PROVE  Justified(Published, ForeignSeen, ScaleSeen /\ ServiceSeen)
  <1>1. Len(paLog) \in DOMAIN paLog
    BY CurrentTyped DEF IInv, TypeOK, Kinds, Log
  <1>2. QED BY <1>1 DEF StatusOK, Published, Current

\* A PA that is Ready has a service name and a scale and no failure reason, however
\* its status was put together.
THEOREM ReadyIsServedHolds == Spec => []ReadyIsServed
  <1>1. IInv /\ StatusOK => ReadyIsServed
    BY PublishedJustified DEF Justified, ReadyAgrees, PodDependents, ReadyIsServed
  <1>2. QED BY <1>1, IInvHolds, StatusHolds, PTL

\* ScaleTargetInitialized is earned, also if the status is written onto a version
\* it was not computed from.
THEOREM InitializedIsEarnedHolds == Spec => []InitializedIsEarned
  <1>1. IInv /\ StatusOK => InitializedIsEarned
    BY PublishedJustified DEF Justified, ScaleSeen, ServiceSeen, InitializedIsEarned
  <1>2. QED BY <1>1, IInvHolds, StatusHolds, PTL

\* NotOwned is reported only where somebody else's object has been.
THEOREM NotOwnedIsTrueHolds == Spec => []NotOwnedIsTrue
  <1>1. IInv /\ StatusOK => NotOwnedIsTrue
    BY PublishedJustified DEF Justified, ForeignSeen, NotOwnedIsTrue
  <1>2. QED BY <1>1, IInvHolds, StatusHolds, PTL

-------------------------------------------------------------------------------
(* Every write changes what it writes. *)

NoEcho(log) == \A i \in 1 .. Len(log) - 1 : log[i] # log[i + 1]

\* The two updates were found necessary of the versions held, and are accepted of no
\* others.
WantsChange ==
  /\ pc = "updateSO" => soLog[held["so"]].min # DesiredMin(PA.spec)
  /\ pc = "updateSKS" => sksLog[held["sks"]].mode # "Serve"

ChangesOK == WantsChange /\ NoEcho(paLog) /\ NoEcho(soLog) /\ NoEcho(sksLog)

\* It takes a version equal to the last one to make an echo.
LEMMA AppendDiffers ==
  ASSUME NEW S, NEW log \in Seq(S), Len(log) >= 1, NoEcho(log), NEW e, e # Current(log),
         NEW new, new = Append(log, e)
  PROVE  NoEcho(new)
  <1>1. /\ Len(log) \in Nat /\ Len(new) = Len(log) + 1 /\ new[Len(log) + 1] = e
        /\ \A i \in 1 .. Len(log) : new[i] = log[i]
    BY DEF Current
  <1>2. SUFFICES ASSUME NEW i \in 1 .. Len(new) - 1 PROVE new[i] # new[i + 1]
    BY DEF NoEcho
  <1>3. CASE i = Len(log)
    BY <1>1, <1>3 DEF Current
  <1>4. CASE i # Len(log)
    <2>1. i \in 1 .. Len(log) - 1 /\ i \in 1 .. Len(log) /\ i + 1 \in 1 .. Len(log)
      BY <1>1, <1>4
    <2>2. QED BY <1>1, <2>1 DEF NoEcho
  <1>5. QED BY <1>3, <1>4

\* A step that appends a different version to a log, or none.
Differs(log, new) == new = log \/ \E e : e # Current(log) /\ new = Append(log, e)

\* Steps that append nothing else make no echo.
LEMMA DiffersOK ==
  ASSUME TypeOK, NoEcho(paLog), NoEcho(soLog), NoEcho(sksLog),
         Differs(paLog, paLog'), Differs(soLog, soLog'), Differs(sksLog, sksLog')
  PROVE  NoEcho(paLog)' /\ NoEcho(soLog)' /\ NoEcho(sksLog)'
  <1>1. /\ paLog \in Seq(PAType) /\ soLog \in Seq(SOType) /\ sksLog \in Seq(SKSType)
        /\ Len(paLog) >= 1 /\ Len(soLog) >= 1 /\ Len(sksLog) >= 1
    BY CurrentTyped DEF TypeOK, Kinds, Log
  <1>2. ASSUME NEW S, NEW log \in Seq(S), Len(log) >= 1, NoEcho(log), NEW new, Differs(log, new)
        PROVE  NoEcho(new)
    BY <1>2, AppendDiffers DEF Differs
  <1>3. NoEcho(paLog')
    BY <1>1, <1>2
  <1>4. NoEcho(soLog')
    BY <1>1, <1>2
  <1>5. NoEcho(sksLog')
    BY <1>1, <1>2
  <1>6. QED BY <1>3, <1>4, <1>5 DEF NoEcho

\* The worker's five writes.
LEMMA WritesDiffer ==
  ASSUME IInv, WantsChange
  PROVE  /\ SOCreated => Differs(soLog, soLog')
         /\ pc = "updateSO" /\ SOUpdated => Differs(soLog, soLog')
         /\ SKSCreated => Differs(sksLog, sksLog')
         /\ pc = "updateSKS" /\ SKSUpdated => Differs(sksLog, sksLog')
         /\ pc # "idle" /\ ~ StatusUnchanged /\ StatusUpdated => Differs(paLog, paLog')
  <1>1. Current(soLog) \in SOType /\ Current(sksLog) \in SKSType
    BY CurrentTyped DEF IInv
  <1>2. SOCreated => Differs(soLog, soLog')
    <2>1. DesiredScaledObject # NoObject
      BY DEF DesiredScaledObject, NoObject
    <2>2. QED BY <2>1 DEF SOCreated, Differs, Exists
  <1>3. pc = "updateSO" /\ SOUpdated => Differs(soLog, soLog')
    <2> SUFFICES ASSUME pc = "updateSO", SOUpdated PROVE Differs(soLog, soLog')
      OBVIOUS
    <2> DEFINE so == Current(soLog)
               m  == DesiredMin(PA.spec)
    <2>1. so \in SOType /\ ControlledByPA(so) /\ so.min # m
      BY <1>1 DEF IInv, HeldOK, WantsChange, SOUpdated, Current
    <2>2. so \in [owner: {"pa", "other"}, min: Replicas, routed: BOOLEAN]
      BY <2>1 DEF SOType, ControlledByPA, NoObject
    <2>3. soLog' = Append(soLog, [so EXCEPT !.min = m])
      BY DEF SOUpdated
    <2> HIDE DEF so, m
    <2>4. [so EXCEPT !.min = m].min = m
      BY <2>2
    <2>5. [so EXCEPT !.min = m] # so
      BY <2>1, <2>4
    <2>6. QED BY <2>3, <2>5 DEF Differs, so
  <1>4. SKSCreated => Differs(sksLog, sksLog')
    <2>1. NewSKS # NoObject
      BY DEF NewSKS, NoObject
    <2>2. QED BY <2>1 DEF SKSCreated, Differs, Exists
  <1>5. pc = "updateSKS" /\ SKSUpdated => Differs(sksLog, sksLog')
    <2> SUFFICES ASSUME pc = "updateSKS", SKSUpdated PROVE Differs(sksLog, sksLog')
      OBVIOUS
    <2> DEFINE sks == Current(sksLog)
    <2>1. sks \in SKSType /\ ControlledByPA(sks) /\ sks.mode # "Serve"
      BY <1>1 DEF IInv, HeldOK, WantsChange, SKSUpdated, Current
    <2>2. ServeSKS(sks).mode = "Serve"
      BY <2>1 DEF ServeSKS, SKSType, ControlledByPA, NoObject
    <2>3. sksLog' = Append(sksLog, ServeSKS(sks))
      BY DEF SKSUpdated
    <2> HIDE DEF sks
    <2>4. QED BY <2>1, <2>2, <2>3 DEF Differs, sks
  <1>6. pc # "idle" /\ ~ StatusUnchanged /\ StatusUpdated => Differs(paLog, paLog')
    <2> SUFFICES ASSUME pc # "idle", ~ StatusUnchanged, StatusUpdated PROVE Differs(paLog, paLog')
      OBVIOUS
    <2>1. PA \in PAType /\ PA = Current(paLog) /\ PA.status # status
      BY HeldTyped DEF IInv, StatusUpdated, StatusUnchanged, PA, Current
    <2>2. [PA EXCEPT !.status = status].status = status
      BY <2>1 DEF PAType
    <2>3. [PA EXCEPT !.status = status] # Current(paLog)
      BY <2>1, <2>2
    <2>4. QED BY <2>3 DEF StatusUpdated, Differs
  <1>7. QED BY <1>2, <1>3, <1>4, <1>5, <1>6

\* What the others do to them.
LEMMA OthersDiffer ==
  ASSUME IInv, Others
  PROVE  Differs(paLog, paLog') /\ Differs(soLog, soLog') /\ Differs(sksLog, sksLog')
  <1>1. /\ Current(paLog) \in PAType /\ Current(soLog) \in SOType /\ Current(sksLog) \in SKSType
    BY CurrentTyped DEF IInv
  <1>2. CASE ChangePA
    <2> DEFINE old == Current(paLog)
               g(spec) == IF spec.reachable = old.spec.reachable
                          THEN old.generation ELSE old.generation + 1
    <2>1. PICK spec \in Specs \ {old.spec} :
            paLog' = Append(paLog, [old EXCEPT !.spec = spec, !.generation = g(spec)])
      BY <1>2 DEF ChangePA
    <2> HIDE DEF g
    <2>2. [old EXCEPT !.spec = spec, !.generation = g(spec)].spec = spec
      BY <1>1 DEF PAType
    <2>3. [old EXCEPT !.spec = spec, !.generation = g(spec)] # old
      BY <2>1, <2>2
    <2>4. UNCHANGED <<soLog, sksLog>>
      BY <1>2 DEF ChangePA
    <2>5. Differs(paLog, paLog')
      BY <2>1, <2>3 DEF Differs
    <2>6. QED BY <2>4, <2>5 DEF Differs
  <1>3. CASE UserSO
    <2> DEFINE so == Current(soLog)
    <2>1. \/ so.owner = "pa" /\ \E m \in Replicas \ {so.min} : soLog' = Append(soLog, [so EXCEPT !.min = m])
          \/ Exists(so) /\ soLog' = Append(soLog, NoObject)
          \/ ~ Exists(so) /\ \E own \in ForeignSOs : soLog' = Append(soLog, own)
      BY <1>3 DEF UserSO
    <2>2. \A m : so.owner = "pa" => [so EXCEPT !.min = m].min = m
      BY <1>1 DEF SOType, NoObject
    <2>3. \A own \in ForeignSOs : own # NoObject
      BY ConstantsAssumption
    <2>4. \A m \in Replicas \ {so.min} : so.owner = "pa" => [so EXCEPT !.min = m] # so
      BY <2>2
    <2> HIDE DEF so
    <2>5. \E e : e # so /\ soLog' = Append(soLog, e)
      BY <2>1, <2>3, <2>4 DEF Exists
    <2>6. UNCHANGED <<paLog, sksLog>>
      BY <1>3 DEF UserSO
    <2>7. QED BY <2>5, <2>6 DEF Differs, so
  <1>4. CASE Keda \/ HPASettles \/ HPAMoves
    BY <1>4 DEF Keda, HPASettles, HPAMoves, Differs
  <1>5. CASE SKSProgresses \/ SKSBreaks
    <2> DEFINE sks == Current(sksLog)
    <2>1. \/ /\ Exists(sks) /\ sks.phase # "ready"
             /\ sksLog' = Append(sksLog, [sks EXCEPT !.phase = "ready"])
          \/ /\ sks.owner = "pa" /\ sks.phase = "ready"
             /\ sksLog' = Append(sksLog, [sks EXCEPT !.phase = "named"])
          \/ Exists(sks) /\ sksLog' = Append(sksLog, NoObject)
          \/ ~ Exists(sks) /\ \E own \in ForeignSKSs : sksLog' = Append(sksLog, own)
      BY <1>5 DEF SKSProgresses, SKSBreaks
    <2>2. \A p : Exists(sks) => [sks EXCEPT !.phase = p].phase = p
      BY <1>1 DEF SKSType, Exists
    <2>3. sks.owner = "pa" => Exists(sks)
      BY DEF Exists, NoObject
    <2>4. /\ Exists(sks) /\ sks.phase # "ready" => [sks EXCEPT !.phase = "ready"] # sks
          /\ sks.owner = "pa" /\ sks.phase = "ready" => [sks EXCEPT !.phase = "named"] # sks
      BY <2>2, <2>3
    <2>5. \A own \in ForeignSKSs : own # NoObject
      BY ConstantsAssumption
    <2> HIDE DEF sks
    <2>6. \E e : e # sks /\ sksLog' = Append(sksLog, e)
      BY <2>1, <2>4, <2>5 DEF Exists
    <2>7. UNCHANGED <<paLog, soLog>>
      BY <1>5 DEF SKSProgresses, SKSBreaks
    <2>8. QED BY <2>6, <2>7 DEF Differs, sks
  <1>6. QED BY <1>2, <1>3, <1>4, <1>5 DEF Others

\* Every step.
LEMMA NextDiffers ==
  ASSUME IInv, WantsChange, [Next]_vars
  PROVE  Differs(paLog, paLog') /\ Differs(soLog, soLog') /\ Differs(sksLog, sksLog')
  <1>1. \A log : Differs(log, log)
    BY DEF Differs
  <1>2. CASE UNCHANGED api
    BY <1>1, <1>2 DEF api
  <1>3. CASE SOCreated \/ (pc = "updateSO" /\ SOUpdated)
    BY <1>1, <1>3, WritesDiffer DEF SOCreated, SOUpdated
  <1>4. CASE SKSCreated \/ (pc = "updateSKS" /\ SKSUpdated)
    BY <1>1, <1>4, WritesDiffer DEF SKSCreated, SKSUpdated
  <1>5. CASE pc # "idle" /\ ~ StatusUnchanged /\ StatusUpdated
    BY <1>1, <1>5, WritesDiffer DEF StatusUpdated
  <1>6. CASE Others
    BY <1>6, OthersDiffer
  <1>7. CASE Worker
    <2>1. \/ UNCHANGED api \/ SOCreated \/ SKSCreated
          \/ (pc = "updateSO" /\ SOUpdated) \/ (pc = "updateSKS" /\ SKSUpdated)
          \/ pc = "writeStatus" /\ ~ StatusUnchanged /\ StatusUpdated
      BY <1>7 DEF Worker, Take, ReadSO, CreateSO, UpdateSO, ReadHPA, ReadSKS, CreateSKS, UpdateSKS,
                  WriteStatus, Refetch
    <2>2. QED BY <1>2, <1>3, <1>4, <1>5, <2>1
  <1>8. CASE CallFails
    <2>1. \/ UNCHANGED api \/ SOCreated \/ SKSCreated
          \/ (pc = "updateSO" /\ SOUpdated) \/ (pc = "updateSKS" /\ SKSUpdated)
          \/ pc = "writeStatus" /\ ~ StatusUnchanged /\ StatusUpdated
      BY <1>8 DEF CallFails
    <2>2. QED BY <1>2, <1>3, <1>4, <1>5, <2>1
  <1>9. CASE (\E k \in Kinds : Deliver(k)) \/ RetryFires \/ Resync \/ Restart \/ UNCHANGED vars
    BY <1>2, <1>9 DEF Deliver, RetryFires, Resync, Restart, vars
  <1>10. QED BY <1>6, <1>7, <1>8, <1>9 DEF Next

\* A worker that goes on to an update has found it necessary, and one that waits
\* there while the logs grow still does.
LEMMA WantsStep ==
  ASSUME IInv, WantsChange, [Next]_vars
  PROVE  WantsChange'
  <1>1. TypeOK /\ HeldOK /\ LogsGrow
    BY NextGrows DEF IInv
  <1>2. held \in [Kinds -> Nat] /\ "pa" \in Kinds /\ "so" \in Kinds /\ "sks" \in Kinds
    BY <1>1 DEF TypeOK, Kinds
  <1>3. CASE UNCHANGED worker
    <2>1. UNCHANGED <<pc, held>>
      BY <1>3 DEF worker
    <2>2. /\ pc # "idle" => held["pa"] \in DOMAIN paLog
          /\ pc = "updateSO" => held["so"] \in DOMAIN soLog
          /\ pc = "updateSKS" => held["sks"] \in DOMAIN sksLog
      <3>1. paLog \in Seq(PAType) /\ soLog \in Seq(SOType) /\ sksLog \in Seq(SKSType)
        BY <1>1 DEF TypeOK
      <3>2. QED BY <1>1, <3>1, PositionsTyped DEF HeldOK
    <2>3. /\ pc # "idle" => PA' = PA
          /\ pc = "updateSO" => soLog'[held["so"]] = soLog[held["so"]]
          /\ pc = "updateSKS" => sksLog'[held["sks"]] = sksLog[held["sks"]]
      BY <1>1, <2>1, <2>2, LogsStay DEF PA
    <2>4. QED BY <2>1, <2>3 DEF WantsChange
  <1>4. CASE ReadSO
    <2> DEFINE so == soLog[seen["so"]]
    <2>1. UNCHANGED <<paLog, soLog>>
      BY <1>4 DEF ReadSO, api
    <2>2. pc' # "updateSKS"
      BY <1>4 DEF ReadSO, Continue, Return, Goto
    <2>3. pc' = "updateSO" =>
            held' = [held EXCEPT !["so"] = seen["so"]] /\ so.min # DesiredMin(PA.spec)
      BY <1>4 DEF ReadSO, Continue, Return, Goto
    <2>4. pc' = "updateSO" => held'["so"] = seen["so"] /\ held'["pa"] = held["pa"]
      BY <1>2, <2>3
    <2>5. pc' = "updateSO" => PA' = PA
      BY <2>1, <2>4 DEF PA
    <2>6. QED BY <2>1, <2>2, <2>3, <2>4, <2>5 DEF WantsChange
  <1>5. CASE ReadSKS
    <2>1. UNCHANGED sksLog
      BY <1>5 DEF ReadSKS, api
    <2>2. pc' # "updateSO"
      BY <1>5 DEF ReadSKS, FinishWith, Continue, Return, Goto
    <2>3. pc' = "updateSKS" =>
            held' = [held EXCEPT !["sks"] = seen["sks"]] /\ sksLog[seen["sks"]].mode # "Serve"
      BY <1>5 DEF ReadSKS, FinishWith, Continue, Return, Goto
    <2>4. pc' = "updateSKS" => held'["sks"] = seen["sks"]
      BY <1>2, <2>3
    <2>5. QED BY <2>1, <2>2, <2>3, <2>4 DEF WantsChange
  <1>6. CASE Take \/ CreateSO \/ UpdateSO \/ ReadHPA \/ CreateSKS \/ UpdateSKS \/ WriteStatus
               \/ Refetch \/ CallFails \/ Restart
    <2>1. pc' \notin {"updateSO", "updateSKS"}
      BY <1>6 DEF Take, CreateSO, UpdateSO, ReadHPA, CreateSKS, UpdateSKS, WriteStatus, Refetch,
                  CallFails, Restart, FinishWith, Continue, Return, Done, Goto
    <2>2. QED BY <2>1 DEF WantsChange
  <1>7. CASE Others \/ (\E k \in Kinds : Deliver(k)) \/ RetryFires \/ Resync \/ UNCHANGED vars
    <2>1. UNCHANGED worker
      BY <1>1, <1>7, OthersGrow DEF Deliver, RetryFires, Resync, vars
    <2>2. QED BY <1>3, <2>1
  <1>8. QED BY <1>4, <1>5, <1>6, <1>7 DEF Next, Worker

\* No write is a no-op: the reconciler, woken by its own writes, does not write again
\* what is there already, whatever version it worked on.
THEOREM EveryWriteChangesHolds == Spec => []EveryWriteChanges
  <1>1. Init => ChangesOK
    <2> SUFFICES ASSUME Init PROVE ChangesOK
      OBVIOUS
    <2>1. Len(paLog) = 1 /\ Len(soLog) = 1 /\ Len(sksLog) = 1 /\ pc = "idle"
      BY DEF Init
    <2>2. QED BY <2>1 DEF ChangesOK, WantsChange, NoEcho
  <1>2. IInv /\ ChangesOK /\ [Next]_vars => ChangesOK'
    <2> SUFFICES ASSUME IInv, ChangesOK, [Next]_vars PROVE ChangesOK'
      OBVIOUS
    <2>1. Differs(paLog, paLog') /\ Differs(soLog, soLog') /\ Differs(sksLog, sksLog')
      BY NextDiffers DEF ChangesOK
    <2>2. NoEcho(paLog)' /\ NoEcho(soLog)' /\ NoEcho(sksLog)'
      BY <2>1, DiffersOK DEF ChangesOK, IInv
    <2>3. WantsChange'
      BY WantsStep DEF ChangesOK
    <2>4. QED BY <2>2, <2>3 DEF ChangesOK
  <1>3. ChangesOK => EveryWriteChanges
    <2>1. Log["pa"] = paLog /\ Log["so"] = soLog /\ Log["sks"] = sksLog
      BY DEF Log
    <2>2. QED BY <2>1 DEF ChangesOK, NoEcho, EveryWriteChanges
  <1>4. QED BY <1>1, <1>2, <1>3, IInvHolds, PTL DEF Spec

-------------------------------------------------------------------------------
(* What a PA at rest reports. *)

\* An event that adds the key is on its way.
PAComing  == seen["pa"] < Len(paLog)
SKSComing == \E j \in DOMAIN sksLog : j > seen["sks"] /\ sksLog[j].owner = "pa"

CachedHPA == hpaLog[seen["hpa"]]
CachedSKS == sksLog[seen["sks"]]

\* A status that says what the caches say of a PA.
Tells(st, pa) ==
  /\ st.observed = pa.generation /\ Applied(pa.spec)
  /\ Configured(CachedHPA) /\ ~ SKSComing => Reported(st, pa.spec, CachedHPA, CachedSKS)

\* A run that gets to the HPA leaves the SO as asked behind it.
AppliedOK ==
  /\ pc \in {"readSO", "createSO", "updateSO"} => PA.spec.valid
  /\ pc \in {"readHPA", "readSKS", "createSKS", "updateSKS"} => Applied(PA.spec)

\* At rest but for what is on its way; in a run nobody has asked to repeat, the worker
\* holds what the caches do, until the PA changes.
RestOK ==
  /\ held["so"] # 0 => Exists(soLog[held["so"]])
  /\ pc = "idle" /\ ~ dirty /\ ~ retry =>
       PAComing \/ Tells(paLog[seen["pa"]].status, paLog[seen["pa"]])
  /\ pc \notin Between /\ ~ dirty => held["pa"] = seen["pa"]
  /\ pc \in {"readSKS", "createSKS", "updateSKS"} /\ ~ dirty /\ Configured(CachedHPA) =>
       held["hpa"] = seen["hpa"]
  /\ pc \in {"writeStatus", "refetch"} /\ ~ dirty /\ ~ failed =>
       PAComing \/ (pc = "writeStatus" /\ held["pa"] = seen["pa"] /\ Tells(status, PA))

\* A dependent that becomes True where the others are makes the PA Ready.
LEMMA MarkedReady ==
  ASSUME NEW c \in CondsType, NEW t \in PodDependents, \A d \in PodDependents \ {t} : c[d] = "True"
  PROVE  Cond!MarkTrue(c, t)["Ready"] = "True"
  <1>1. PodDependents \subseteq Cond!Types /\ "Ready" \in Cond!Types /\ "Ready" \notin PodDependents
    BY DEF PodDependents, Cond!Types, Cond!Happy
  <1> DEFINE s == [c EXCEPT ![t] = "True"]
  <1>2. s = [d \in Cond!Types |-> s[d]] /\ \A d \in PodDependents : s[d] = "True"
    BY <1>1 DEF CondsType
  <1>3. Cond!MarkTrue(c, t) = [s EXCEPT !["Ready"] = Cond!Summary(s)]
    BY <1>1 DEF Cond!MarkTrue, Cond!RecomputeHappiness, Cond!Happy
  <1>4. Cond!Summary(s) = "True"
    BY <1>2 DEF Cond!Summary, Cond!SomeDependent
  <1> HIDE DEF s
  <1>5. QED BY <1>1, <1>2, <1>3, <1>4

\* What ReconcileKind ends with reports the HPA and the SKS it is given.
LEMMA ActiveReports ==
  ASSUME NEW st \in StatusType, NEW spec, NEW hpa \in HPAType, Exists(hpa),
         NEW sks, sks.owner = "pa", sks.mode = "Serve"
  PROVE  Reported(Activate(WithSKS(st, spec, sks, hpa), hpa), spec, hpa, sks)
  <1> DEFINE w == WithSKS(st, spec, sks, hpa)
             a == Activate(w, hpa)
             c == Cond!MarkTrue(w.conds, "Active")
  <1>1. w \in StatusType /\ w.conds \in CondsType /\ a \in StatusType
    BY StatusTyped, StatusFields
  <1>2. /\ w.conds["SKSReady"] = "True" <=> sks.phase = "ready"
        /\ w.service = (sks.phase # "new")
        /\ sks.phase = "ready" /\ HasEnough(hpa, spec) =>
             w.conds["ScaleTargetInitialized"] = "True"
    <2>1. CASE sks.phase # "ready"
      <3>1. /\ w.conds = Cond!MarkUnknown(st.conds, "SKSReady")
            /\ w.service = (sks.phase # "new")
        BY <2>1, StatusFields DEF WithSKS, WithService
      <3>2. QED BY <2>1, <3>1, StatusFields, Marks DEF PodDependents
    <2>2. CASE sks.phase = "ready"
      <3> DEFINE t == Cond!MarkTrue(st.conds, "SKSReady")
      <3>1. t \in CondsType
        BY StatusFields, CondsTyped DEF PodDependents, Cond!Types
      <3>2. /\ t["SKSReady"] = "True"
            /\ t["ScaleTargetInitialized"] = st.conds["ScaleTargetInitialized"]
        BY StatusFields, Marks DEF PodDependents
      <3>3. /\ \/ w.conds = t /\ (Initialized(st) \/ ~ HasEnough(hpa, spec))
               \/ w.conds = Cond!MarkTrue(t, "ScaleTargetInitialized")
            /\ w.service = (sks.phase # "new")
        BY <2>2, StatusFields DEF WithSKS, WithService
      <3> HIDE DEF t
      <3>4. /\ Cond!MarkTrue(t, "ScaleTargetInitialized")["SKSReady"] = t["SKSReady"]
            /\ Cond!MarkTrue(t, "ScaleTargetInitialized")["ScaleTargetInitialized"] = "True"
        BY <3>1, Marks DEF PodDependents
      <3>5. QED BY <2>2, <3>2, <3>3, <3>4 DEF Initialized
    <2>3. QED BY <2>1, <2>2
  <1>3. a = [[[w EXCEPT !.conds = c] EXCEPT !.why = ""] EXCEPT !.scale = <<hpa.desired, hpa.current>>]
    BY DEF Activate
  <1>4. /\ a.conds = c /\ a.why = "" /\ a.scale = <<hpa.desired, hpa.current>>
        /\ a.service = w.service
    BY <1>1, <1>3, StatusFields
  <1>5. /\ c["Active"] = "True" /\ c["SKSReady"] = w.conds["SKSReady"]
        /\ c["ScaleTargetInitialized"] = w.conds["ScaleTargetInitialized"]
    BY <1>1, Marks DEF PodDependents
  <1>6. sks.phase = "ready" /\ HasEnough(hpa, spec) => c["Ready"] = "True"
    <2>1. sks.phase = "ready" /\ HasEnough(hpa, spec) =>
            \A d \in PodDependents \ {"Active"} : w.conds[d] = "True"
      BY <1>2 DEF PodDependents
    <2>2. "Active" \in PodDependents
      BY DEF PodDependents
    <2>3. QED BY <1>1, <2>1, <2>2, MarkedReady
  <1> HIDE DEF a, c, w
  <1>7. Reported(a, spec, hpa, sks)
    BY <1>2, <1>4, <1>5, <1>6 DEF Reported
  <1>8. QED BY <1>7 DEF a, w

\* The observed generation is no part of that.
LEMMA ObservedReports ==
  ASSUME NEW st \in StatusType, NEW n, NEW spec, NEW hpa, NEW sks, Reported(st, spec, hpa, sks)
  PROVE  Reported([st EXCEPT !.observed = n], spec, hpa, sks)
  BY StatusFields DEF Reported

\* An SO that has been as asked has been so for good.
LEMMA AppliedStays ==
  ASSUME IInv, LogsGrow
  PROVE  \A spec : Applied(spec) => Applied(spec)'
  <1>1. \A i \in DOMAIN soLog : i \in DOMAIN soLog' /\ soLog'[i] = soLog[i]
    BY LogsStay DEF IInv
  <1> QED BY <1>1 DEF Applied, ShouldCreateScaledObject, DesiredMin, ScaleMin

\* Where nothing is delivered, the caches stay what they are, and what is on its way
\* remains on its way.
LEMMA CachesStay ==
  ASSUME IInv, LogsGrow, UNCHANGED seen
  PROVE  /\ CachedHPA' = CachedHPA /\ CachedSKS' = CachedSKS
         /\ paLog'[seen["pa"]] = paLog[seen["pa"]]
         /\ PAComing => PAComing'
         /\ SKSComing => SKSComing'
         /\ \A hpa : Configured(hpa)' => Configured(hpa)
         /\ \A spec : Applied(spec) => Applied(spec)'
         /\ \A st, pa : Tells(st, pa) => Tells(st, pa)'
  <1>1. /\ paLog \in Seq(PAType) /\ soLog \in Seq(SOType)
        /\ hpaLog \in Seq(HPAType) /\ sksLog \in Seq(SKSType)
        /\ seen["pa"] \in DOMAIN paLog /\ seen["hpa"] \in DOMAIN hpaLog /\ seen["sks"] \in DOMAIN sksLog
    <2>1. /\ paLog \in Seq(PAType) /\ soLog \in Seq(SOType)
          /\ hpaLog \in Seq(HPAType) /\ sksLog \in Seq(SKSType)
      BY DEF IInv, TypeOK
    <2> QED BY <2>1, PositionsTyped DEF IInv
  <1>2. CachedHPA' = CachedHPA /\ CachedSKS' = CachedSKS /\ paLog'[seen["pa"]] = paLog[seen["pa"]]
    BY <1>1, LogsStay DEF IInv, CachedHPA, CachedSKS
  <1>3. PAComing => PAComing'
    <2>1. Len(paLog) \in Nat /\ Len(paLog') \in Nat /\ Len(paLog') >= Len(paLog)
          /\ seen["pa"] \in Nat
      BY <1>1 DEF LogsGrow, Extends
    <2> QED BY <2>1 DEF PAComing
  <1>4. SKSComing => SKSComing'
    BY LogsStay DEF IInv, SKSComing
  <1>5. \A hpa : Configured(hpa)' => Configured(hpa)
    BY LogsStay DEF IInv, Configured
  <1>6. \A spec : Applied(spec) => Applied(spec)'
    BY AppliedStays
  <1>7. ASSUME NEW st, NEW pa, Tells(st, pa) PROVE Tells(st, pa)'
    <2>1. Configured(CachedHPA)' => Configured(CachedHPA)
      BY <1>2, <1>5
    <2>2. Reported(st, pa.spec, CachedHPA, CachedSKS) => Reported(st, pa.spec, CachedHPA, CachedSKS)'
      BY <1>2 DEF Reported, HasEnough, ActiveThreshold, ScaleMin, InitialScale
    <2> QED BY <1>4, <1>6, <1>7, <2>1, <2>2 DEF Tells
  <1> QED BY <1>2, <1>3, <1>4, <1>5, <1>6, <1>7

\* Nothing that is still asked of an SO stops being asked, and an SO held has been there.
LEMMA HeldSOStays ==
  ASSUME IInv, RestOK, LogsGrow, held'["so"] \in {0, held["so"]}
  PROVE  held'["so"] # 0 => Exists(soLog'[held'["so"]])
  <1>1. soLog \in Seq(SOType) /\ held["so"] \in 0 .. Len(soLog)
    BY PositionsTyped DEF IInv, TypeOK
  <1>2. held["so"] # 0 => held["so"] \in DOMAIN soLog /\ Exists(soLog[held["so"]])
    BY <1>1 DEF RestOK
  <1>3. QED BY <1>2, LogsStay DEF IInv

\* An event that does not add the key tells nothing new of a PA whose HPA is configured.
LEMMA DeliversQuietly ==
  ASSUME IInv, NEW k \in Kinds, Deliver(k), ~ dirty'
  PROVE  /\ UNCHANGED <<api, worker, queue>> /\ seen'["pa"] = seen["pa"]
         /\ Configured(CachedHPA)' => seen'["hpa"] = seen["hpa"] /\ Configured(CachedHPA)
         /\ PAComing => PAComing'
         /\ \A st, pa : Tells(st, pa) => Tells(st, pa)'
  <1>1. /\ UNCHANGED <<api, retry, worker>> /\ seen' = [seen EXCEPT ![k] = @ + 1]
        /\ dirty \in BOOLEAN
    BY DEF Deliver, IInv, TypeOK
  <1>2. ~ dirty /\ UNCHANGED queue
    BY <1>1 DEF Deliver, queue
  <1>3. k # "pa"
    BY DEF Deliver
  <1>4. /\ seen \in [Kinds -> Nat] /\ seen'["pa"] = seen["pa"]
        /\ k # "hpa" => seen'["hpa"] = seen["hpa"]
        /\ k # "sks" => seen'["sks"] = seen["sks"]
        /\ k = "hpa" => seen'["hpa"] = seen["hpa"] + 1
        /\ k = "sks" => seen'["sks"] = seen["sks"] + 1
    BY <1>1, <1>3 DEF IInv, TypeOK, Kinds
  <1>5. UNCHANGED <<paLog, soLog, hpaLog, sksLog>>
    BY <1>1 DEF api
  <1>6. Configured(CachedHPA)' => seen'["hpa"] = seen["hpa"] /\ Configured(CachedHPA)
    <2>1. CASE k = "hpa"
      <3>1. ~ (Exists(hpaLog[seen["hpa"] + 1]) /\ hpaLog[seen["hpa"] + 1].routed)
        BY <2>1 DEF Deliver, Log
      <3>2. CachedHPA' = hpaLog[seen["hpa"] + 1]
        BY <1>4, <1>5, <2>1 DEF CachedHPA
      <3> QED BY <3>1, <3>2 DEF Configured
    <2>2. CASE k # "hpa"
      BY <1>4, <1>5, <2>2 DEF Configured, CachedHPA
    <2> QED BY <2>1, <2>2
  <1>7. ASSUME NEW st, NEW pa, Tells(st, pa) PROVE Tells(st, pa)'
    <2>1. ASSUME Configured(CachedHPA)', ~ SKSComing'
          PROVE  Reported(st, pa.spec, CachedHPA, CachedSKS)'
      <3>1. Configured(CachedHPA) /\ CachedHPA' = CachedHPA
        BY <1>5, <1>6, <2>1 DEF CachedHPA
      <3>2. CASE k = "sks"
        <4>1. CachedSKS.owner # "pa" /\ sksLog[seen["sks"] + 1].owner # "pa"
          BY <3>2 DEF Deliver, Log, CachedSKS
        <4>2. SKSComing => SKSComing'
          <5>1. seen["sks"] \in Nat /\ seen'["sks"] = seen["sks"] + 1 
            BY <1>4, <3>2 DEF IInv, TypeOK, Kinds
          <5>2. sksLog \in Seq(SKSType)
            BY DEF IInv, TypeOK
          <5>3. DOMAIN sksLog \subseteq Nat
            BY <5>2
          <5> QED BY <1>5, <4>1, <5>1, <5>3 DEF SKSComing
        <4>3. Reported(st, pa.spec, CachedHPA, CachedSKS)
          BY <1>7, <2>1, <3>1, <4>2 DEF Tells
        <4> QED BY <4>1, <4>3 DEF Reported
      <3>3. CASE k # "sks"
        <4>1. CachedSKS' = CachedSKS /\ SKSComing' = SKSComing
          BY <1>4, <1>5, <3>3 DEF CachedSKS, SKSComing
        <4>2. Reported(st, pa.spec, CachedHPA, CachedSKS)
          BY <1>7, <2>1, <3>1, <4>1 DEF Tells
        <4> QED BY <3>1, <4>1, <4>2 DEF Reported, HasEnough, ActiveThreshold, ScaleMin, InitialScale
      <3> QED BY <3>2, <3>3
    <2>2. Applied(pa.spec) => Applied(pa.spec)'
      BY <1>5 DEF Applied, ShouldCreateScaledObject, DesiredMin, ScaleMin
    <2> QED BY <1>7, <2>1, <2>2 DEF Tells
  <1>8. PAComing => PAComing'
    BY <1>4, <1>5 DEF PAComing
  <1> QED BY <1>1, <1>2, <1>4, <1>6, <1>7, <1>8

\* Steps around the worker.
LEMMA RestAround ==
  ASSUME IInv, RestOK,
         Others \/ (\E k \in Kinds : Deliver(k)) \/ RetryFires \/ Resync \/ Restart \/ UNCHANGED vars
  PROVE  RestOK'
  <1>1. LogsGrow /\ TypeOK /\ HeldOK
    BY NextGrows DEF IInv, Next
  <1>2. ASSUME UNCHANGED worker
        PROVE  /\ UNCHANGED <<pc, held, status, failed>> /\ (pc # "idle" => PA' = PA)
               /\ held'["so"] # 0 => Exists(soLog'[held'["so"]])
    <2>1. UNCHANGED <<pc, held, status, failed>>
      BY <1>2 DEF worker
    <2>2. pc # "idle" => held["pa"] \in DOMAIN paLog
      <3>1. paLog \in Seq(PAType)
        BY <1>1 DEF TypeOK
      <3> QED BY <1>1, <3>1, PositionsTyped DEF HeldOK
    <2>3. pc # "idle" => PA' = PA
      BY <1>1, <2>1, <2>2, LogsStay DEF PA
    <2> QED BY <1>1, <2>1, <2>3, HeldSOStays
  <1>3. CASE UNCHANGED <<seen, queue, worker>>
    <2>1. UNCHANGED <<dirty, retry, seen>>
      BY <1>3 DEF queue
    <2>2. /\ UNCHANGED <<pc, held, status, failed>> /\ (pc # "idle" => PA' = PA)
          /\ held'["so"] # 0 => Exists(soLog'[held'["so"]])
      BY <1>2, <1>3
    <2>3. /\ paLog'[seen["pa"]] = paLog[seen["pa"]] /\ (PAComing => PAComing')
          /\ Configured(CachedHPA)' => Configured(CachedHPA)
          /\ \A st, pa : Tells(st, pa) => Tells(st, pa)'
      BY <1>1, <2>1, CachesStay
    <2>4. pc = "idle" /\ ~ dirty /\ ~ retry =>
            PAComing' \/ Tells(paLog[seen["pa"]].status, paLog[seen["pa"]])'
      BY <2>1, <2>3 DEF RestOK
    <2>5. pc \in {"writeStatus", "refetch"} /\ ~ dirty /\ ~ failed =>
            PAComing' \/ (pc = "writeStatus" /\ held["pa"] = seen["pa"] /\ Tells(status, PA)')
      BY <2>2, <2>3 DEF RestOK
    <2> QED BY <2>1, <2>2, <2>3, <2>4, <2>5 DEF RestOK
  <1>4. ASSUME NEW k \in Kinds, Deliver(k), ~ dirty' PROVE RestOK'
    <2>1. UNCHANGED <<dirty, retry, paLog>> /\ UNCHANGED worker /\ seen'["pa"] = seen["pa"]
      BY <1>4, DeliversQuietly DEF queue, api
    <2>2. /\ UNCHANGED <<pc, held, status, failed>> /\ (pc # "idle" => PA' = PA)
          /\ held'["so"] # 0 => Exists(soLog'[held'["so"]])
      BY <1>2, <2>1
    <2>3. /\ PAComing => PAComing'
          /\ Configured(CachedHPA)' => seen'["hpa"] = seen["hpa"] /\ Configured(CachedHPA)
          /\ \A st, pa : Tells(st, pa) => Tells(st, pa)'
      BY <1>4, DeliversQuietly
    <2>4. pc = "idle" /\ ~ dirty /\ ~ retry =>
            PAComing' \/ Tells(paLog[seen["pa"]].status, paLog[seen["pa"]])'
      BY <2>1, <2>3 DEF RestOK
    <2>5. pc \in {"writeStatus", "refetch"} /\ ~ dirty /\ ~ failed =>
            PAComing' \/ (pc = "writeStatus" /\ held["pa"] = seen["pa"] /\ Tells(status, PA)')
      BY <2>2, <2>3 DEF RestOK
    <2> QED BY <2>1, <2>2, <2>3, <2>4, <2>5 DEF RestOK
  <1>5. ASSUME dirty', UNCHANGED worker PROVE RestOK'
    BY <1>2, <1>5 DEF RestOK
  <1>6. CASE Restart
    <2>1. dirty' /\ held'["so"] = 0
      BY <1>6 DEF Restart, Kinds
    <2> QED BY <2>1 DEF RestOK
  <1>7. ASSUME NEW k \in Kinds, Deliver(k) PROVE UNCHANGED worker
    BY <1>7 DEF Deliver
  <1>8. CASE RetryFires \/ Resync
    BY <1>5, <1>8 DEF RetryFires, Resync
  <1>9. CASE Others \/ UNCHANGED vars
    BY <1>1, <1>3, <1>9, OthersGrow DEF vars
  <1> QED BY <1>4, <1>5, <1>6, <1>7, <1>8, <1>9

\* The SO is read, made or updated before the HPA is looked at, by a PA that asks for it.
LEMMA AppliedStep ==
  ASSUME IInv, AppliedOK, [Next]_vars
  PROVE  AppliedOK'
  <1>1. LogsGrow /\ TypeOK /\ HeldOK
    BY NextGrows DEF IInv
  <1>2. held \in [Kinds -> Nat] /\ "pa" \in Kinds /\ soLog \in Seq(SOType)
    BY <1>1 DEF TypeOK, Kinds
  <1>3. \A spec : Applied(spec) => Applied(spec)'
    BY <1>1, AppliedStays
  <1>4. pc # "idle" /\ held'["pa"] = held["pa"] => PA' = PA
    <2>1. paLog \in Seq(PAType)
      BY <1>1 DEF TypeOK
    <2>2. pc # "idle" => held["pa"] \in DOMAIN paLog
      BY <1>1, <2>1, PositionsTyped DEF HeldOK
    <2> QED BY <1>1, <2>2, LogsStay DEF PA
  <1>5. CASE UNCHANGED worker
    BY <1>3, <1>4, <1>5 DEF AppliedOK, worker
  <1>6. CASE Take
    <2> DEFINE pa == paLog[seen["pa"]]
    <2>1. held'["pa"] = seen["pa"] /\ UNCHANGED api
      BY <1>2, <1>6 DEF Take
    <2>2. PA' = pa
      BY <2>1 DEF PA, api
    <2>3. \/ pc' = "readHPA" /\ ~ ShouldCreateScaledObject(pa.spec)
          \/ pc' = "readSO" /\ pa.spec.valid
          \/ pc' = "writeStatus"
      BY <1>6 DEF Take, Goto
    <2> QED BY <2>2, <2>3 DEF AppliedOK, Applied, ShouldCreateScaledObject
  <1>7. CASE ReadSO \/ CreateSO \/ UpdateSO
    <2>1. held'["pa"] = held["pa"] /\ pc \in {"readSO", "createSO", "updateSO"} /\ PA' = PA
      BY <1>4, <1>7, InRunSteps DEF ReadSO, CreateSO, UpdateSO
    <2>2. PA.spec.valid
      BY <2>1 DEF AppliedOK
    <2>3. ASSUME NEW i \in DOMAIN soLog', soLog'[i].owner = "pa", soLog'[i].min = DesiredMin(PA.spec)
          PROVE  Applied(PA.spec)'
      BY <2>1, <2>2, <2>3 DEF Applied, DesiredMin, ScaleMin
    <2>4. \A e : soLog' = Append(soLog, e) =>
            Len(soLog) + 1 \in DOMAIN soLog' /\ soLog'[Len(soLog) + 1] = e
      BY <1>2
    <2>5. CASE ReadSO
      <3>1. seen["so"] \in DOMAIN soLog' /\ UNCHANGED soLog
        BY <1>1, <1>2, <2>5, PositionsTyped DEF ReadSO, api
      <3>2. \/ pc' \in {"createSO", "updateSO", "writeStatus"}
            \/ ControlledByPA(soLog[seen["so"]]) /\ soLog[seen["so"]].min = DesiredMin(PA.spec)
        BY <2>5 DEF ReadSO, Continue, Return, Goto
      <3>3. pc' \in {"createSO", "updateSO", "writeStatus", "readHPA"}
        BY <2>5 DEF ReadSO, Continue, Return, Goto
      <3> QED BY <2>1, <2>2, <2>3, <3>1, <3>2, <3>3 DEF AppliedOK, ControlledByPA
    <2>6. CASE CreateSO
      <3>1. pc' = "writeStatus" \/ (pc' = "readHPA" /\ soLog' = Append(soLog, DesiredScaledObject))
        BY <2>6 DEF CreateSO, SOCreated, Continue, Return, Goto
      <3> QED BY <2>1, <2>3, <2>4, <3>1 DEF AppliedOK, DesiredScaledObject
    <2>7. CASE UpdateSO
      <3> DEFINE so == [Current(soLog) EXCEPT !.min = DesiredMin(PA.spec)]
      <3>1. \/ pc' = "writeStatus"
            \/ pc' = "readHPA" /\ held["so"] = Len(soLog) /\ soLog' = Append(soLog, so)
        BY <2>7 DEF UpdateSO, SOUpdated, Continue, Return, Goto
      <3>2. held["so"] = Len(soLog) => so.owner = "pa" /\ so.min = DesiredMin(PA.spec)
        <4>1. Current(soLog) \in SOType
          BY <1>1, CurrentTyped
        <4>2. held["so"] = Len(soLog) => ControlledByPA(Current(soLog))
          BY <1>1, <2>7 DEF HeldOK, UpdateSO, Current
        <4> QED BY <4>1, <4>2 DEF SOType, ControlledByPA, NoObject
      <3> HIDE DEF so
      <3> QED BY <2>1, <2>3, <2>4, <3>1, <3>2 DEF AppliedOK
    <2> QED BY <1>7, <2>5, <2>6, <2>7
  <1>8. CASE ReadHPA \/ ReadSKS \/ CreateSKS \/ UpdateSKS
    <2>1. held'["pa"] = held["pa"] /\ pc \in {"readHPA", "readSKS", "createSKS", "updateSKS"}
      BY <1>8, InRunSteps DEF ReadHPA, ReadSKS, CreateSKS, UpdateSKS
    <2>2. Applied(PA.spec)' /\ PA' = PA
      BY <1>3, <1>4, <2>1 DEF AppliedOK
    <2>3. pc' \in {"readSKS", "createSKS", "updateSKS", "writeStatus"}
      BY <1>8 DEF ReadHPA, ReadSKS, CreateSKS, UpdateSKS, FinishWith, Continue, Return, Goto
    <2> QED BY <2>2, <2>3 DEF AppliedOK
  <1>9. CASE WriteStatus \/ Refetch \/ CallFails \/ Restart
    <2>1. pc' \in {"idle", "writeStatus", "refetch"}
      BY <1>9 DEF WriteStatus, Refetch, CallFails, Restart, Done, Return, Goto
    <2> QED BY <2>1 DEF AppliedOK
  <1>10. CASE Others \/ (\E k \in Kinds : Deliver(k)) \/ RetryFires \/ Resync \/ UNCHANGED vars
    <2>1. UNCHANGED worker
      BY <1>1, <1>10, OthersGrow DEF Deliver, RetryFires, Resync, vars
    <2> QED BY <1>5, <2>1
  <1> QED BY <1>6, <1>7, <1>8, <1>9, <1>10 DEF Next, Worker

\* A run that goes on holds what the caches do, as long as nothing has asked for another.
LEMMA RestContinues ==
  ASSUME IInv, RestOK, UNCHANGED <<seen, dirty>>,
         pc \notin Between, pc' \notin Between, held'["pa"] = held["pa"],
         held'["so"] # 0 => Exists(soLog'[held'["so"]]),
         pc' \in {"readSKS", "createSKS", "updateSKS"} /\ ~ dirty /\ Configured(CachedHPA)' =>
           held'["hpa"] = seen["hpa"]
  PROVE  RestOK'
  BY DEF RestOK, Between

\* One that returns without an error leaves a status that tells what the caches do.
LEMMA RestReturns ==
  ASSUME IInv, RestOK, LogsGrow, UNCHANGED <<paLog, seen, dirty>>, pc \notin Between,
         held'["pa"] = held["pa"], held'["so"] = held["so"],
         NEW st \in StatusType, NEW err, Return(st, err),
         ~ err /\ ~ dirty /\ Configured(CachedHPA)' /\ ~ SKSComing' =>
           Reported(st, PA.spec, CachedHPA', CachedSKS'),
         ~ err => Applied(PA.spec)
  PROVE  RestOK'
  <1>1. /\ pc' = "writeStatus" /\ failed' = err /\ status' = [st EXCEPT !.observed = PA.generation]
        /\ PA' = PA
    BY DEF Return, Goto, PA
  <1>2. status'.observed = PA.generation
    BY <1>1, StatusFields
  <1>3. held'["so"] # 0 => Exists(soLog'[held'["so"]])
    BY HeldSOStays
  <1>4. ASSUME ~ dirty', ~ failed' PROVE held'["pa"] = seen'["pa"] /\ Tells(status, PA)'
    <2>1. held'["pa"] = seen'["pa"]
      BY <1>4 DEF RestOK
    <2>2. Configured(CachedHPA)' /\ ~ SKSComing' => Reported(status', PA.spec, CachedHPA', CachedSKS')
      BY <1>1, <1>4, ObservedReports
    <2>3. Applied(PA.spec)'
      BY <1>1, <1>4, AppliedStays
    <2> QED BY <1>1, <1>2, <2>1, <2>2, <2>3 DEF Tells, Reported, HasEnough, ActiveThreshold, ScaleMin, InitialScale
  <1> QED BY <1>1, <1>3, <1>4 DEF RestOK, Between

\* A run begins with the cached PA.
LEMMA RestTake ==
  ASSUME IInv, RestOK, Take
  PROVE  RestOK'
  <1>1. LogsGrow /\ held \in [Kinds -> Nat]
    BY ReadsOK DEF IInv, TypeOK
  <1>2. /\ held' = [held EXCEPT !["pa"] = seen["pa"]] /\ UNCHANGED <<api, seen>>
        /\ pc' \in {"readHPA", "readSO"} \/ (pc' = "writeStatus" /\ failed')
    BY DEF Take, Goto
  <1>3. held'["pa"] = seen'["pa"] /\ held'["so"] = held["so"]
    BY <1>1, <1>2 DEF Kinds
  <1>4. held'["so"] # 0 => Exists(soLog'[held'["so"]])
    BY <1>1, <1>3, HeldSOStays
  <1> QED BY <1>2, <1>3, <1>4 DEF RestOK, Between

\* It goes on with the SO,
LEMMA RestSO ==
  ASSUME IInv, RestOK, ReadSO \/ CreateSO \/ UpdateSO
  PROVE  RestOK'
  <1>1. LogsGrow /\ UNCHANGED <<paLog, seen, dirty>> /\ held'["pa"] = held["pa"] /\ pc \notin Between
    BY InRunSteps, ReadsOK, WritesOK DEF IInv, ReadSO, CreateSO, UpdateSO, queue
  <1>2. /\ status \in StatusType /\ MarkInactive(status, "NotOwned") \in StatusType
        /\ MarkInactive(status, "FailedCreate") \in StatusType
        /\ held \in [Kinds -> Nat] /\ "so" \in Kinds
    BY StatusTyped DEF IInv, TypeOK, Kinds
  <1>3. held'["so"] \in {0, held["so"]} => (held'["so"] # 0 => Exists(soLog'[held'["so"]]))
    BY <1>1, HeldSOStays
  <1>4. CASE ReadSO
    <2> DEFINE so == soLog[seen["so"]]
    <2>1. CASE ~ Exists(so)
      <3>1. pc' = "createSO" /\ UNCHANGED held
        BY <1>4, <2>1 DEF ReadSO, Continue, Goto
      <3> QED BY <1>1, <1>3, <3>1, RestContinues DEF Between
    <2>2. CASE Exists(so) /\ ~ ControlledByPA(so)
      <3>1. Return(MarkInactive(status, "NotOwned"), TRUE) /\ UNCHANGED held
        BY <1>4, <2>2 DEF ReadSO
      <3> QED BY <1>1, <1>2, <3>1, RestReturns
    <2>3. CASE Exists(so) /\ ControlledByPA(so)
      <3>1. /\ held' = [held EXCEPT !["so"] = seen["so"]] /\ pc' \in {"readHPA", "updateSO"}
            /\ UNCHANGED soLog
        BY <1>4, <2>3 DEF ReadSO, Continue, Goto, api
      <3>2. held'["so"] = seen["so"]
        BY <1>2, <3>1
      <3>3. Exists(soLog'[held'["so"]])
        BY <2>3, <3>1, <3>2
      <3> QED BY <1>1, <3>1, <3>3, RestContinues DEF Between
    <2> QED BY <2>1, <2>2, <2>3
  <1>5. CASE CreateSO
    <2>1. CASE /\ SOCreated /\ held' = [held EXCEPT !["so"] = Len(soLog) + 1]
               /\ Continue("readHPA")
      <3>1. held'["so"] = Len(soLog) + 1
        BY <1>2, <2>1
      <3>2. soLog'[Len(soLog) + 1] = DesiredScaledObject
        <4>1. soLog \in Seq(SOType)
          BY DEF IInv, TypeOK
        <4> QED BY <2>1, <4>1 DEF SOCreated
      <3>3. Exists(soLog'[held'["so"]])
        BY <3>1, <3>2 DEF Exists, DesiredScaledObject, NoObject
      <3>4. pc' = "readHPA"
        BY <2>1 DEF Continue, Goto
      <3> QED BY <1>1, <3>3, <3>4, RestContinues DEF Between
    <2>2. CASE Return(MarkInactive(status, "FailedCreate"), TRUE) /\ UNCHANGED held
      BY <1>1, <1>2, <2>2, RestReturns
    <2> QED BY <1>5, <2>1, <2>2 DEF CreateSO
  <1>6. CASE UpdateSO
    <2>1. UNCHANGED held
      BY <1>6 DEF UpdateSO
    <2>2. CASE Continue("readHPA")
      <3>1. pc' = "readHPA"
        BY <2>2 DEF Continue, Goto
      <3> QED BY <1>1, <1>3, <2>1, <3>1, RestContinues DEF Between
    <2>3. CASE Return(status, TRUE)
      BY <1>1, <1>2, <2>1, <2>3, RestReturns
    <2> QED BY <1>6, <2>2, <2>3 DEF UpdateSO
  <1> QED BY <1>4, <1>5, <1>6

\* with the HPA, where it stops at one that is not configured,
LEMMA RestHPA ==
  ASSUME IInv, RestOK, AppliedOK, ReadHPA
  PROVE  RestOK'
  <1>1. LogsGrow /\ UNCHANGED <<paLog, seen, dirty>> /\ held'["pa"] = held["pa"] /\ pc \notin Between
    BY InRunSteps, ReadsOK DEF IInv, ReadHPA, queue
  <1>2. status \in StatusType /\ held \in [Kinds -> Nat] /\ "so" \in Kinds /\ "hpa" \in Kinds
    BY DEF IInv, TypeOK, Kinds
  <1>3. CASE ~ Exists(CachedHPA) \/ BelowMinimum(CachedHPA)
    <2>1. Return(status, FALSE) /\ UNCHANGED held
      BY <1>3 DEF ReadHPA, CachedHPA
    <2>2. ~ Configured(CachedHPA)
      <3>1. CASE BelowMinimum(CachedHPA) /\ Exists(CachedHPA)
        <4>1. soLog \in Seq(SOType) /\ held["so"] \in 1 .. Len(soLog)
          <5>1. soLog \in Seq(SOType) /\ held["so"] # 0
            BY <3>1 DEF IInv, TypeOK, BelowMinimum
          <5> QED BY <5>1, PositionsTyped DEF IInv
        <4>2. held["so"] \in DOMAIN soLog /\ Exists(soLog[held["so"]]) /\ soLog[held["so"]] \in SOType
          BY <3>1, <4>1 DEF BelowMinimum, RestOK
        <4>3. CachedHPA \in HPAType
          BY SeenTyped DEF IInv, CachedHPA
        <4>4. soLog[held["so"]].min \in Nat /\ CachedHPA.desired \in Nat
          BY <3>1, <4>2, <4>3, ConstantsAssumption DEF SOType, HPAType, Exists, Replicas
        <4> QED BY <3>1, <4>2, <4>4 DEF BelowMinimum, Configured
      <3> QED BY <1>3, <3>1 DEF Configured
    <2>3. ~ Configured(CachedHPA)'
      BY <1>1, <2>2, CachesStay
    <2>4. Applied(PA.spec)
      BY DEF AppliedOK, ReadHPA
    <2> QED BY <1>1, <1>2, <2>1, <2>3, <2>4, RestReturns
  <1>4. CASE ~ (~ Exists(CachedHPA) \/ BelowMinimum(CachedHPA))
    <2>1. held' = [held EXCEPT !["hpa"] = seen["hpa"]] /\ pc' = "readSKS"
      BY <1>4 DEF ReadHPA, CachedHPA, Continue, Goto
    <2>2. held'["hpa"] = seen["hpa"] /\ held'["so"] = held["so"]
      BY <1>2, <2>1
    <2>3. held'["so"] # 0 => Exists(soLog'[held'["so"]])
      BY <1>1, <2>2, HeldSOStays
    <2> QED BY <1>1, <2>1, <2>2, <2>3, RestContinues DEF Between
  <1> QED BY <1>3, <1>4

\* and with the SKS: it reports what it has read, and an SKS that it writes is on its way
\* to the cache.
LEMMA RestSKS ==
  ASSUME IInv, RestOK, AppliedOK, ReadSKS \/ CreateSKS \/ UpdateSKS
  PROVE  RestOK'
  <1>1. LogsGrow /\ UNCHANGED <<paLog, seen, dirty>> /\ held'["pa"] = held["pa"] /\ pc \notin Between
    BY InRunSteps, ReadsOK, WritesOK DEF IInv, ReadSKS, CreateSKS, UpdateSKS, queue
  <1>2. /\ status \in StatusType /\ MarkInactive(status, "NotOwned") \in StatusType
        /\ held \in [Kinds -> Nat] /\ "so" \in Kinds /\ "sks" \in Kinds /\ "hpa" \in Kinds
        /\ sksLog \in Seq(SKSType) /\ seen["sks"] \in 1 .. Len(sksLog)
    BY StatusTyped, PositionsTyped DEF IInv, TypeOK, Kinds
  <1>3. /\ pc \in {"readSKS", "createSKS", "updateSKS"} /\ HPA \in HPAType /\ Exists(HPA)
        /\ Applied(PA.spec)
        /\ ~ dirty /\ Configured(CachedHPA)' => held["hpa"] = seen["hpa"] /\ CachedHPA' = HPA
    <2>1. pc \in {"readSKS", "createSKS", "updateSKS"}
      BY DEF ReadSKS, CreateSKS, UpdateSKS
    <2>2. HPA \in HPAType /\ Exists(HPA)
      BY <2>1, HeldTyped DEF IInv
    <2>3. CachedHPA' = CachedHPA /\ (Configured(CachedHPA)' => Configured(CachedHPA))
      BY <1>1, CachesStay
    <2> QED BY <2>1, <2>2, <2>3 DEF RestOK, AppliedOK, HPA, CachedHPA
  <1>4. ASSUME NEW sks, FinishWith(sks)
        PROVE  \E st \in StatusType : Return(st, FALSE)
    BY <1>2, <1>3, <1>4, StatusTyped DEF FinishWith
  <1>5. ASSUME NEW sks, sks.owner = "pa", sksLog' = Append(sksLog, sks) PROVE SKSComing'
    <2>1. Len(sksLog) + 1 \in DOMAIN sksLog' /\ sksLog'[Len(sksLog) + 1] = sks
      BY <1>2, <1>5
    <2> QED BY <1>1, <1>2, <1>5, <2>1 DEF SKSComing
  <1>6. CASE ReadSKS
    <2>1. CASE Continue("createSKS") /\ UNCHANGED held
      <3>1. pc' = "createSKS"
        BY <2>1 DEF Continue, Goto
      <3> QED BY <1>1, <1>3, <2>1, <3>1, HeldSOStays, RestContinues DEF Between
    <2>2. CASE Return(MarkInactive(status, "NotOwned"), TRUE) /\ UNCHANGED held
      BY <1>1, <1>2, <2>2, RestReturns
    <2>3. CASE /\ ControlledByPA(CachedSKS) /\ held' = [held EXCEPT !["sks"] = seen["sks"]]
               /\ CachedSKS.mode = "Serve" /\ FinishWith(CachedSKS)
      <3>1. held'["so"] = held["so"]
        BY <1>2, <2>3
      <3> DEFINE st == Activate(WithSKS(status, PA.spec, CachedSKS, HPA), HPA)
      <3>2. st \in StatusType /\ Return(st, FALSE)
        BY <1>2, <1>3, <2>3, StatusTyped DEF FinishWith
      <3>3. CachedSKS.owner = "pa" /\ CachedSKS.mode = "Serve" /\ CachedSKS' = CachedSKS
        BY <1>1, <2>3, CachesStay DEF ControlledByPA
      <3>4. Reported(st, PA.spec, HPA, CachedSKS)
        BY <1>2, <1>3, <3>3, ActiveReports
      <3> HIDE DEF st
      <3> QED BY <1>1, <1>3, <3>1, <3>2, <3>3, <3>4, RestReturns
    <2>4. CASE held' = [held EXCEPT !["sks"] = seen["sks"]] /\ Continue("updateSKS")
      <3>1. held'["so"] = held["so"] /\ held'["hpa"] = held["hpa"] /\ pc' = "updateSKS"
        BY <1>2, <2>4 DEF Continue, Goto
      <3>2. held'["so"] # 0 => Exists(soLog'[held'["so"]])
        BY <1>1, <3>1, HeldSOStays
      <3> QED BY <1>1, <1>3, <3>1, <3>2, RestContinues DEF Between
    <2> QED BY <1>6, <2>1, <2>2, <2>3, <2>4 DEF ReadSKS, CachedSKS
  <1>7. CASE CreateSKS
    <2>1. UNCHANGED held
      BY <1>7 DEF CreateSKS
    <2>2. CASE SKSCreated /\ FinishWith(NewSKS)
      <3>1. SKSComing'
        BY <1>5, <2>2 DEF SKSCreated, NewSKS
      <3>2. PICK st \in StatusType : Return(st, FALSE)
        BY <1>4, <2>2
      <3> QED BY <1>1, <1>3, <2>1, <3>1, <3>2, RestReturns
    <2>3. CASE Return(status, TRUE)
      BY <1>1, <1>2, <2>1, <2>3, RestReturns
    <2> QED BY <1>7, <2>2, <2>3 DEF CreateSKS
  <1>8. CASE UpdateSKS
    <2>1. UNCHANGED held /\ pc = "updateSKS"
      BY <1>8 DEF UpdateSKS
    <2>2. CASE SKSUpdated /\ FinishWith(ServeSKS(Current(sksLog)))
      <3>1. Current(sksLog) \in SKSType /\ ControlledByPA(Current(sksLog))
        BY <2>1, <2>2, CurrentTyped DEF IInv, HeldOK, SKSUpdated, Current
      <3>2. ServeSKS(Current(sksLog)).owner = "pa"
        BY <3>1 DEF ServeSKS, SKSType, ControlledByPA, NoObject
      <3>3. SKSComing'
        BY <1>5, <2>2, <3>2 DEF SKSUpdated
      <3>4. PICK st \in StatusType : Return(st, FALSE)
        BY <1>4, <2>2
      <3> QED BY <1>1, <1>3, <2>1, <3>3, <3>4, RestReturns
    <2>3. CASE Return(status, TRUE)
      BY <1>1, <1>2, <2>1, <2>3, RestReturns
    <2> QED BY <1>8, <2>2, <2>3 DEF UpdateSKS
  <1> QED BY <1>6, <1>7, <1>8

\* A run ends with the status written, which is an event, or found as it should be, or with
\* the key to be added again.
LEMMA RestEnd ==
  ASSUME IInv, RestOK, WriteStatus \/ Refetch
  PROVE  RestOK'
  <1>1. LogsGrow /\ UNCHANGED <<seen, dirty>> /\ pc \in {"writeStatus", "refetch"}
    BY ReadsOK, WritesOK DEF IInv, WriteStatus, Refetch, queue
  <1>2. /\ paLog \in Seq(PAType) /\ seen["pa"] \in 1 .. Len(paLog) /\ held \in [Kinds -> Nat]
        /\ held["pa"] \in 0 .. Len(paLog) /\ Len(paLog) \in Nat /\ "so" \in Kinds
    BY PositionsTyped DEF IInv, TypeOK, Kinds
  <1>3. /\ PAComing => PAComing'
        /\ \A st, pa : Tells(st, pa) => Tells(st, pa)'
    BY <1>1, CachesStay
  <1>4. held'["so"] \in {0, held["so"]} => (held'["so"] # 0 => Exists(soLog'[held'["so"]]))
    BY <1>1, HeldSOStays
  <1>5. ASSUME NEW err, Done(err), ~ err /\ ~ dirty =>
                 PAComing' \/ Tells(paLog[seen["pa"]].status, paLog[seen["pa"]])'
        PROVE  RestOK'
    <2>1. pc' = "idle" /\ held'["so"] = 0 /\ (~ retry' => ~ err)
      BY <1>5 DEF Done, Kinds
    <2> QED BY <1>1, <1>5, <2>1 DEF RestOK, Between
  <1>6. CASE pc = "writeStatus" /\ StatusUnchanged /\ Done(failed) /\ UNCHANGED api
    <2>1. ASSUME ~ failed, ~ dirty
          PROVE  PAComing' \/ Tells(paLog[seen["pa"]].status, paLog[seen["pa"]])'
      <3>1. PAComing \/ (held["pa"] = seen["pa"] /\ Tells(status, PA))
        BY <1>6, <2>1 DEF RestOK
      <3>2. held["pa"] = seen["pa"] => PA = paLog[seen["pa"]] /\ status = paLog[seen["pa"]].status
        BY <1>6 DEF StatusUnchanged, PA
      <3>3. PAComing \/ Tells(paLog[seen["pa"]].status, paLog[seen["pa"]])
        BY <3>1, <3>2
      <3> QED BY <1>1, <1>3, <1>6, <3>3 DEF api
    <2> QED BY <1>5, <1>6, <2>1
  <1>7. CASE StatusUpdated /\ Done(failed)
    <2>1. Len(paLog') = Len(paLog) + 1
      BY <1>2, <1>7 DEF StatusUpdated
    <2>2. PAComing'
      BY <1>1, <1>2, <2>1 DEF PAComing
    <2> QED BY <1>5, <1>7, <2>2
  <1>8. CASE Done(TRUE)
    BY <1>5, <1>8
  <1>9. CASE /\ pc = "writeStatus" /\ held["pa"] # Len(paLog) /\ Goto("refetch")
             /\ UNCHANGED <<held, status, failed, retry>>
    <2>1. ~ dirty /\ ~ failed => PAComing
      BY <1>2, <1>9 DEF RestOK, PAComing
    <2> QED BY <1>1, <1>3, <1>4, <1>9, <2>1 DEF RestOK, Between, Goto
  <1>10. CASE Refetch
    <2>1. /\ pc = "refetch" /\ pc' = "writeStatus" /\ UNCHANGED failed
          /\ held' = [held EXCEPT !["pa"] = Len(paLog)]
      BY <1>10 DEF Refetch, Goto
    <2>2. held'["so"] = held["so"]
      BY <1>2, <2>1
    <2>3. ~ dirty /\ ~ failed => PAComing
      BY <2>1 DEF RestOK
    <2> QED BY <1>1, <1>3, <1>4, <2>1, <2>2, <2>3 DEF RestOK, Between
  <1>11. CASE WriteStatus
    BY <1>6, <1>7, <1>8, <1>9, <1>11 DEF WriteStatus
  <1> QED BY <1>10, <1>11

\* A call that fails has the key added again, sooner or later.
LEMMA RestFault ==
  ASSUME IInv, RestOK, CallFails
  PROVE  RestOK'
  <1>1. LogsGrow /\ UNCHANGED <<seen, dirty>>
    BY CallFailsOK DEF IInv, CallFails
  <1>2. \/ \E st : Return(st, TRUE) /\ UNCHANGED held
        \/ Done(TRUE)
    BY DEF CallFails
  <1>3. CASE \E st : Return(st, TRUE) /\ UNCHANGED held
    <2>1. pc' = "writeStatus" /\ failed' /\ UNCHANGED held
      BY <1>3 DEF Return, Goto
    <2>2. held'["so"] # 0 => Exists(soLog'[held'["so"]])
      BY <1>1, <2>1, HeldSOStays
    <2> QED BY <2>1, <2>2 DEF RestOK, Between
  <1>4. CASE Done(TRUE)
    <2>1. pc' = "idle" /\ retry' /\ held'["so"] = 0
      BY <1>4 DEF Done, Kinds
    <2> QED BY <2>1 DEF RestOK, Between
  <1> QED BY <1>2, <1>3, <1>4

\* Nothing is missed for good: a PA whose key is nowhere and whose events have all been
\* delivered has had the SO it asks for, is observed, and reports its HPA and its SKS as
\* they are.
THEOREM RestIsDoneHolds == Spec => []RestIsDone
  <1>1. Init => RestOK /\ AppliedOK
    <2> SUFFICES ASSUME Init PROVE RestOK /\ AppliedOK
      OBVIOUS
    <2>1. dirty /\ pc = "idle" /\ held["so"] = 0
      BY DEF Init, Kinds
    <2> QED BY <2>1 DEF RestOK, AppliedOK
  <1>2. IInv /\ RestOK /\ AppliedOK /\ [Next]_vars => RestOK'
    <2> SUFFICES ASSUME IInv, RestOK, AppliedOK, [Next]_vars PROVE RestOK'
      OBVIOUS
    <2>1. CASE Worker
      BY <2>1, RestTake, RestSO, RestHPA, RestSKS, RestEnd DEF Worker
    <2>2. CASE ~ Worker
      BY <2>2, RestAround, RestFault DEF Next
    <2> QED BY <2>1, <2>2
  <1>3. IInv /\ RestOK => RestIsDone
    <2> SUFFICES ASSUME IInv, RestOK, AtRest PROVE RestIsDone
      BY DEF RestIsDone
    <2>1. /\ seen["pa"] = Len(paLog) /\ seen["hpa"] = Len(hpaLog) /\ seen["sks"] = Len(sksLog)
          /\ pc = "idle" /\ ~ dirty /\ ~ retry
      BY DEF AtRest, Kinds, Log
    <2>2. sksLog \in Seq(SKSType) /\ Len(paLog) \in Nat
      BY CurrentTyped DEF IInv, TypeOK, Kinds, Log
    <2>3. ~ PAComing /\ ~ SKSComing
      <3>1. DOMAIN sksLog = 1 .. Len(sksLog) /\ Len(sksLog) \in Nat
        BY <2>2
      <3> QED BY <2>1, <2>2, <3>1 DEF PAComing, SKSComing
    <2>4. Tells(Current(paLog).status, Current(paLog))
      BY <2>1, <2>3 DEF RestOK, Current
    <2>5. CachedHPA = Current(hpaLog) /\ CachedSKS = SKS
      BY <2>1 DEF CachedHPA, CachedSKS, SKS, Current
    <2> QED BY <2>3, <2>4, <2>5 DEF Tells, RestIsDone, Published
  <1>4. IInv /\ AppliedOK /\ [Next]_vars => AppliedOK'
    BY AppliedStep
  <1> QED BY <1>1, <1>2, <1>3, <1>4, IInvHolds, PTL DEF Spec
===============================================================================
