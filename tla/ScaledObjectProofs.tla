-------------------------- MODULE ScaledObjectProofs --------------------------
(***************************************************************************)
(* What DesiredScaledObject makes of any PodAutoscaler: of every bound,    *)
(* target, window and number of triggers, not only of those that are run.  *)
(***************************************************************************)
EXTENDS ScaledObject, SequenceTheorems, TLAPS

\* A result is that of its PA.
IInv ==
  /\ pa \in PAType /\ before.pa \in PAType
  /\ result \in {Nothing, DesiredScaledObject(pa)}
  /\ before.result \in {Nothing, DesiredScaledObject(before.pa)}

\* A result is always the one of its PA.
LEMMA IInvHolds == Spec => []IInv
  <1>1. Init => IInv
    BY InputsAssumption DEF Init, IInv
  <1>2. IInv /\ [Next]_vars => IInv'
    <2> SUFFICES ASSUME IInv, [Next]_vars PROVE IInv'
      OBVIOUS
    <2>1. CASE Compute
      BY <2>1 DEF IInv, Compute
    <2>2. CASE Edit
      BY <2>2 DEF IInv, Edit
    <2>3. CASE UNCHANGED vars
      BY <2>3 DEF IInv, vars
    <2> QED BY <2>1, <2>2, <2>3 DEF Next
  <1> QED BY <1>1, <1>2, PTL DEF Spec

-------------------------------------------------------------------------------
(* The operators *)

\* The three outcomes that are no object.
LEMMA NotAnObject == ~ IsObject(Nothing) /\ ~ IsObject(Failed) /\ ~ IsObject(Panicked)
  BY DEF IsObject, Nothing, Failed, Panicked

\* The fields of a PA.
LEMMA PATypes ==
  ASSUME NEW p \in PAType
  PROVE  /\ p.reachable \in BOOLEAN /\ p.metric \in {"cpu", "memory", "custom"}
         /\ p.min \in Int /\ p.max \in Int /\ p.cfgMin \in Nat /\ p.cfgMax \in Nat
         /\ p.target \in Int
  <1>1. Numbers \subseteq Int
    BY DEF Numbers, Nil
  <1>2. /\ p.reachable \in BOOLEAN /\ p.metric \in {"cpu", "memory", "custom"}
        /\ p.min \in Numbers /\ p.max \in Numbers /\ p.cfgMin \in Nat /\ p.cfgMax \in Nat
        /\ p.target \in Numbers
    BY DEF PAType
  <1> QED BY <1>1, <1>2

\* What comes first among the triggers.
LEMMA TriggersShape ==
  ASSUME NEW p \in PAType, HasTarget(p)
  PROVE  /\ 1 \in DOMAIN Triggers(p) /\ Triggers(p)[1] = DefaultTrigger(p)
         /\ ExtraTriggers(p) = <<>> => Triggers(p) = <<DefaultTrigger(p)>>
  <1> DEFINE T     == {DefaultTrigger(p)} \cup TriggerType
             first == <<DefaultTrigger(p)>>
             more  == ExtraTriggers(p)
  <1>1. more \in Seq(TriggerType)
    <2>1. p.extraTriggers \in Seq(TriggerType)
      BY DEF PAType
    <2>2. <<>> \in Seq(TriggerType)
      OBVIOUS
    <2> QED BY <2>1, <2>2, Zenon DEF ExtraTriggers
  <1>2. first \in Seq(T) /\ Len(first) = 1 /\ first[1] = DefaultTrigger(p)
    OBVIOUS
  <1>3. Triggers(p) = first \o more
    BY DEF Triggers
  <1>4. TriggerType \subseteq T
    OBVIOUS
  <1> HIDE DEF more, first, T
  <1>5. more \in Seq(T)
    BY <1>1, <1>4, SeqMonotonic
  <1>6. /\ Triggers(p) \in Seq(T) /\ Len(Triggers(p)) = 1 + Len(more) /\ Len(more) \in Nat
        /\ Triggers(p)[1] = first[1]
    BY <1>2, <1>3, <1>5, ConcatProperties, LenProperties, SMTT(30)
  <1>7. 1 \in DOMAIN Triggers(p)
    BY <1>6, LenProperties
  <1>8. more = <<>> => Triggers(p) = first
    BY <1>2, <1>3, ConcatEmptySeq
  <1> QED BY <1>2, <1>6, <1>7, <1>8 DEF more, first

\* The type of the default trigger, and which parts of an authentication reference it has.
LEMMA DefaultFields ==
  ASSUME NEW p
  PROVE  /\ DefaultTrigger(p).type = IF p.metric = "custom" THEN "prometheus" ELSE p.metric
         /\ DefaultTrigger(p).metricType = MetricType(p)
         /\ DefaultTrigger(p).value = TriggerValue(p)
         /\ DefaultTrigger(p).ref = (p.metric = "custom" /\ p.authName = "ok")
         /\ DefaultTrigger(p).refKind = (p.metric = "custom" /\ p.authKind = "ok")
         /\ DefaultTrigger(p).modes = (p.metric = "custom" /\ p.authModes = "ok")
  BY Zenon DEF DefaultTrigger

\* What each direction of the Behavior comes from.
LEMMA BehaviorFields ==
  ASSUME NEW p \in PAType
  PROVE  LET window == IF p.window = Nil THEN "none" ELSE "window" IN
         /\ Behavior(p).up = IF p.up = "ok" THEN "rules" ELSE window
         /\ Behavior(p).down = IF p.down = "ok" THEN "rules" ELSE window
  <1> DEFINE window == IF p.window = Nil THEN "none" ELSE "window"
  <1>1. \A b \in BehaviorType : b \in {NoBehavior, Windowed(p), RuledUp(p)} /\ (b.set \/ b = NoBehavior) =>
          Made(b) \in BehaviorType /\ Made(b).up = b.up /\ Made(b).down = b.down
    BY DEF Made, NoBehavior, BehaviorType
  <1>2. /\ Windowed(p) \in BehaviorType /\ (Windowed(p).set \/ Windowed(p) = NoBehavior)
        /\ Windowed(p).up = window /\ Windowed(p).down = window
    BY DEF Windowed, NoBehavior, BehaviorType
  <1>3. /\ RuledUp(p) \in BehaviorType /\ (RuledUp(p).set \/ RuledUp(p) = NoBehavior)
        /\ RuledUp(p).up = (IF p.up = "ok" THEN "rules" ELSE window) /\ RuledUp(p).down = window
    <2>1. CASE p.up = "ok"
      <3>1. RuledUp(p) = [Made(Windowed(p)) EXCEPT !.up = "rules"]
        BY <2>1 DEF RuledUp
      <3>2. Made(Windowed(p)) \in BehaviorType /\ Made(Windowed(p)).set /\ Made(Windowed(p)).down = window
        BY <1>1, <1>2 DEF Made, NoBehavior, BehaviorType
      <3> QED BY <2>1, <3>1, <3>2 DEF BehaviorType
    <2>2. CASE p.up # "ok"
      BY <1>2, <2>2 DEF RuledUp
    <2> QED BY <2>1, <2>2
  <1>4. CASE p.down = "ok"
    <2>1. Behavior(p) = [Made(RuledUp(p)) EXCEPT !.down = "rules"]
      BY <1>4 DEF Behavior
    <2>2. Made(RuledUp(p)) \in BehaviorType /\ Made(RuledUp(p)).up = RuledUp(p).up
      BY <1>1, <1>3
    <2> QED BY <1>3, <1>4, <2>1, <2>2 DEF BehaviorType
  <1>5. CASE p.down # "ok"
    BY <1>3, <1>5 DEF Behavior
  <1> QED BY <1>4, <1>5

\* What is built without an override; SetDefaults is total on the empty object.
LEMMA GeneratedObject ==
  ASSUME NEW p \in PAType, p.override = "absent", IsObject(DesiredScaledObject(p))
  PROVE  /\ ~ Fails(p)
         /\ DesiredScaledObject(p) =
              [kind |-> "object", owner |-> "pa", scaleTarget |-> "pa", hpaName |-> "pa",
               advanced |-> "complete", max |-> ScaleMax(p), min |-> MinReplicaCount(p),
               triggers |-> Triggers(p), modifiers |-> p.modifiers, behavior |-> Behavior(p)]
  <1>1. ~ Fails(p) /\ DesiredScaledObject(p) = Generated(p)
    BY NotAnObject DEF DesiredScaledObject
  <1>2. SetDefaults(Empty, p) =
          [kind |-> "object", owner |-> "pa", scaleTarget |-> "pa", hpaName |-> "pa",
           advanced |-> "complete", max |-> ScaleMax(p), min |-> Nil, triggers |-> <<>>,
           modifiers |-> "absent", behavior |-> NoBehavior]
    BY DEF SetDefaults, Empty
  <1>3. Generated(p) =
          [[kind |-> "object", owner |-> "pa", scaleTarget |-> "pa", hpaName |-> "pa",
            advanced |-> "complete", max |-> ScaleMax(p), min |-> Nil, triggers |-> <<>>,
            modifiers |-> "absent", behavior |-> NoBehavior] EXCEPT
             !.min = MinReplicaCount(p), !.triggers = Triggers(p), !.modifiers = p.modifiers,
             !.behavior = Behavior(p)]
    BY <1>2, Zenon DEF Generated
  <1> QED BY <1>1, <1>3

\* The same, field by field.
LEMMA GeneratedFields ==
  ASSUME NEW p \in PAType, p.override = "absent", IsObject(DesiredScaledObject(p))
  PROVE  /\ DesiredScaledObject(p).triggers = Triggers(p)
         /\ DesiredScaledObject(p).min = MinReplicaCount(p)
         /\ DesiredScaledObject(p).max = ScaleMax(p)
         /\ DesiredScaledObject(p).modifiers = p.modifiers
         /\ DesiredScaledObject(p).behavior = Behavior(p)
         /\ ~ Fails(p)
  BY GeneratedObject

\* An object that a user gives keeps all that the defaults do not set.
LEMMA OverriddenObject ==
  ASSUME NEW p \in PAType, p.override # "absent", IsObject(DesiredScaledObject(p))
  PROVE  DesiredScaledObject(p) =
           [kind |-> "object", owner |-> "pa", scaleTarget |-> "pa", hpaName |-> "pa",
            advanced |-> "complete", max |-> ScaleMax(p), min |-> p.user.min,
            triggers |-> p.user.triggers, modifiers |-> p.user.modifiers,
            behavior |-> p.user.behavior]
  <1> DEFINE u == p.user
             desired == DesiredScaledObject(p)
  <1>1. u = [kind |-> "object", owner |-> u.owner, scaleTarget |-> u.scaleTarget,
             hpaName |-> u.hpaName, advanced |-> u.advanced, min |-> u.min, max |-> u.max,
             triggers |-> u.triggers, modifiers |-> u.modifiers, behavior |-> u.behavior]
    <2>1. u \in ObjectType
      BY DEF PAType
    <2> HIDE DEF u
    <2> QED BY <2>1 DEF ObjectType
  <1>2. desired = [u EXCEPT !.owner = "pa", !.scaleTarget = "pa",
                            !.advanced = "complete", !.max = ScaleMax(p), !.hpaName = "pa"]
    <2>1. desired = SetDefaults(u, p)
      BY NotAnObject DEF DesiredScaledObject, Overridden
    <2> HIDE DEF desired, u
    <2>2. desired # Panicked
      BY NotAnObject DEF desired
    <2> QED BY <2>1, <2>2, Zenon DEF SetDefaults
  <1> DEFINE owner == u.owner target == u.scaleTarget name == u.hpaName advanced == u.advanced
             min == u.min max == u.max triggers == u.triggers modifiers == u.modifiers
             behavior == u.behavior
  <1>3. desired =
          [[kind |-> "object", owner |-> owner, scaleTarget |-> target,
            hpaName |-> name, advanced |-> advanced, min |-> min, max |-> max,
            triggers |-> triggers, modifiers |-> modifiers, behavior |-> behavior]
              EXCEPT !.owner = "pa", !.scaleTarget = "pa", !.advanced = "complete",
                     !.max = ScaleMax(p), !.hpaName = "pa"]
    BY <1>1, <1>2, Zenon
  <1> HIDE DEF desired, owner, target, name, advanced, min, max, triggers, modifiers, behavior
  <1>4. desired =
          [kind |-> "object", owner |-> "pa", scaleTarget |-> "pa", hpaName |-> "pa",
           advanced |-> "complete", max |-> ScaleMax(p), min |-> min,
           triggers |-> triggers, modifiers |-> modifiers, behavior |-> behavior]
    BY <1>3, Zenon
  <1> QED BY <1>4 DEF desired, min, triggers, modifiers, behavior

\* A PA whose traffic comes or goes differs in that only.
LEMMA TrafficChange ==
  ASSUME NEW p \in PAType, NEW q, q = [p EXCEPT !.reachable = ~ p.reachable]
  PROVE  /\ q.reachable = ~ p.reachable
         /\ q.min = p.min /\ q.max = p.max /\ q.cfgMin = p.cfgMin /\ q.cfgMax = p.cfgMax
         /\ q.override = p.override /\ q.user = p.user /\ q.modifiers = p.modifiers
         /\ q.metric = p.metric /\ q.target = p.target /\ q.metricType = p.metricType
         /\ q.query = p.query /\ q.address = p.address
         /\ q.extra = p.extra /\ q.extraTriggers = p.extraTriggers
         /\ q.authName = p.authName /\ q.authKind = p.authKind /\ q.authModes = p.authModes
         /\ q.window = p.window /\ q.up = p.up /\ q.down = p.down
  BY DEF PAType

\* Reachability changes nothing but the minimum.
LEMMA OnlyMinMoves ==
  ASSUME NEW p \in PAType, NEW q \in PAType, q = [p EXCEPT !.reachable = ~ p.reachable]
  PROVE  /\ Fails(q) = Fails(p) /\ Triggers(q) = Triggers(p) /\ ScaleMax(q) = ScaleMax(p)
         /\ Behavior(q) = Behavior(p) /\ Overridden(q) = Overridden(p)
         /\ IF p.reachable THEN MinReplicaCount(q) <= MinReplicaCount(p)
            ELSE MinReplicaCount(p) <= MinReplicaCount(q)
  <1>0. /\ q.reachable = ~ p.reachable
        /\ q.min = p.min /\ q.max = p.max /\ q.cfgMin = p.cfgMin /\ q.cfgMax = p.cfgMax
        /\ q.override = p.override /\ q.user = p.user /\ q.modifiers = p.modifiers
        /\ q.metric = p.metric /\ q.target = p.target /\ q.metricType = p.metricType
        /\ q.query = p.query /\ q.address = p.address
        /\ q.extra = p.extra /\ q.extraTriggers = p.extraTriggers
        /\ q.authName = p.authName /\ q.authKind = p.authKind /\ q.authModes = p.authModes
        /\ q.window = p.window /\ q.up = p.up /\ q.down = p.down
    BY TrafficChange
  <1>1. IsResource(q) = IsResource(p) /\ Target(q) = Target(p) /\ ScaleMax(q) = ScaleMax(p)
    BY <1>0, SMTT(30) DEF IsResource, Target, ScaleMax
  <1>2. HasTarget(q) = HasTarget(p) /\ TriggerValue(q) = TriggerValue(p)
    BY <1>0, <1>1, Zenon DEF HasTarget, TriggerValue
  <1>3. MetricType(q) = MetricType(p) /\ AuthFails(q) = AuthFails(p)
        /\ AddressFails(q) = AddressFails(p) /\ ExtraTriggers(q) = ExtraTriggers(p)
    BY <1>0, <1>1, Zenon DEF MetricType, AuthFails, AddressFails, ExtraTriggers
  <1>4. DefaultTrigger(q) = DefaultTrigger(p)
    BY <1>0, <1>2, <1>3, Zenon DEF DefaultTrigger
  <1>5. Triggers(q) = Triggers(p)
    BY <1>2, <1>3, <1>4, Zenon DEF Triggers
  <1>6. Fails(q) = Fails(p)
    BY <1>0, <1>2, <1>3, <1>5, ZenonT(60) DEF Fails, TriggerFails
  <1>7. Behavior(q) = Behavior(p)
    <2>1. Windowed(q) = Windowed(p)
      BY <1>0, Zenon DEF Windowed
    <2>2. RuledUp(q) = RuledUp(p)
      BY <1>0, <2>1, Zenon DEF RuledUp
    <2> QED BY <1>0, <2>2, Zenon DEF Behavior
  <1>8. Overridden(q) = Overridden(p)
    <2> DEFINE set(so, max) == [so EXCEPT !.owner = "pa", !.scaleTarget = "pa",
                                           !.advanced = "complete", !.max = max, !.hpaName = "pa"]
    <2>1. /\ SetDefaults(q.user, q) =
               IF q.user.advanced = "noHPA" THEN Panicked ELSE set(q.user, ScaleMax(q))
          /\ SetDefaults(p.user, p) =
               IF p.user.advanced = "noHPA" THEN Panicked ELSE set(p.user, ScaleMax(p))
      BY Zenon DEF SetDefaults
    <2> HIDE DEF set
    <2>2. SetDefaults(q.user, q) = SetDefaults(p.user, p)
      BY <1>0, <1>1, <2>1, Zenon
    <2> QED BY <1>0, <2>2, Zenon DEF Overridden
  <1>9. ASSUME NEW r \in PAType, NEW s \in PAType, ~ r.reachable, s.reachable,
               IsResource(s) = IsResource(r), HasTarget(s) = HasTarget(r)
        PROVE  MinReplicaCount(r) <= MinReplicaCount(s)
    <2>1. ScaleMin(r) = 0 /\ ScaleMin(s) \in Int
      BY <1>9, PATypes DEF ScaleMin
    <2> QED BY <1>9, <2>1 DEF MinReplicaCount, Nil
  <1>10. p.reachable \in BOOLEAN
    BY PATypes
  <1> QED BY <1>0, <1>1, <1>2, <1>5, <1>6, <1>7, <1>8, <1>9, <1>10

\* A sequence of one, as a function.
LEMMA OneElement ==
  ASSUME NEW x
  PROVE  /\ DOMAIN <<x>> = {1} /\ \A i \in {1} : <<x>>[i] = x
         /\ [i \in {1} |-> x] = <<x>>
  <1>1. <<x>> \in Seq({x}) /\ Len(<<x>>) = 1 /\ <<x>>[1] = x
    OBVIOUS
  <1>2. 1 .. 1 = {1}
    OBVIOUS
  <1>3. DOMAIN <<x>> = {1} /\ <<x>> \in [{1} -> {x}]
    BY <1>1, <1>2, LenProperties
  <1>4. [i \in {1} |-> x] \in [{1} -> {x}]
    BY Zenon
  <1> QED BY <1>1, <1>3, <1>4

\* KEDA's minimum for the HPA is the one MakeHPA has.
LEMMA SameMinReplicas ==
  ASSUME NEW p \in PAType, NEW so, so.min = MinReplicaCount(p)
  PROVE  MinReplicas(KedaHPA(so)) = MinReplicas(MakeHPA(p))
  <1>1. ScaleMin(p) \in Int
    BY PATypes DEF ScaleMin
  <1>2. KedaHPA(so).min = MinReplicaCount(p) /\ MakeHPA(p).min = ScaleMin(p)
    BY DEF KedaHPA, MakeHPA
  <1>3. \/ MinReplicaCount(p) = ScaleMin(p) /\ ScaleMin(p) > 0
        \/ MinReplicaCount(p) \in {1, -1} /\ ~ (ScaleMin(p) > 0)
    BY <1>1 DEF MinReplicaCount, Nil
  <1> QED BY <1>1, <1>2, <1>3 DEF MinReplicas

\* So is its metric, if there are no scaling modifiers.
LEMMA SameMetrics ==
  ASSUME NEW p \in PAType, p.metricType = "", p.target # Nil,
         NEW so, so.triggers = <<DefaultTrigger(p)>>, so.modifiers = "absent"
  PROVE  KedaHPA(so).metrics = MakeHPA(p).metrics
  <1> DEFINE t      == DefaultTrigger(p)
             metric == [metric |-> IF t.type = "prometheus" THEN "custom" ELSE t.type,
                        type |-> t.metricType, value |-> t.value]
  <1>1. /\ t.type = IF p.metric = "custom" THEN "prometheus" ELSE p.metric
        /\ t.metricType = MetricType(p) /\ t.value = TriggerValue(p)
    BY DefaultFields
  <1>2. MetricType(p) = IF p.metric = "cpu" THEN "Utilization" ELSE "AverageValue"
    BY DEF MetricType
  <1>3. p.metric \in {"cpu", "memory", "custom"} /\ Target(p) = p.target
    BY PATypes DEF Target
  <1>4. KedaHPA(so).metrics = [i \in DOMAIN so.triggers |->
          [metric |-> IF so.triggers[i].type = "prometheus" THEN "custom" ELSE so.triggers[i].type,
           type |-> so.triggers[i].metricType, value |-> so.triggers[i].value]]
    BY Zenon DEF KedaHPA
  <1> HIDE DEF t
  <1>5. so.triggers = <<t>>
    BY DEF t
  <1>6. DOMAIN so.triggers = {1} /\ \A i \in {1} : so.triggers[i] = t
    BY <1>5, OneElement, Zenon
  <1>7. KedaHPA(so).metrics = [i \in {1} |-> metric]
    BY <1>4, <1>6, Zenon
  <1>8. metric = [metric |-> p.metric,
                  type   |-> IF p.metric = "cpu" THEN "Utilization" ELSE "AverageValue",
                  value  |-> (IF p.metric = "cpu" THEN p.target + 9 ELSE p.target) \div 10]
    BY <1>1, <1>2, <1>3 DEF TriggerValue
  <1> HIDE DEF metric
  <1>9. [i \in {1} |-> metric] = <<metric>>
    BY OneElement, Zenon
  <1> QED BY <1>7, <1>8, <1>9, Zenon DEF MakeHPA

-------------------------------------------------------------------------------
(* The properties *)

\* Whatever triggers users add to the default one, an object that scales on a resource
\* alone has a minimum.
THEOREM ResourceNeverAtZeroHolds == Spec => []ResourceNeverAtZero
  <1>1. IInv => ResourceNeverAtZero
    <2> SUFFICES ASSUME IInv, IsObject(result), pa.override = "absent", HasTarget(pa),
                        \A i \in DOMAIN result.triggers : result.triggers[i].type \in {"cpu", "memory"},
                        result.min \in {Nil, 0}
                 PROVE  FALSE
      BY Zenon DEF ResourceNeverAtZero, NeverScalesUp
    <2>1. /\ pa \in PAType /\ result.triggers = Triggers(pa) /\ result.min = MinReplicaCount(pa)
      BY NotAnObject, GeneratedFields DEF IInv
    <2>2. DefaultTrigger(pa).type \in {"cpu", "memory"}
      BY <2>1, TriggersShape
    <2>3. IsResource(pa)
      BY <2>1, <2>2, DefaultFields, PATypes DEF IsResource
    <2>4. ScaleMin(pa) \in Int
      BY <2>1, PATypes DEF ScaleMin
    <2> QED BY <2>1, <2>3, <2>4 DEF MinReplicaCount, Nil
  <1> QED BY <1>1, IInvHolds, PTL

\* Whatever the annotations combine to, the default trigger is not authenticated by half
\* and has a metric type that its metric allows.
THEOREM DefaultTriggerIsLegalHolds == Spec => []DefaultTriggerIsLegal
  <1>1. IInv => DefaultTriggerIsLegal
    <2> SUFFICES ASSUME IInv, IsObject(result), pa.override = "absent", HasTarget(pa)
                 PROVE  AuthIsComplete(result.triggers[1]) /\ MetricTypeIsAllowed(result.triggers[1])
      BY Zenon DEF DefaultTriggerIsLegal
    <2> DEFINE t == DefaultTrigger(pa)
    <2>1. pa \in PAType /\ ~ Fails(pa) /\ result.triggers = Triggers(pa)
      BY NotAnObject, GeneratedFields DEF IInv
    <2>2. result.triggers[1] = t
      BY <2>1, TriggersShape
    <2>3. MetricType(pa) # "bad" /\ (pa.metric = "custom" => ~ AuthFails(pa))
      BY <2>1 DEF Fails, TriggerFails
    <2> HIDE DEF t
    <2>4. AuthIsComplete(t)
      <3>1. /\ pa.authName \in {"absent", "ok"} /\ pa.authKind \in {"absent", "bad", "ok"}
            /\ pa.authModes \in {"absent", "ok"}
        BY <2>1 DEF PAType, JSON
      <3>2. /\ pa.metric = "custom" => (pa.authName = "ok" <=> pa.authModes = "ok")
            /\ pa.metric = "custom" /\ pa.authKind = "ok" => pa.authName = "ok"
        BY <2>3, <3>1 DEF AuthFails
      <3> QED BY <3>2, DefaultFields, Zenon DEF AuthIsComplete, t
    <2>5. MetricTypeIsAllowed(t)
      <3>1. /\ pa.metricType \in {"", "AverageValue", "Utilization", "Value", "bad"}
            /\ pa.metric \in {"cpu", "memory", "custom"}
        BY <2>1 DEF PAType
      <3>2. \/ MetricType(pa) \in {"Utilization", "AverageValue"}
            \/ ~ IsResource(pa) /\ MetricType(pa) = "Value"
        BY <2>3, <3>1 DEF MetricType
      <3>3. t.metricType = MetricType(pa) /\ (pa.metric = "custom" => t.type = "prometheus")
        BY DefaultFields DEF t
      <3> QED BY <3>1, <3>2, <3>3 DEF IsResource, MetricTypeIsAllowed
    <2> QED BY <2>2, <2>4, <2>5
  <1> QED BY <1>1, IInvHolds, PTL

\* Traffic leaving a revision, or coming back, moves the minimum and nothing else.
THEOREM TrafficOnlyMovesMinHolds == Spec => []TrafficOnlyMovesMin
  <1>1. IInv => TrafficOnlyMovesMin
    <2> SUFFICES ASSUME IInv, IsObject(before.result), result # Nothing,
                        before.pa = [pa EXCEPT !.reachable = ~ pa.reachable]
                 PROVE  /\ IsObject(result) /\ result = [before.result EXCEPT !.min = result.min]
                        /\ IF pa.reachable THEN before.result.min <= result.min
                           ELSE result.min <= before.result.min
      BY Zenon DEF TrafficOnlyMovesMin
    <2> DEFINE old == before.pa
    <2>1. /\ pa \in PAType /\ old \in PAType /\ old = [pa EXCEPT !.reachable = ~ pa.reachable]
          /\ result = DesiredScaledObject(pa) /\ before.result = DesiredScaledObject(old)
      BY NotAnObject DEF IInv
    <2> HIDE DEF old
    <2>2. old.override = pa.override /\ old.modifiers = pa.modifiers
      BY <2>1, TrafficChange
    <2>3. CASE pa.override # "absent"
      <3>1. result = before.result
        BY <2>1, <2>2, <2>3, OnlyMinMoves DEF DesiredScaledObject
      <3>2. IsObject(result)
        BY <3>1
      <3>3. result =
              [kind |-> "object", owner |-> "pa", scaleTarget |-> "pa", hpaName |-> "pa",
               advanced |-> "complete", max |-> ScaleMax(pa), min |-> pa.user.min,
               triggers |-> pa.user.triggers, modifiers |-> pa.user.modifiers,
               behavior |-> pa.user.behavior]
        BY <2>1, <2>3, <3>2, OverriddenObject, Zenon
      <3>4. result.min = pa.user.min /\ result = [result EXCEPT !.min = result.min]
        BY <3>3
      <3>5. pa.user.min \in Int
        <4>1. pa.user.min \in Numbers
          BY <2>1 DEF PAType, ObjectType
        <4> QED BY <4>1 DEF Numbers, Nil
      <3>6. result.min <= before.result.min /\ before.result.min <= result.min
        BY <3>1, <3>4, <3>5
      <3> QED BY <3>1, <3>2, <3>4, <3>6
    <2>4. CASE pa.override = "absent"
      <3>1. before.result =
              [kind |-> "object", owner |-> "pa", scaleTarget |-> "pa", hpaName |-> "pa",
               advanced |-> "complete", max |-> ScaleMax(pa), min |-> MinReplicaCount(old),
               triggers |-> Triggers(pa), modifiers |-> pa.modifiers, behavior |-> Behavior(pa)]
        <4>1. before.result =
                [kind |-> "object", owner |-> "pa", scaleTarget |-> "pa", hpaName |-> "pa",
                 advanced |-> "complete", max |-> ScaleMax(old), min |-> MinReplicaCount(old),
                 triggers |-> Triggers(old), modifiers |-> old.modifiers, behavior |-> Behavior(old)]
          BY <2>1, <2>2, <2>4, GeneratedObject, Zenon
        <4>2. /\ Triggers(old) = Triggers(pa) /\ ScaleMax(old) = ScaleMax(pa)
              /\ Behavior(old) = Behavior(pa)
          BY <2>1, OnlyMinMoves
        <4> QED BY <2>2, <4>1, <4>2, Zenon
      <3>2. ~ Fails(pa)
        BY <2>1, <2>2, <2>4, GeneratedFields, OnlyMinMoves
      <3>3. IsObject(result)
        BY <2>1, <2>4, <3>2 DEF DesiredScaledObject, Generated, SetDefaults, Empty, IsObject
      <3>4. result =
              [kind |-> "object", owner |-> "pa", scaleTarget |-> "pa", hpaName |-> "pa",
               advanced |-> "complete", max |-> ScaleMax(pa), min |-> MinReplicaCount(pa),
               triggers |-> Triggers(pa), modifiers |-> pa.modifiers, behavior |-> Behavior(pa)]
        BY <2>1, <2>4, <3>3, GeneratedObject
      <3>5. result = [before.result EXCEPT !.min = result.min]
        BY <3>1, <3>4
      <3>6. IF pa.reachable THEN MinReplicaCount(old) <= MinReplicaCount(pa)
            ELSE MinReplicaCount(pa) <= MinReplicaCount(old)
        BY <2>1, OnlyMinMoves
      <3>7. result.min = MinReplicaCount(pa) /\ before.result.min = MinReplicaCount(old)
        BY <3>1, <3>4
      <3> QED BY <3>3, <3>5, <3>6, <3>7, Zenon
    <2> QED BY <2>3, <2>4
  <1> QED BY <1>1, IInvHolds, PTL

\* Rules for one direction leave the other one as it was, and the window leaves rules alone.
THEOREM DirectionsAreApartHolds == Spec => []DirectionsAreApart
  <1>1. IInv => DirectionsAreApart
    <2> DEFINE old == before.result.behavior
               new == result.behavior
    <2> SUFFICES ASSUME IInv, IsObject(before.result), IsObject(result)
                 PROVE  /\ before.pa = [pa EXCEPT !.up = before.pa.up] => new.down = old.down
                        /\ before.pa = [pa EXCEPT !.down = before.pa.down] => new.up = old.up
                        /\ before.pa = [pa EXCEPT !.window = before.pa.window] =>
                             (pa.up = "ok" => new.up = old.up) /\ (pa.down = "ok" => new.down = old.down)
      BY Zenon DEF DirectionsAreApart
    <2> DEFINE q == before.pa
    <2>1. /\ pa \in PAType /\ q \in PAType
          /\ result = DesiredScaledObject(pa) /\ before.result = DesiredScaledObject(q)
      BY NotAnObject DEF IInv
    <2> HIDE DEF q
    <2>2. CASE q.override = pa.override /\ q.user = pa.user /\ pa.override # "absent"
      <3>1. new = old
        BY <2>1, <2>2, OverriddenObject
      <3> QED BY <3>1, Zenon
    <2>3. CASE q.override = pa.override /\ pa.override = "absent"
      <3>1. new = Behavior(pa) /\ old = Behavior(q)
        BY <2>1, <2>3, GeneratedFields
      <3> HIDE DEF new, old
      <3>2. ASSUME q = [pa EXCEPT !.up = q.up] PROVE new.down = old.down
        <4>1. q.down = pa.down /\ q.window = pa.window
          BY <2>1, <3>2 DEF PAType
        <4> QED BY <2>1, <3>1, <4>1, BehaviorFields
      <3>3. ASSUME q = [pa EXCEPT !.down = q.down] PROVE new.up = old.up
        <4>1. q.up = pa.up /\ q.window = pa.window
          BY <2>1, <3>3 DEF PAType
        <4> QED BY <2>1, <3>1, <4>1, BehaviorFields
      <3>4. ASSUME q = [pa EXCEPT !.window = q.window]
            PROVE  (pa.up = "ok" => new.up = old.up) /\ (pa.down = "ok" => new.down = old.down)
        <4>1. q.up = pa.up /\ q.down = pa.down
          BY <2>1, <3>4 DEF PAType
        <4> QED BY <2>1, <3>1, <4>1, BehaviorFields
      <3> QED BY <3>2, <3>3, <3>4 DEF q
    <2>4. (\/ q = [pa EXCEPT !.up = q.up] \/ q = [pa EXCEPT !.down = q.down]
           \/ q = [pa EXCEPT !.window = q.window]) => q.override = pa.override /\ q.user = pa.user
      BY <2>1 DEF PAType
    <2> QED BY <2>2, <2>3, <2>4, Zenon DEF q
  <1> QED BY <1>1, IInvHolds, PTL

\* A PA with a target that asks for nothing the HPA class does not know is scaled as that
\* class scales it.
THEOREM ScalesAsHPAHolds == Spec => []ScalesAsHPA
  <1>1. IInv => ScalesAsHPA
    <2> SUFFICES ASSUME IInv, IsObject(result), AsksAsHPA(pa)
                 PROVE  /\ MinReplicas(KedaHPA(result)) = MinReplicas(MakeHPA(pa))
                        /\ KedaHPA(result).max = MakeHPA(pa).max
                        /\ KedaHPA(result).metrics = MakeHPA(pa).metrics
      BY DEF ScalesAsHPA
    <2>1. pa \in PAType /\ IsObject(DesiredScaledObject(pa)) /\ result = DesiredScaledObject(pa)
      BY NotAnObject DEF IInv
    <2>2. /\ pa.override = "absent" /\ pa.modifiers = "absent" /\ ExtraTriggers(pa) = <<>>
          /\ pa.metricType = "" /\ pa.target # Nil
      BY DEF AsksAsHPA
    <2>3. /\ result.triggers = Triggers(pa) /\ result.modifiers = "absent"
          /\ result.min = MinReplicaCount(pa) /\ result.max = ScaleMax(pa)
      BY <2>1, <2>2, GeneratedFields, Zenon
    <2>4. HasTarget(pa)
      BY <2>2 DEF HasTarget, Target
    <2>5. result.triggers = <<DefaultTrigger(pa)>>
      BY <2>1, <2>2, <2>3, <2>4, TriggersShape
    <2>6. MinReplicas(KedaHPA(result)) = MinReplicas(MakeHPA(pa))
      BY <2>1, <2>3, SameMinReplicas
    <2>7. KedaHPA(result).max = MakeHPA(pa).max
      BY <2>3 DEF KedaHPA, MakeHPA
    <2>8. KedaHPA(result).metrics = MakeHPA(pa).metrics
      BY <2>1, <2>2, <2>3, <2>5, SameMetrics
    <2> QED BY <2>6, <2>7, <2>8
  <1> QED BY <1>1, IInvHolds, PTL
===============================================================================
