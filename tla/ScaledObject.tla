----------------------------- MODULE ScaledObject -----------------------------
(***************************************************************************)
(* DesiredScaledObject of resources/keda.go: the ScaledObject that the     *)
(* annotations of a PodAutoscaler (PA) and the config-autoscaler settings  *)
(* call for.  Annotations are taken for what they parse to: a JSON value   *)
(* is "ok" or "bad", a name is there or not; counts and targets are        *)
(* numbers, targets in tenths because annotations hold fractions.  What    *)
(* users write in JSON, triggers or a whole object, is taken over by the   *)
(* code as it is, so it may be anything of the type.                       *)
(* The state machine edits the annotations of one PA and computes, so a    *)
(* result can be compared with the one before the edit.                    *)
(***************************************************************************)
EXTENDS Integers, Sequences, Configuration

CONSTANTS
  Inputs,        \* the PAs that are tried, as PAType
  Edits(_),      \* the PAs that one edit makes of a PA
  Unlimited      \* stands for math.MaxInt32

Nil == -1        \* a number that is not there
Numbers == Nat \cup {Nil}

JSON == {"absent", "bad", "ok"}

TriggerType == [
  type: {"cpu", "memory", "prometheus", "other"},
  metricType: {"", "AverageValue", "Utilization", "Value", "bad"},
  value: Nat, address: Addresses,
  ref: BOOLEAN, refKind: BOOLEAN, modes: BOOLEAN ]   \* authentication

\* The Behavior of an HPA, a pointer that is nil unless set: where the rules of each
\* direction come from.
BehaviorType == [set: BOOLEAN, up: {"none", "window", "rules"}, down: {"none", "window", "rules"}]

Parties == {"none", "user", "pa"}

\* A ScaledObject.  spec.advanced may lack its horizontalPodAutoscalerConfig.
ObjectType == [
  kind: {"object"}, owner: Parties, scaleTarget: Parties, hpaName: Parties,
  advanced: {"nil", "noHPA", "complete"}, min: Numbers, max: Numbers,
  triggers: Seq(TriggerType), modifiers: {"absent", "ok"}, behavior: BehaviorType ]

PAType == [
  reachable: BOOLEAN, min: Numbers, max: Numbers,    \* annotations
  cfgMin: Nat, cfgMax: Nat,                          \* config-autoscaler
  override: JSON, user: ObjectType,                  \* what an ok override says
  modifiers: JSON,
  metric: {"cpu", "memory", "custom"}, target: Numbers,
  metricType: {"", "AverageValue", "Utilization", "Value", "bad"},
  query: JSON,                                       \* bad: the template fails
  address: Addresses,
  authName: {"absent", "ok"}, authKind: JSON, authModes: {"absent", "ok"},
  extra: JSON, extraTriggers: Seq(TriggerType),      \* what an ok extra says
  window: Numbers, up: JSON, down: JSON ]

\* Bounds that the webhook and the parser of config-autoscaler let through.
Ordered(min, max) == max \in {Nil, 0} \/ min <= max

ASSUME InputsAssumption ==
  /\ Inputs \subseteq PAType
  /\ \A p \in Inputs : Ordered(p.min, p.max) /\ Ordered(p.cfgMin, p.cfgMax)
  /\ Unlimited \in Nat \ {0}

\* Results that are no ScaledObject: an error, and a nil pointer dereferenced.
Failed   == [kind |-> "error"]
Panicked == [kind |-> "panic"]
Nothing  == [kind |-> "none"]
IsObject(r) == r.kind = "object"

VARIABLES pa, result, before     \* before: the PA and result of the last computation
vars == <<pa, result, before>>

-------------------------------------------------------------------------------
(* Bounds *)

ScaleMin(p) == IF ~ p.reachable THEN 0 ELSE IF p.min # Nil THEN p.min ELSE p.cfgMin

\* 0 is no limit.  The mutant looks at the annotation only while reachable.
ReachableMax(p) ==
  LET max == IF p.reachable /\ p.max # Nil THEN p.max ELSE p.cfgMax IN
  IF max = 0 THEN Unlimited ELSE max

ScaleMax(p) ==
  LET max == IF p.max # Nil THEN p.max ELSE p.cfgMax IN
  IF max = 0 THEN Unlimited ELSE max

-------------------------------------------------------------------------------
(* The default trigger *)

IsResource(p) == p.metric \in {"cpu", "memory"}

\* resolveTarget; Nil if there is no target.
Target(p) == IF p.target = Nil /\ p.metric = "cpu" THEN 700 ELSE p.target
HasTarget(p) == Target(p) # Nil

\* getMetricType; the mutant also lets resources have the type Value.
AnyMetricType(p) ==
  CASE p.metricType = "bad" -> "bad"
    [] p.metricType # ""    -> p.metricType
    [] OTHER -> IF p.metric = "cpu" THEN "Utilization" ELSE "AverageValue"

MetricType(p) ==
  CASE p.metricType = "bad" \/ (IsResource(p) /\ p.metricType = "Value") -> "bad"
    [] p.metricType = "" -> IF p.metric = "cpu" THEN "Utilization" ELSE "AverageValue"
    [] OTHER -> p.metricType

\* The number in the trigger: ceil for CPU, truncation for memory (in Mi) and for
\* the threshold of a custom metric.
TruncatedValue(p) == Target(p) \div 10      \* mutant: no ceil
TriggerValue(p) == (IF p.metric = "cpu" THEN Target(p) + 9 ELSE Target(p)) \div 10

\* The authentication part of getDefaultPrometheusTrigger.  The mutant does not
\* ask for the modes.
AuthFailsUnnamed(p) ==
  IF p.authName = "absent" THEN p.authKind # "absent" \/ p.authModes # "absent"
  ELSE p.authKind = "bad"

AuthFails(p) ==
  IF p.authName = "absent" THEN p.authKind # "absent" \/ p.authModes # "absent"
  ELSE p.authKind = "bad" \/ p.authModes = "absent"

\* An address annotation is parsed; without one the trigger has the configured address,
\* which has been parsed.
AddressFails(p) == p.address # "unset" /\ ~ ParseServerAddress(p.address)

TriggerFails(p) ==
  \/ MetricType(p) = "bad"
  \/ p.metric = "custom" /\ (p.query # "ok" \/ AddressFails(p) \/ AuthFails(p))

DefaultTrigger(p) ==
  LET custom == p.metric = "custom" IN
  [type |-> IF custom THEN "prometheus" ELSE p.metric,
   metricType |-> MetricType(p), value |-> TriggerValue(p),
   address |-> IF custom THEN p.address ELSE "unset",
   ref |-> custom /\ p.authName = "ok", refKind |-> custom /\ p.authKind = "ok",
   modes |-> custom /\ p.authModes = "ok"]

\* Unmarshalled without a look at them.
ExtraTriggers(p) == IF p.extra = "ok" THEN p.extraTriggers ELSE <<>>

Triggers(p) == (IF HasTarget(p) THEN <<DefaultTrigger(p)>> ELSE <<>>) \o ExtraTriggers(p)

-------------------------------------------------------------------------------
(* The ScaledObject *)

\* MinReplicaCount; Nil is a nil pointer.  The mutant forgets the floor.
MinWithoutFloor(p) == IF ScaleMin(p) > 0 THEN ScaleMin(p) ELSE Nil

MinReplicaCount(p) ==
  IF ScaleMin(p) > 0 THEN ScaleMin(p)
  ELSE IF HasTarget(p) /\ IsResource(p) THEN 1 ELSE Nil

\* The Behavior changes in three steps: the window annotation makes one with both
\* directions, the rules of one direction replace that direction in it, or in a new
\* one if it is still nil.  The mutant does not look for one.
NoBehavior == [set |-> FALSE, up |-> "none", down |-> "none"]
MadeAnew(behavior) == [NoBehavior EXCEPT !.set = TRUE]
Made(behavior) == IF behavior.set THEN behavior ELSE [NoBehavior EXCEPT !.set = TRUE]

Windowed(p) ==
  IF p.window = Nil THEN NoBehavior ELSE [set |-> TRUE, up |-> "window", down |-> "window"]

RuledUp(p) == IF p.up = "ok" THEN [Made(Windowed(p)) EXCEPT !.up = "rules"] ELSE Windowed(p)

Behavior(p) == IF p.down = "ok" THEN [Made(RuledUp(p)) EXCEPT !.down = "rules"] ELSE RuledUp(p)

Empty == [kind |-> "object", owner |-> "none", scaleTarget |-> "none", hpaName |-> "none",
          advanced |-> "nil", min |-> Nil, max |-> Nil, triggers |-> <<>>,
          modifiers |-> "absent", behavior |-> NoBehavior]

\* setScaledObjectDefaults
SetDefaults(so, p) ==
  IF so.advanced = "noHPA" THEN Panicked
  ELSE [so EXCEPT !.owner = "pa", !.scaleTarget = "pa", !.advanced = "complete",
                  !.max = ScaleMax(p), !.hpaName = "pa"]

Overridden(p) == IF p.override = "bad" THEN Failed ELSE SetDefaults(p.user, p)

\* The early returns; all of them are errors.
Fails(p) ==
  \/ p.modifiers = "bad"
  \/ HasTarget(p) /\ TriggerFails(p)
  \/ p.extra = "bad"
  \/ Triggers(p) = <<>>
  \/ p.up = "bad" \/ p.down = "bad"

Generated(p) ==
  [SetDefaults(Empty, p) EXCEPT
     !.min = MinReplicaCount(p), !.triggers = Triggers(p), !.modifiers = p.modifiers,
     !.behavior = Behavior(p)]

DesiredScaledObject(p) ==
  IF p.override # "absent" THEN Overridden(p)
  ELSE IF Fails(p) THEN Failed ELSE Generated(p)

-------------------------------------------------------------------------------
(* The HPA *)

\* MakeHPA of helpers.go: the HPA that Knative's own HPA class makes of a PA.  No target,
\* no metric: it has no default for CPU.
MakeHPA(p) ==
  [min |-> ScaleMin(p), max |-> ScaleMax(p),
   metrics |-> IF p.target = Nil THEN <<>>
               ELSE <<[metric |-> p.metric,
                       type   |-> IF p.metric = "cpu" THEN "Utilization" ELSE "AverageValue",
                       value  |-> (IF p.metric = "cpu" THEN p.target + 9 ELSE p.target) \div 10]>>]

\* The metrics of the HPA that KEDA makes of a ScaledObject: one for each trigger, but one
\* composite metric for all that are no resource if there are scaling modifiers.
IsResourceMetric(m) == m.metric \in {"cpu", "memory"}
Composite == [metric |-> "composite", type |-> "AverageValue", value |-> 0]

KedaHPA(so) ==
  LET metrics == [i \in DOMAIN so.triggers |-> LET t == so.triggers[i] IN
                    [metric |-> IF t.type = "prometheus" THEN "custom" ELSE t.type,
                     type |-> t.metricType, value |-> t.value]]
  IN  [min |-> so.min, max |-> so.max,
       metrics |-> IF so.modifiers = "ok" THEN SelectSeq(metrics, IsResourceMetric) \o <<Composite>>
                   ELSE metrics]

\* Kubernetes and KEDA take a minimum that is not there, or 0, for 1: an HPA has a replica.
MinReplicas(hpa) == IF hpa.min > 0 THEN hpa.min ELSE 1

-------------------------------------------------------------------------------
Init == pa \in Inputs /\ result = Nothing /\ before = [pa |-> pa, result |-> Nothing]

Compute ==
  /\ result = Nothing
  /\ result' = DesiredScaledObject(pa)
  /\ UNCHANGED <<pa, before>>

\* An annotation, the reachability or the configuration changes.
Edit ==
  /\ result # Nothing
  /\ pa' \in Edits(pa) /\ pa' \in PAType
  /\ before' = [pa |-> pa, result |-> result]
  /\ result' = Nothing

Next == Compute \/ Edit
Spec == Init /\ [][Next]_vars

-------------------------------------------------------------------------------
\* KEDA's webhook refuses an object that could never be scaled up from zero: resources
\* are its only triggers and it has no minimum (verifyCPUMemoryScalers).
NeverScalesUp(so) ==
  /\ \A i \in DOMAIN so.triggers : so.triggers[i].type \in {"cpu", "memory"}
  /\ so.min \in {Nil, 0}

\* Whatever triggers users add to the default one, KEDA does not refuse the object for
\* its minimum, even if the revision is unreachable or its annotations and the
\* configuration say zero.
ResourceNeverAtZero ==
  IsObject(result) /\ pa.override = "absent" /\ HasTarget(pa) => ~ NeverScalesUp(result)

\* A trigger authenticates completely or not at all: a reference to a
\* TriggerAuthentication if and only if modes, and no kind without a reference.
AuthIsComplete(t) == t.ref = t.modes /\ (t.refKind => t.ref)

\* A trigger has a metric type that CONCEPTS-API.md:105-108 allows for its metric.
MetricTypeIsAllowed(t) ==
  t.metricType \in {"Utilization", "AverageValue"}
                      \cup (IF t.type = "prometheus" THEN {"Value"} ELSE {})

\* Whatever the eight annotations of it combine to, the trigger that the code makes for a
\* PA's metric is one that KEDA can act on.  What users write in JSON is theirs.
DefaultTriggerIsLegal ==
  IsObject(result) /\ pa.override = "absent" /\ HasTarget(pa) =>
    AuthIsComplete(result.triggers[1]) /\ MetricTypeIsAllowed(result.triggers[1])

\* Traffic leaving a revision, or coming back, moves the minimum and nothing else; it is
\* not higher while there is none.
TrafficOnlyMovesMin ==
  IsObject(before.result) /\ result # Nothing
    /\ before.pa = [pa EXCEPT !.reachable = ~ pa.reachable] =>
    /\ IsObject(result) /\ result = [before.result EXCEPT !.min = result.min]
    /\ IF pa.reachable THEN before.result.min <= result.min ELSE result.min <= before.result.min

\* Rules given for one direction, or taken away, leave the other one as it was, which the
\* window annotation may have set; and the window leaves a direction alone that has rules.
DirectionsAreApart ==
  IsObject(before.result) /\ IsObject(result) =>
    LET old == before.result.behavior new == result.behavior IN
    /\ before.pa = [pa EXCEPT !.up = before.pa.up] => new.down = old.down
    /\ before.pa = [pa EXCEPT !.down = before.pa.down] => new.up = old.up
    /\ before.pa = [pa EXCEPT !.window = before.pa.window] =>
         (pa.up = "ok" => new.up = old.up) /\ (pa.down = "ok" => new.down = old.down)

\* Nothing in the annotations asks for more than Knative's HPA class does.
AsksAsHPA(p) ==
  /\ p.override = "absent" /\ p.modifiers = "absent" /\ ExtraTriggers(p) = <<>>
  /\ p.metricType = "" /\ p.target # Nil

\* A PA with a target and nothing that the HPA class does not know is scaled as that class
\* scales it: KEDA's HPA has the bounds and the metric of MakeHPA's.
ScalesAsHPA ==
  IsObject(result) /\ AsksAsHPA(pa) =>
    LET made == KedaHPA(result) expected == MakeHPA(pa) IN
    /\ MinReplicas(made) = MinReplicas(expected)
    /\ made.max = expected.max /\ made.metrics = expected.metrics

-------------------------------------------------------------------------------
\* What the documentation says of the result, and the code does not do.

\* CONCEPTS-API.md:150: "The extension will ensure that the ScaledObject is created
\* with proper settings", so an override that parses gives an object.
OverrideSucceeds == result.kind # "panic"
===============================================================================
