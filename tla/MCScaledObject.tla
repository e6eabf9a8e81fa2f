---------------------------- MODULE MCScaledObject ----------------------------
\* DesiredScaledObject over the inputs that take every branch of it.
EXTENDS ScaledObject

Trigger(type, metricType, modes) ==
  [type |-> type, metricType |-> metricType, value |-> 0, address |-> "unset",
   ref |-> FALSE, refKind |-> FALSE, modes |-> modes]

\* None, one of each type, one that no check would pass, and two.
ExtraLists ==
  { <<>>, <<Trigger("cpu", "", FALSE)>>, <<Trigger("prometheus", "bad", TRUE)>>,
    <<Trigger("memory", "Value", FALSE), Trigger("other", "", FALSE)>> }

\* An object of the user's, as far as setScaledObjectDefaults looks at it and beyond.
UserObjects ==
  { [Empty EXCEPT !.owner = "user", !.hpaName = IF adv = "complete" THEN "user" ELSE "none",
                  !.advanced = adv, !.min = min, !.max = 1, !.triggers = ts] :
      adv \in {"nil", "noHPA", "complete"}, min \in {Nil, 5}, ts \in ExtraLists }

\* A PA with a custom metric, a target of 5 and a query.
Plain == [reachable |-> TRUE, min |-> Nil, max |-> Nil, cfgMin |-> 0, cfgMax |-> 0,
          override |-> "absent", user |-> Empty, modifiers |-> "absent", metric |-> "custom", target |-> 50,
          metricType |-> "", query |-> "ok", address |-> "unset", authName |-> "absent",
          authKind |-> "absent", authModes |-> "absent", extra |-> "absent", extraTriggers |-> <<>>,
          window |-> Nil, up |-> "absent", down |-> "absent"]

Bounds == {b \in {Nil, 0, 2} \X {Nil, 0, 2} : Ordered(b[1], b[2])}
CfgBounds == {b \in {0, 1, 3} \X {0, 3} : Ordered(b[1], b[2])}

BoundInputs ==
  { [Plain EXCEPT !.reachable = r, !.min = b[1], !.max = b[2], !.cfgMin = c[1], !.cfgMax = c[2],
                  !.metric = m, !.target = t, !.extra = "ok", !.extraTriggers = e] :
      r \in BOOLEAN, b \in Bounds, c \in CfgBounds,
      m \in {"cpu", "memory", "custom"}, t \in {Nil, 50}, e \in ExtraLists }

OverrideInputs ==
  { [Plain EXCEPT !.max = max, !.override = o, !.user = u, !.window = w, !.up = up] :
      max \in {Nil, 2}, o \in {"bad", "ok"}, u \in UserObjects, w \in {Nil, 30}, up \in JSON }

\* Targets of 0.5 and 1.5 round differently for CPU.
TriggerInputs ==
  { [Plain EXCEPT !.metric = m, !.target = t, !.metricType = mt, !.query = q, !.address = a,
                  !.authName = n, !.authKind = k, !.authModes = am, !.extra = "ok", !.extraTriggers = e] :
      m \in {"cpu", "memory", "custom"}, t \in {Nil, 5, 15},
      mt \in {"", "AverageValue", "Utilization", "Value", "bad"}, q \in JSON,
      a \in Addresses, n \in {"absent", "ok"}, k \in JSON,
      am \in {"absent", "ok"}, e \in {<<>>, <<Trigger("prometheus", "bad", TRUE)>>} }

BehaviorInputs ==
  { [Plain EXCEPT !.window = w, !.up = u, !.down = d, !.modifiers = mod, !.metric = m,
                  !.extra = x, !.extraTriggers = e] :
      w \in {Nil, 30}, u \in JSON, d \in JSON, mod \in JSON, m \in {"cpu", "custom"},
      x \in JSON, e \in ExtraLists }

AllInputs == BoundInputs \cup OverrideInputs \cup TriggerInputs \cup BehaviorInputs

\* Traffic comes or goes, or, where they are the subject, an annotation for the HPA's
\* behavior changes.
OneEdit(p) ==
  {[p EXCEPT !.reachable = ~ p.reachable]}
    \cup (({[p EXCEPT !.up = u] : u \in JSON} \cup {[p EXCEPT !.down = d] : d \in JSON}
            \cup {[p EXCEPT !.window = w] : w \in {Nil, 30}}) \cap (BehaviorInputs \cup OverrideInputs))
===============================================================================
