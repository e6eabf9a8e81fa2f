------------------------------ MODULE Conditions ------------------------------
(***************************************************************************)
(* The condition sets of knative.dev/pkg/apis: a resource has one "happy"  *)
(* condition (Ready) that summarises a set of dependent conditions.  A     *)
(* reconciler never writes Ready itself; it marks dependents, and the      *)
(* manager keeps Ready in step.                                            *)
(*                                                                         *)
(* A value conds is a function from condition type to status.  Messages,   *)
(* severities and transition times are left out: severity is Error for     *)
(* every type of the set, and the times only choose which of several       *)
(* unhappy dependents lends Ready its message.                             *)
(***************************************************************************)
CONSTANT Dependents     \* the dependent condition types of the set

Happy == "Ready"        \* the happy condition of a living condition set

ASSUME DependentsAssumption == Dependents # {} /\ Happy \notin Dependents

Types    == Dependents \cup {Happy}
Statuses == {"True", "False", "Unknown", "Unset"}

AllUnset == [t \in Types |-> "Unset"]

SomeDependent(conds, s) == \E d \in Dependents : conds[d] = s

\* Mutant of Summary: only failures make a resource unhappy.
FailuresOnly(conds) == IF SomeDependent(conds, "False") THEN "False" ELSE "True"

\* What the dependents alone say: False trumps Unknown, and a dependent that
\* was never set counts as Unknown (findUnhappyDependent).
Summary(conds) ==
  IF SomeDependent(conds, "False") THEN "False"
  ELSE IF SomeDependent(conds, "Unknown") \/ SomeDependent(conds, "Unset")
       THEN "Unknown"
       ELSE "True"

\* Mutant of RecomputeHappiness: only unhappiness is copied.
CopyUnhappiness(conds, t) ==
  IF Summary(conds) # "True" THEN [conds EXCEPT ![Happy] = Summary(conds)] ELSE conds

\* recomputeHappiness: an unhappy dependent is always copied to Ready; a happy
\* summary is copied unless the condition being marked is Ready itself.
RecomputeHappiness(conds, t) ==
  IF Summary(conds) # "True" \/ t # Happy
  THEN [conds EXCEPT ![Happy] = Summary(conds)]
  ELSE conds

MarkTrue(conds, t) ==
  RecomputeHappiness([conds EXCEPT ![t] = "True"], t)

MarkFalse(conds, t) ==
  IF t \in Dependents
  THEN [conds EXCEPT ![t] = "False", ![Happy] = "False"]
  ELSE [conds EXCEPT ![t] = "False"]

\* Mutant of MarkUnknown: without the look at failed dependents.
MarkUnknownAlways(conds, t) ==
  IF t \in Dependents
  THEN [conds EXCEPT ![t] = "Unknown", ![Happy] = "Unknown"]
  ELSE [conds EXCEPT ![t] = "Unknown"]

\* MarkUnknown leaves Ready at False while any dependent is False, and only a
\* dependent drags Ready down to Unknown.
MarkUnknown(conds, t) ==
  LET set == [conds EXCEPT ![t] = "Unknown"] IN
  IF SomeDependent(set, "False")
  THEN MarkFalse(set, Happy)
  ELSE IF t \in Dependents
       THEN [set EXCEPT ![Happy] = "Unknown"]
       ELSE set

\* Mutant of InitializeConditions: a resource with conditions is left alone.
InitializeOnce(conds) ==
  IF conds[Happy] # "Unset" THEN conds
  ELSE [t \in Types |-> IF conds[t] = "Unset" THEN "Unknown" ELSE conds[t]]

\* InitializeConditions: set what is unset.  A stored Ready=True vouches for
\* dependents the stored object does not know yet.
InitializeConditions(conds) ==
  LET happy  == IF conds[Happy] = "Unset" THEN "Unknown" ELSE conds[Happy]
      status == IF happy = "True" THEN "True" ELSE "Unknown"
  IN  [t \in Types |-> IF t = Happy THEN happy
                       ELSE IF conds[t] = "Unset" THEN status
                       ELSE conds[t]]
===============================================================================
