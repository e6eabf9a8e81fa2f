--------------------------- MODULE ConditionManager ---------------------------
(***************************************************************************)
(* The life of one resource's conditions: an object, possibly stored by an *)
(* older release that knew fewer dependents, is read, initialised and then *)
(* marked by any number of reconciliations.  The actions are the calls the *)
(* generated reconciler and a KRShaped type's lifecycle file make; Ready   *)
(* is only ever marked Unknown, by PreProcessReconcile.                    *)
(***************************************************************************)
EXTENDS Conditions

VARIABLES
  conds,        \* condition type -> status
  initialized,  \* InitializeConditions ran on this copy
  bumped        \* history: Ready was reset for a new generation, and no
                \* dependent was marked since

vars == <<conds, initialized, bumped>>

\* Also: initialization leaves nothing unset.
TypeOK ==
  /\ conds \in [Types -> Statuses]
  /\ initialized \in BOOLEAN
  /\ bumped \in BOOLEAN
  /\ initialized => \A t \in Types : conds[t] # "Unset"

\* What a release that knew only the dependents in Known may have stored:
\* nothing at all, or conditions in which Ready summarises those.
StoredBy(Known, c) ==
  /\ \A d \in Dependents \ Known : c[d] = "Unset"
  /\ \A d \in Known : c[d] # "Unset"
  /\ IF Known = {}
     THEN c[Happy] = "Unset"
     ELSE c[Happy] = IF \E d \in Known : c[d] = "False" THEN "False"
                     ELSE IF \E d \in Known : c[d] = "Unknown" THEN "Unknown"
                     ELSE "True"

Init ==
  /\ conds \in [Types -> Statuses]
  /\ \E Known \in SUBSET Dependents : StoredBy(Known, conds)
  /\ initialized = FALSE
  /\ bumped = FALSE

\* PreProcessReconcile when the observed generation is current.
Start ==
  /\ conds' = InitializeConditions(conds)
  /\ initialized' = TRUE
  /\ UNCHANGED bumped

\* PreProcessReconcile when a new generation has not been observed yet.
StartNewGeneration ==
  /\ conds' = MarkUnknown(InitializeConditions(conds), Happy)
  /\ initialized' = TRUE
  /\ bumped' = TRUE

DependentTrue(d) ==
  /\ initialized
  /\ conds' = MarkTrue(conds, d)
  /\ bumped' = FALSE
  /\ UNCHANGED initialized

DependentFalse(d) ==
  /\ initialized
  /\ conds' = MarkFalse(conds, d)
  /\ bumped' = FALSE
  /\ UNCHANGED initialized

DependentUnknown(d) ==
  /\ initialized
  /\ conds' = MarkUnknown(conds, d)
  /\ bumped' = FALSE
  /\ UNCHANGED initialized

Next ==
  \/ Start
  \/ StartNewGeneration
  \/ \E d \in Dependents :
       DependentTrue(d) \/ DependentFalse(d) \/ DependentUnknown(d)

Spec == Init /\ [][Next]_vars

-------------------------------------------------------------------------------
\* Ready=True is never published over an unhappy dependent, whatever order the
\* lifecycle calls came in and whichever release stored the object.
ReadyMeansAllTrue ==
  initialized /\ conds[Happy] = "True" => \A d \in Dependents : conds[d] = "True"

\* A failure is visible at the top and only there as long as it lasts: Ready is
\* False exactly while some dependent is False, so neither MarkUnknown nor the
\* reset for a new generation can hide a failed dependent.
FailureIsVisible ==
  initialized => (conds[Happy] = "False" <=> SomeDependent(conds, "False"))

\* Ready=Unknown has a cause: an undecided dependent, or a new generation no
\* dependent has been marked for.  A set of happy dependents cannot stay stuck
\* below Ready=True after a mark.
UnknownHasCause ==
  initialized /\ conds[Happy] = "Unknown" => SomeDependent(conds, "Unknown") \/ bumped
===============================================================================
