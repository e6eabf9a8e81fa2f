--------------------------- MODULE MCKedaReconciler ---------------------------
\* Small instances of KedaReconciler.
EXTENDS KedaReconciler

PASpec(reachable, minScale, autoCreate) ==
  [reachable |-> reachable, minScale |-> minScale, initial |-> Unspecified,
   autoCreate |-> autoCreate, cpu |-> TRUE, valid |-> TRUE]

\* A revision with min-scale 2 that traffic is routed to, or not.
Single       == {PASpec(TRUE, 1, "absent")}
Reachable    == {PASpec(TRUE, 2, "absent")}
Unreachable  == {PASpec(FALSE, 2, "absent")}
Reachability == Reachable \cup Unreachable

\* Creation left to the user by annotation, then not, then with broken annotations.
UserCreates == {[PASpec(TRUE, 1, "false") EXCEPT !.initial = 0]}
TakenOver   == UserCreates \cup {PASpec(TRUE, 1, "bad")}
                 \cup {[PASpec(TRUE, 1, "true") EXCEPT !.valid = FALSE]}

AnyPA       == TakenOver \cup {PASpec(FALSE, 1, "absent")}

Foreign(min, routed) == [owner |-> "other", min |-> min, routed |-> routed]
Misnamed     == {Foreign(0, FALSE)}
ReadySKS   == [owner |-> "pa", mode |-> "Serve", phase |-> "ready"]
ForeignSKS == [owner |-> "other", mode |-> "Proxy", phase |-> "ready"]

Nothing == {NoObject}
Serving == {ReadySKS}
Proxying == {[ReadySKS EXCEPT !.mode = "Proxy"]}
UserSOs == {Foreign(1, TRUE)}
Outdated == {[owner |-> "pa", min |-> 0, routed |-> TRUE]}
NoneOrMisnamed == Nothing \cup Misnamed
OtherSKSs == {ForeignSKS}
===============================================================================
