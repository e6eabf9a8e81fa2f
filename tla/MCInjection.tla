----------------------------- MODULE MCInjection -----------------------------
\* The autoscaler's own packages, and programs that link informers and fakes of all kinds.
EXTENDS Injection

RECURSIVE Closure(_)
Closure(packages) ==
  LET more == packages \cup UNION {Imports(p) : p \in packages} IN
  IF more = packages THEN packages ELSE Closure(more)

Linked ==
  { Closure({ScaledObjects}),
    Closure({ScaledObjects, ScaledJobs, FilteredScaledObjects, FilteredScaledJobs}),
    Closure({TriggerAuthentications, FilteredClusterTriggerAuthentications,
             ClusterTriggerAuthentications, FilteredTriggerAuthentications}),
    Closure({FakeScaledObjects, FakeScaledJobs}),
    Closure({FakeFilteredScaledObjects, FakeScaledJobs}),
    Closure({FakeFilteredFactory, FakeFilteredScaledObjects, FakeFilteredScaledJobs}),
    Closure({FakeTriggerAuthentications, FakeClusterTriggerAuthentications}),
    Closure({FakeFilteredFactory, FakeFilteredTriggerAuthentications,
             FakeFilteredClusterTriggerAuthentications}) }

Lists == {None, <<>>, <<"a">>, <<"a", "b">>, <<"b", "b">>}
===============================================================================
