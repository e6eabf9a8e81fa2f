CONSTANT Dependents <- PodDependents
SPECIFICATION Spec
INVARIANT TypeOK
INVARIANT ReadyMeansAllTrue
INVARIANT FailureIsVisible
INVARIANT UnknownHasCause
