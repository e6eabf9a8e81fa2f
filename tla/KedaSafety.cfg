CONSTANT Specs <- Reachability
CONSTANT StartSpecs <- Reachable
CONSTANT SOStarts <- Nothing
CONSTANT ForeignSKSs <- OtherSKSs
CONSTANT ForeignSOs <- UserSOs
CONSTANT SKSStarts <- Serving
CONSTANT MaxReplicas = 2
CONSTANT DefaultInitialScale = 1
CONSTANT AllowZeroInitialScale = FALSE
CONSTANT AutoCreateDefault = TRUE
CONSTANT MaxAttempts = 2
CONSTANT MaxLag = 1
CONSTANT MaxEvents = 1
CONSTANT Events = {"spec", "soEdit", "load", "fault", "restart", "sksUnready"}
SPECIFICATION Spec
INVARIANT TypeOK
INVARIANT ReadyIsServed
INVARIANT InitializedIsEarned
INVARIANT EveryWriteChanges
INVARIANT RestIsDone
PROPERTY ObservedMonotone
