CONSTANT Specs <- Reachability
CONSTANT StartSpecs <- Reachable
CONSTANT SOStarts <- Nothing
CONSTANT ForeignSKSs <- OtherSKSs
CONSTANT ForeignSOs <- UserSOs
CONSTANT SKSStarts <- Serving
CONSTANT MaxReplicas = 2
CONSTANT DefaultInitialScale = 1
CONSTANT AllowZeroInitialScale = FALSE
CONSTANT AutoCreateDefault = TRUE
CONSTANT MaxAttempts = 2
CONSTANT MaxLag = 1
CONSTANT MaxEvents = 0
CONSTANT Events = {}
SPECIFICATION Spec
PROPERTY InitializedIsSticky
