CONSTANT Specs <- AnyPA
CONSTANT StartSpecs <- UserCreates
CONSTANT SOStarts <- NoneOrMisnamed
CONSTANT ForeignSKSs <- OtherSKSs
CONSTANT ForeignSOs <- Misnamed
CONSTANT SKSStarts <- Serving
CONSTANT MaxReplicas = 1
CONSTANT DefaultInitialScale = 1
CONSTANT AllowZeroInitialScale = TRUE
CONSTANT AutoCreateDefault = TRUE
CONSTANT MaxAttempts = 1
CONSTANT MaxLag = 1
CONSTANT MaxEvents = 2
CONSTANT Events = {"spec", "soDelete", "soForeign", "fault", "restart", "load", "sksUnready", "soEdit"}
SPECIFICATION FairSpec
PROPERTY Converges
PROPERTY ForeignIsReported
