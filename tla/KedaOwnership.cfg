CONSTANT Specs <- Single
CONSTANT StartSpecs <- Single
CONSTANT SOStarts <- Outdated
CONSTANT ForeignSKSs <- OtherSKSs
CONSTANT ForeignSOs <- UserSOs
CONSTANT SKSStarts <- Proxying
CONSTANT MaxReplicas = 1
CONSTANT DefaultInitialScale = 1
CONSTANT AllowZeroInitialScale = FALSE
CONSTANT AutoCreateDefault = TRUE
CONSTANT MaxAttempts = 1
CONSTANT MaxLag = 1
CONSTANT MaxEvents = 2
CONSTANT Events = {"soDelete", "soForeign", "sksDelete", "sksForeign"}
SPECIFICATION Spec
PROPERTY ForeignSOUntouched
PROPERTY ForeignSKSUntouched
INVARIANT NotOwnedIsTrue
