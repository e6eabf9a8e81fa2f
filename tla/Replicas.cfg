CONSTANTS
  Replicas = {r1, r2}
  None = None
  MaxEdits = 2
  MaxLosses = 1
SPECIFICATION FairSpec
INVARIANT TypeOK
INVARIANT OneLateWrite
PROPERTY OnlyForItsOwner
PROPERTY Converges
CHECK_DEADLOCK FALSE
