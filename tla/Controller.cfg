CONSTANTS
  Keys = {k1}
  Workers = {w1, w2}
  None = None
  MaxChanges = 3
CONSTANT ConfigMaps <- Contents
SPECIFICATION FairSpec
INVARIANT TypeOK
INVARIANT NoRunUnconfigured
INVARIANT NoLostWakeup
PROPERTY NeverBackToOlder
PROPERTY ImplementsKeyedWork
PROPERTY CatchesUp
CHECK_DEADLOCK FALSE
