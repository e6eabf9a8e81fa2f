CONSTANTS
  FastKeys = {k1, k2}
  SlowKeys = {k1, k2}
  Workers = {w1, w2}
  None = None
SPECIFICATION FairSpec
INVARIANT TypeOK
INVARIANT NothingLeftBehind
PROPERTY ImplementsKeyedWork
PROPERTY FastIsServed
PROPERTY SlowIsServed
PROPERTY ShutDownEnds
