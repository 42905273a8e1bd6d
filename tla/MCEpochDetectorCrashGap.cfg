\* One process death or signal, then a restart from the Redis checkpoint.
\* Every Redis SET succeeds, so the checkpoint is never missing or stale.
CONSTANTS
  EpochSpans = {2}
  StoreFails = FALSE
  MaxHeight = 8
  Threshold = 8
  MaxRegress = 0
  MaxRestarts = 1
  NoEpoch = NoEpoch

SPECIFICATION Spec

CHECK_DEADLOCK FALSE

INVARIANT
  NoGap
