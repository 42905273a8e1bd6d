\* Deaths, signals with a partly drained queue, Redis SET failures, an
\* authority that regresses once and a backlog beyond the threshold.
\* After a fatal exit with no restart left the process stays down.
CONSTANTS
  EpochSpans = {2}
  StoreFails = TRUE
  MaxHeight = 8
  Threshold = 4
  MaxRegress = 1
  MaxRestarts = 2
  NoEpoch = NoEpoch

SPECIFICATION Spec

CHECK_DEADLOCK FALSE

INVARIANTS
  NoFutureBroadcast

PROPERTIES
  CheckpointMonotone
