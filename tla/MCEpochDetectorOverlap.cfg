\* Does the detector partition (checkpoint end, network end] as the spec says?
CONSTANTS
  EpochSpans = {2}
  StoreFails = TRUE
  MaxHeight = 8
  Threshold = 8
  MaxRegress = 0
  MaxRestarts = 0
  NoEpoch = NoEpoch

SPECIFICATION Spec

CHECK_DEADLOCK FALSE

INVARIANT
  NoBlockBroadcastTwice
