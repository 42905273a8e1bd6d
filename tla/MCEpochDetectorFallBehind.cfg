\* A fall-behind threshold of one epoch: the authority may run ahead of it.
CONSTANTS
  EpochSpans = {2}
  StoreFails = TRUE
  MaxHeight = 8
  Threshold = 2
  MaxRegress = 0
  MaxRestarts = 0
  NoEpoch = NoEpoch

SPECIFICATION Spec

CHECK_DEADLOCK FALSE

PROPERTY
  CatchesUp
