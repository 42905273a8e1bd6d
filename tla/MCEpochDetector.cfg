\* No death, no signal, no regression, a threshold no backlog reaches,
\* epochs of one or two blocks in any order:
\* the detector on its own against an authority that runs ahead of it.
CONSTANTS
  EpochSpans = {1, 2}
  StoreFails = TRUE
  MaxHeight = 6
  Threshold = 6
  MaxRegress = 0
  MaxRestarts = 0
  NoEpoch = NoEpoch

SPECIFICATION Spec

\* A fatal exit stops the detector for good (spec 4.1); CatchesUp is what
\* says it never gets there here.
CHECK_DEADLOCK FALSE

INVARIANTS
  TypeOK
  ChunksPartition
  NoGap

PROPERTIES
  CatchesUp
  FeedRefined
