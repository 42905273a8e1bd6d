\* Epochs of up to three logs.
CONSTANT MaxLogs = 3

INIT Init
NEXT Next

INVARIANT BurnCancelsOwnTxMints
