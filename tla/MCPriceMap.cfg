\* c1 asks for single prices, c2 builds price maps; two blocks, WETH-T1
\* present from the first block and liquid from the second.
CONSTANTS
  Callers = {c1, c2}
  MapCallers = {c2}
  WETH = WETH
  USDC = USDC
  T1 = T1
  Tokens = {WETH, T1}
  Whitelist <- MCWhitelist
  InitialPairs <- MCInitialPairs
  NewPairs = {}
  LiquidFrom <- MCLiquidFrom
  MaxHeight = 2
  Prune = 1
  Attempts = 2

SPECIFICATION MapSpec

\* Callers need not call again once done.
CHECK_DEADLOCK FALSE

INVARIANTS
  MapTypeOK
  CachedPriceCorrect
  PriceMapCorrect

PROPERTIES
  CallsTerminate
  MapTerminates
