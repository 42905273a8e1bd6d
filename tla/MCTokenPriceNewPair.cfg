\* WETH-T1 may be created in block 2, after get_pair cached its zero address.
CONSTANTS
  Callers = {c1}
  WETH = WETH
  USDC = USDC
  T1 = T1
  Tokens = {WETH, T1}
  Whitelist <- MCWhitelist
  MaxHeight = 2
  Prune = 1
  Attempts = 2
  InitialPairs = {}
  NewPairs <- MCLateNewPairs
  LiquidFrom <- MCLateLiquidFrom

SPECIFICATION Spec

CHECK_DEADLOCK FALSE

INVARIANTS
  CachedPriceCorrect
