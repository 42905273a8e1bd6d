---------------------------- MODULE MCTokenPrice ----------------------------
(***************************************************************************)
(* USDC and WETH are the white tokens, in that order.  T1 has no USDC pair *)
(* (get_pair returns the zero address); its WETH pair holds enough         *)
(* liquidity only from block 2, so its price is 0 at block 1 and comes by  *)
(* way of WETH at block 2.                                                  *)
(***************************************************************************)
EXTENDS TokenPrice

CONSTANTS USDC, T1

MCWhitelist == <<USDC, WETH>>

MCInitialPairs == {{WETH, T1}}

MCLiquidFrom == [p \in MCInitialPairs |-> 2]

\* WETH-T1 does not exist at first; the factory may create it in a later
\* block, and it is liquid as soon as it exists.
MCLateNewPairs == {{WETH, T1}}

MCLateLiquidFrom == [p \in MCLateNewPairs |-> 1]

=============================================================================
