----------------------------- MODULE MCPriceMap -----------------------------
(***************************************************************************)
(* The token-price caches of MCTokenPrice, with one caller asking for      *)
(* single prices and one building an epoch price map.                     *)
(***************************************************************************)
EXTENDS PriceMap, MCTokenPrice

=============================================================================
