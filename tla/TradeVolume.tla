---------------------------- MODULE TradeVolume ----------------------------
(***************************************************************************)
(* The trade-volume aggregation of get_pair_contract_trades_async in       *)
(* src/uniswap_functions.py: the epoch's Swap, Mint and Burn logs of a     *)
(* pair are grouped by transaction hash; within a transaction they are     *)
(* taken Swap, Mint, Burn (sorted by event name, reversed) and their USD   *)
(* values added, except that a Burn is subtracted when "enough Mint amount *)
(* exists"; the absolute value of each transaction's total is added to the *)
(* epoch's Trades.                                                         *)
(*                                                                         *)
(* Only totalTradesUSD is kept.  trade_data comes from data_models, which  *)
(* is not in the repository; its +=, -= and abs are taken as field-wise.   *)
(* Amounts are whole half-dollars, so that math.ceil has an effect.        *)
(***************************************************************************)
EXTENDS Integers, Sequences, SequencesExt

Events == {"Swap", "Mint", "Burn"}

\* A log as extract_trade_volume_log sees it: the USD amounts of its two
\* tokens (already priced from the epoch's price maps).
Log(Txs, Amounts) ==
  [tx : Txs, event : Events, usd0 : Amounts, usd1 : Amounts]

Abs(x) == IF x < 0 THEN -x ELSE x

\* math.ceil of an amount counted in half-dollars, in half-dollars.
Ceil(v) == v + (v % 2)

(***************************************************************************)
(* extract_trade_volume_log's totalTradesUSD: for a Swap the larger of the *)
(* two sides (the non-zero one when only one is set), for Mint and Burn    *)
(* their sum.                                                              *)
(***************************************************************************)
TradeUSD(l) ==
  IF l.event = "Swap"
    THEN IF l.usd1 > l.usd0 THEN l.usd1 ELSE l.usd0
    ELSE l.usd0 + l.usd1

\* grouped_by_tx: the hashes in order of first appearance (dict order).
TxOrder(logs) ==
  FoldLeft(LAMBDA seen, l : IF l.tx \in ToSet(seen) THEN seen ELSE Append(seen, l.tx),
           <<>>, logs)

\* A transaction's logs after sorted(key=event, reverse=True), a stable sort.
TxLogs(logs, t) ==
  LET mine == SelectSeq(logs, LAMBDA l : l.tx = t)
      of(e) == SelectSeq(mine, LAMBDA l : l.event = e)
  IN of("Swap") \o of("Mint") \o of("Burn")

(***************************************************************************)
(* One log of the inner loop.  acc.mint is epoch_results.Mint.trades       *)
(* .totalTradesUSD, the Mint total of the whole epoch so far; acc.tx is    *)
(* tx_hash_trades.totalTradesUSD.                                          *)
(***************************************************************************)
AddLog(acc, l) ==
  LET v == TradeUSD(l) IN
  CASE l.event = "Swap" -> [acc EXCEPT !.tx = @ + v]
    [] l.event = "Mint" -> [mint |-> acc.mint + v, tx |-> acc.tx + v]
    [] l.event = "Burn" -> [acc EXCEPT !.tx = IF acc.mint >= Ceil(v) THEN @ - v ELSE @ + v]

\* One transaction of the outer loop: epoch_results.Trades += abs(tx_hash_trades).
AddTx(logs, acc, t) ==
  LET r == FoldLeft(AddLog, [mint |-> acc.mint, tx |-> 0], TxLogs(logs, t))
  IN [mint |-> r.mint, trades |-> acc.trades + Abs(r.tx)]

\* epoch_results.Trades.totalTradesUSD of the epoch's logs.
EpochTrades(logs) ==
  LET step(acc, t) == AddTx(logs, acc, t)
  IN FoldLeft(step, [mint |-> 0, trades |-> 0], TxOrder(logs)).trades

-----------------------------------------------------------------------------
(***************************************************************************)
(* Reference, from the code's comments ("cancel out burn with mint",       *)
(* "Mint in identical txHash", "substract Burn events ... in a identical  *)
(* txHash"): a Burn cancels against the Mints of its own transaction.     *)
(* Each transaction contributes |swaps + mints +/- burns|, a Burn counted  *)
(* negative when the transaction's Mints cover it.                         *)
(***************************************************************************)
SumOf(s) == FoldLeft(LAMBDA a, b : a + b, 0, s)

TxScopedValue(logs, t) ==
  LET mine == SelectSeq(logs, LAMBDA l : l.tx = t)
      usd(e) == [i \in 1..Len(SelectSeq(mine, LAMBDA l : l.event = e)) |->
                   TradeUSD(SelectSeq(mine, LAMBDA l : l.event = e)[i])]
      minted == SumOf(usd("Mint"))
      burnSign(b) == IF minted >= Ceil(b) THEN -b ELSE b
  IN SumOf(usd("Swap")) + minted + SumOf([i \in DOMAIN usd("Burn") |-> burnSign(usd("Burn")[i])])

TxScopedTrades(logs) ==
  SumOf([i \in DOMAIN TxOrder(logs) |-> Abs(TxScopedValue(logs, TxOrder(logs)[i]))])

=============================================================================
