--------------------------- MODULE MCTradeVolume ---------------------------
(***************************************************************************)
(* Every epoch of up to MaxLogs logs, over two transactions and amounts of *)
(* up to one dollar per token, is a state; the aggregation is evaluated on *)
(* each.                                                                   *)
(***************************************************************************)
EXTENDS TradeVolume

CONSTANT MaxLogs

TxIds == {"0xa1", "0xb2"}

Amounts == 0..2   \* half-dollars

VARIABLE logs

Init == logs \in BoundedSeq(Log(TxIds, Amounts), MaxLogs)

\* The aggregation is a pure function of the logs.
Next == UNCHANGED logs

(***************************************************************************)
(* The code's comments: a Burn is cancelled only against the Mints of its  *)
(* own transaction.  The epoch's Trades total equals the per-transaction   *)
(* reference on every epoch.                                               *)
(***************************************************************************)
BurnCancelsOwnTxMints == EpochTrades(logs) = TxScopedTrades(logs)

=============================================================================
