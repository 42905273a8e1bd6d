------------------------------- MODULE PriceMap -------------------------------
(***************************************************************************)
(* get_trade_volume_epoch_price_map of src/uniswap_functions.py, composed  *)
(* with the get_token_price_at_block_height callers of TokenPrice.        *)
(*                                                                         *)
(* A price-map caller (one of the two gathered by                          *)
(* get_pair_contract_trades_async, one per token of the pair) walks the    *)
(* epoch's blocks from_block..to_block.  For each block it reads the       *)
(* token's price zset at that score; on a hit the first member's price is  *)
(* taken.  On a miss it calls get_token_price_at_block_height (the         *)
(* TokenPrice machine of the same caller, with its own tenacity retry)     *)
(* inside AsyncRetrying(stop_after_attempt(3), reraise=True).  A call that *)
(* returns gives a price it read from the zset at that block or one it has *)
(* just ZADDed there (the zset is never pruned), so the price collected is *)
(* taken from the zset's members at that score.  The                       *)
(* attempt's "if price: break" changes nothing: a block returning without  *)
(* an exception ends the retry loop, a zero price included.  The cache     *)
(* read is outside the try, so a Redis error there leaves the function at  *)
(* once.                                                                   *)
(***************************************************************************)
EXTENDS TokenPrice

CONSTANT MapCallers   \* callers that run get_trade_volume_epoch_price_map

ASSUME MapCallers \subseteq Callers

\* stop_after_attempt(3) of the AsyncRetrying around each block's price.
MapAttempts == 3

None == "none"

VARIABLES
  mpc,    \* mpc[c]: "idle", "loop", "wait" (in get_token_price), "done", "raised"
  mtok,   \* mtok[c]: token_metadata of the map
  lo,     \* lo[c]: from_block
  hi,     \* hi[c]: to_block
  blk,    \* blk[c]: the block of the for loop
  oatt,   \* oatt[c]: the AsyncRetrying attempt for blk[c]
  pmap    \* pmap[c][h]: price_map[h], None when not set

mapVars == <<mpc, mtok, lo, hi, blk, oatt, pmap>>

allVars == <<vars, mapVars>>

MapInit ==
  /\ Init
  /\ mpc = [c \in MapCallers |-> "idle"]
  /\ mtok = [c \in MapCallers |-> WETH]
  /\ lo = [c \in MapCallers |-> 1]
  /\ hi = [c \in MapCallers |-> 1]
  /\ blk = [c \in MapCallers |-> 1]
  /\ oatt = [c \in MapCallers |-> 1]
  /\ pmap = [c \in MapCallers |-> [h \in Heights |-> None]]

\* get_token_price_at_block_height(token_metadata, h) is awaited.
Invoke(c, h) ==
  /\ pc' = [pc EXCEPT ![c] = "read"]
  /\ tok' = [tok EXCEPT ![c] = mtok[c]]
  /\ ht' = [ht EXCEPT ![c] = h]
  /\ att' = [att EXCEPT ![c] = 1]
  /\ UNCHANGED <<chainVars, cacheVars, w, via>>

\* The map is called for a token over blocks that exist.
MapStart(c) ==
  /\ mpc[c] \in {"idle", "done", "raised"}
  /\ \E t \in Tokens, f \in 1..now, e \in 1..now :
       /\ f <= e
       /\ mtok' = [mtok EXCEPT ![c] = t]
       /\ lo' = [lo EXCEPT ![c] = f]
       /\ hi' = [hi EXCEPT ![c] = e]
       /\ blk' = [blk EXCEPT ![c] = f]
  /\ mpc' = [mpc EXCEPT ![c] = "loop"]
  /\ pmap' = [pmap EXCEPT ![c] = [h \in Heights |-> None]]
  /\ UNCHANGED <<vars, oatt>>

\* The map raises; its locals (the partial price_map among them) are gone.
Raise(c) ==
  /\ mpc' = [mpc EXCEPT ![c] = "raised"]
  /\ mtok' = [mtok EXCEPT ![c] = WETH]
  /\ lo' = [lo EXCEPT ![c] = 1]
  /\ hi' = [hi EXCEPT ![c] = 1]
  /\ blk' = [blk EXCEPT ![c] = 1]
  /\ oatt' = [oatt EXCEPT ![c] = 1]
  /\ pmap' = [pmap EXCEPT ![c] = [h \in Heights |-> None]]

\* Mutant: the loop stops one block before to_block.
NextBlockEarly(c) ==
  IF blk[c] + 1 >= hi[c]
    THEN mpc' = [mpc EXCEPT ![c] = "done"] /\ UNCHANGED blk
    ELSE blk' = [blk EXCEPT ![c] = @ + 1] /\ mpc' = [mpc EXCEPT ![c] = "loop"]

\* The for loop goes on with the next block, or returns price_map.
NextBlock(c) ==
  IF blk[c] = hi[c]
    THEN mpc' = [mpc EXCEPT ![c] = "done"] /\ UNCHANGED blk
    ELSE blk' = [blk EXCEPT ![c] = @ + 1] /\ mpc' = [mpc EXCEPT ![c] = "loop"]

(***************************************************************************)
(* ZRANGEBYSCORE at the block: a hit sets price_map[block] to the first    *)
(* member's price and continues; a miss awaits get_token_price.            *)
(***************************************************************************)
MapRead(c) ==
  LET cached == pxCache[mtok[c]][blk[c]] IN
  /\ mpc[c] = "loop"
  /\ \/ /\ cached # {}
        /\ \E v \in cached : pmap' = [pmap EXCEPT ![c][blk[c]] = v]
        /\ NextBlock(c)
        /\ UNCHANGED <<vars, mtok, lo, hi, oatt>>
     \/ /\ cached = {}
        /\ Invoke(c, blk[c])
        /\ mpc' = [mpc EXCEPT ![c] = "wait"]
        /\ oatt' = [oatt EXCEPT ![c] = 1]
        /\ UNCHANGED <<mtok, lo, hi, blk, pmap>>

\* A Redis error on the cache read, outside the try: the map raises.
MapReadFail(c) ==
  /\ mpc[c] = "loop"
  /\ Raise(c)
  /\ UNCHANGED vars

\* get_token_price returned: price_map[block] = price, and the attempt
\* succeeds whether or not the price is zero.
MapCollect(c) ==
  /\ mpc[c] = "wait"
  /\ pc[c] = "done"
  /\ \E v \in pxCache[mtok[c]][blk[c]] : pmap' = [pmap EXCEPT ![c][blk[c]] = v]
  /\ NextBlock(c)
  /\ UNCHANGED <<vars, mtok, lo, hi, oatt>>

\* Mutant: the AsyncRetrying attempt number is never advanced.
MapRetryForever(c) ==
  /\ mpc[c] = "wait"
  /\ pc[c] = "raised"
  /\ Invoke(c, blk[c])
  /\ UNCHANGED <<mapVars>>

(***************************************************************************)
(* get_token_price re-raised after its own retries: AsyncRetrying calls it *)
(* again for the same block, or after three attempts re-raises, and the    *)
(* except clause logs and raises it out of the map.                        *)
(***************************************************************************)
MapRetry(c) ==
  /\ mpc[c] = "wait"
  /\ pc[c] = "raised"
  /\ IF oatt[c] < MapAttempts
       THEN /\ Invoke(c, blk[c])
            /\ oatt' = [oatt EXCEPT ![c] = @ + 1]
            /\ UNCHANGED <<mpc, mtok, lo, hi, blk, pmap>>
       ELSE Raise(c) /\ UNCHANGED vars

MapStep(c) == MapRead(c) \/ MapCollect(c) \/ MapRetry(c)

MapNext ==
  \/ Advance /\ UNCHANGED mapVars
  \/ \E c \in Callers \ MapCallers : Start(c) /\ UNCHANGED mapVars
  \/ \E c \in Callers : (Step(c) \/ Fail(c)) /\ UNCHANGED mapVars
  \/ \E c \in MapCallers : MapStart(c) \/ MapStep(c) \/ MapReadFail(c)

\* Running coroutines keep being scheduled; failures are not forced.
MapSpec ==
  /\ MapInit /\ [][MapNext]_allVars
  /\ \A c \in Callers : WF_allVars(Step(c) /\ UNCHANGED mapVars)
  /\ \A c \in MapCallers : WF_allVars(MapStep(c))

-----------------------------------------------------------------------------
MapTypeOK ==
  /\ TypeOK
  /\ mpc \in [MapCallers -> {"idle", "loop", "wait", "done", "raised"}]
  /\ oatt \in [MapCallers -> 1..MapAttempts]
  /\ pmap \in [MapCallers -> [Heights -> Price \cup {None}]]

(***************************************************************************)
(* Every price a map holds is the chain's price of its token at that       *)
(* block, and a returned map has one for every block of from..to: cache    *)
(* hits read while other callers fill the zset, prices returned by         *)
(* get_token_price after its retries, and retried attempts never leave a   *)
(* block out or put another block's price in.                              *)
(***************************************************************************)
PriceMapCorrect ==
  \A c \in MapCallers :
    /\ \A h \in Heights : pmap[c][h] \in {None, TruePrice(mtok[c], h)}
    /\ mpc[c] = "done" => \A h \in lo[c]..hi[c] : pmap[c][h] # None

(***************************************************************************)
(* A price map returns or raises however the RPCs fail: the three          *)
(* AsyncRetrying attempts around get_token_price's own RETRIAL_ATTEMPTS    *)
(* retries are bounded, and no block's attempt waits for ever.             *)
(***************************************************************************)
MapTerminates ==
  \A c \in MapCallers : mpc[c] \in {"loop", "wait"} ~> mpc[c] \in {"done", "raised"}

=============================================================================
