# TLA+ models of pooler-nectarFinance

This directory holds TLA+ specifications of the concurrent parts of the pooler
and the TLC configurations that check them. Every action is written from the
Python source; PROJECT.json maps each definition to the lines it models.

## The system and how its parts interact

```
 epoch authority --HTTP poll--> Epoch Detector --queue.Queue--> publisher thread --> broker
                                     |  SET lastProcessedEpoch (Redis)
 broker (EpochReleased, SnapshotFinalized) --> Processor Distributor x N (manual ack)
      |-- EpochReleased     -> SnapshotProcessMessage per contract (fan-out)
      |-- SnapshotFinalized -> PayloadCommit topic, then every aggregator config:
      |        single_project -> CalculateAggregate message
      |        multi_project  -> ZADD / ZRANGEBYSCORE / ZREMRANGEBYSCORE join in Redis
 snapshot workers --RPC--> check_rpc_rate_limit (fixed-window counters in Redis)
                 \--> get_token_price_at_block_height (price, pair and metadata caches in Redis)
```

| Part | Source | Module(s) | Status |
|---|---|---|---|
| Epoch Detector | `src/system_epoch_detector.py` | `EpochDetector`, `EpochChunks`, `EpochFeed` (abstract), `MCEpochDetector` | modelled |
| Epoch authority | external HTTP endpoint | environment actions of `EpochDetector` | partly |
| Processor Distributor | `src/pooler/processor_distributor.py` | `ProcessorDistributor`, `MCProcessorDistributor` | modelled |
| RPC rate limiter | `src/uniswap_functions.py` lines 50-252 | `RateLimiter`, `MCRateLimiter` | modelled |
| Token pricing and trade volume | `src/uniswap_functions.py` lines 381-828, 938-1237, 1290-1325 | `TokenPrice`, `MCTokenPrice`, `PriceMap`, `MCPriceMap`, `TradeVolume`, `MCTradeVolume` | partly (liquidity not modelled) |
| Message models, Redis key names | `src/message_models.py`, `src/pooler/utils/redis/redis_keys.py` | record shapes only | data, no behaviour |

## The modules

### EpochChunks

`Chunks(s, t, n)` is `chunks()` (lines 24-41), written as a RECURSIVE operator.
`IsPartition` is the reference the spec gives: for s <= t, consecutive
ranges of n blocks, the last one cut at t. `MCEpochDetector` checks
`ChunksPartition`, a constant-level invariant, over every call with start in
1..12, stop in 0..12 and n in 1..5.

### EpochDetector

State:

| Variable | Code |
|---|---|
| `net` | the authority's current epoch |
| `mem` | `_last_processed_epoch` |
| `store` | the Redis key `SystemEpochDetector:lastProcessedEpoch` |
| `todo` | the chunks left in the running `for` loop |
| `pubq` | `_rabbitmq_queue` |
| `broker` | what the publisher thread has published |
| `status` | running; hung in the join after a fatal exit; or down |

Actions:

- `Poll` is one iteration of the `while` loop in `run()`. It reloads from Redis when `mem` is empty, then takes one of four branches:
  - `PollFirstEpoch`
  - `PollNoNewEpoch`
  - `PollFatal`: fall-behind or regression. The code raises `GenericExitOnSignal` without stopping the thread, so the wrapper's `join` never returns.
  - `PollNewBlocks`
- `BroadcastChunk` is one turn of the chunk loop. It calls `Broadcast` (`_broadcast_epoch`): queue put, then the in-memory update, then a Redis SET. The constant `StoreFails` says whether the SET (and the exit SET of `SaveOnExit`) may fail; a failure is logged and passed over, as in the code.
- `Publish` is the publisher thread.
- `Signal` is the signal handler. It publishes a prefix of the queue, then runs `SaveOnExit` (the cleanup wrapper).
- `Crash` and `Restart` cover process death and a new process that starts with an empty memory.
- `AuthorityAdvance`, `AuthorityRegress` and `AuthorityMalformed` are the environment. Each report's epoch size is drawn from the constant set `EpochSpans`, because the code recomputes `epoch_height` from every report and assumes no fixed size. `AuthorityMalformed` is an epoch with its begin past its end, which `EpochInfo` accepts. `PollNewBlocks` then either cuts no chunk (negative `epoch_height`) or ends the main loop with a ValueError (zero `epoch_height`). In that second case the non-daemon interactor thread keeps the process up, as in "hung".

### EpochFeed: the refinement

`EpochFeed` is what the epoch-broadcast topic promises, written without polling, chunks or queues. It has two variables:
- `height`: the highest reported block;
- `feed`: the published ranges.

`Emit` appends a range that starts one block past the last one (spec 4.1 step 6 partitions the new range into consecutive chunks) and ends within `height`. `Grow` raises `height`. `WF(Emit)` says the feed keeps up.

The broker itself does not implement this feed: `chunks()` starts at the last processed end, so every chunk loop re-sends one block, and with one-block epochs its first chunk is the whole last range again. That is the `detector_overlap` finding. The refinement mapping therefore gives the feed as a consumer that drops re-sent blocks sees it: `NewRanges(broker)` trims each broadcast to the blocks no earlier one reached, and drops a broadcast that brings none. A hole is kept as it is, so a gap still breaks `Emit`. `EpochDetector` instantiates `Feed == INSTANCE EpochFeed WITH height <- maxNet, feed <- NewRanges(broker)`, and `FeedRefined == Feed!Spec` is checked as a PROPERTY in the `detector` run, with epochs of one and two blocks in any order:
- a `Publish` that brings new blocks is an `Emit`;
- a `Publish` that only re-sends blocks, and every step of the main loop, is a stutter;
- a new reported end is a `Grow`.

`NewRanges` is a tail recursion that carries the highest end seen, so TLC evaluates it in linear time.

Under faults the refinement does not hold. A signal publishes several queued ranges in one step, and a death or a signal can leave a hole (`detector_crash_gap`).

### ProcessorDistributor

Several instances consume one queue. A process holds one delivery at a time
(`cur`) and is at a location (`pc`). Every `run_until_complete` Redis call is
an action of its own, so other instances can run between them:

- `Dispatch` is the routing in `_distribute_callbacks`. A SnapshotFinalized delivery passes the first `if` (payload commit) and then the `elif` of the second chain (aggregation).
- `FanOut` publishes one SnapshotProcessMessage per contract.
- `Aggregate` walks the config loop up to the ZADD.
- `ReadJoin` is the ZRANGEBYSCORE and the join test.
- `Cleanup` is the ZREMRANGEBYSCORE.
- `Ack` sends the ack.
- `Crash` is a process death. The broker requeues everything the process had not acked: the current delivery, plus deliveries with an unknown routing key, which are never acked.

Published messages are sets, or a bag for aggregates, because a duplicate is
what the properties look for. `Done` is the idle state once the queue is empty.

### RateLimiter

Callers run `check_rpc_rate_limit` concurrently (`Start`, `Hit` per limit,
`Stats` on denial, `StoreError` on a Redis error). `IncrExpire` is
`SCRIPT_INCR_EXPIRE`. `Tick` is one second of Redis TTL countdown; a key
reaching 0 is deleted. The history variable `admitted[k]` records the cost of
admitted calls whose hit on limit k is in the current window.

### TokenPrice

`get_token_price_at_block_height` for concurrent callers (`Callers`), with every Redis cache it reads through. A price is abstracted to its route:
- `"eth"` for WETH;
- the first white token whose pair is liquid at that height;
- `"zero"`.

State and actions:

| Variable | Code |
|---|---|
| `pxCache[t][h]` | the token's price zset at score `h` |
| `pairMap` | `uniswap_tokens_pair_map`, absent, zero address or pair |
| `addrCache`, `dataCache` | the two pair-metadata hashes |
| `ethCache` | the ETH/USD zset |
| `created`, `LiquidFrom` | the chain: when a pair exists and when its reserves reach 2 ETH |

- `ReadPrice` is the ZRANGEBYSCORE at the top.
- `GetPair` is `get_pair`. It HSETs whatever the factory returns, the zero address included.
- `Meta` is `get_pair_per_token_metadata`. It can fail after the first HSET.
- `White` is `get_white_token_data` and the reserve test, which breaks the loop.
- `NextWhite` continues the whitelist loop.
- `EthPrice` is `get_eth_price_usd`, with its ZADD and pruning in one gather.
- `Store` is the final ZADD.
- `Fail` is any exception at any await. `Retry` is the tenacity decorator: the call reruns from the top up to `RETRIAL_ATTEMPTS` times, then re-raises.
- `Advance` adds a block, in which the factory may create pairs of `NewPairs`.

### PriceMap and MCPriceMap

`PriceMap` EXTENDS `TokenPrice` with `get_trade_volume_epoch_price_map` (lines 938-972). `get_pair_contract_trades_async` gathers two of these maps, one for each token of the pair. The callers in `MapCallers` run the map, and each uses its own TokenPrice caller for the inner `get_token_price_at_block_height` call.

| Variable | Code |
|---|---|
| `mpc` | where the map is: in the loop, waiting on get_token_price, returned or raised |
| `mtok`, `lo`, `hi` | `token_metadata`, `from_block`, `to_block` |
| `blk` | the loop's `block` |
| `oatt` | the `AsyncRetrying` attempt, up to 3 |
| `pmap` | `price_map` |

- `MapRead` is the ZRANGEBYSCORE: a hit takes a member's price, a miss calls get_token_price (`Invoke`).
- `MapReadFail` is a Redis error on that read, which is outside the `try`.
- `MapCollect` stores the returned price. get_token_price returns a member it read from the zset or the one it just ZADDed (that zset is never pruned), so the price is taken from the zset at that block. `if price: break` changes nothing: tenacity ends the loop on any attempt that does not raise, a zero price included.
- `MapRetry` is AsyncRetrying after get_token_price re-raised: another attempt, or after three the re-raise out of the map.
- `NextBlock` is the `for` loop.

`MCPriceMap` reuses MCTokenPrice's pairs, with c1 asking for single prices and c2 building maps.

### TradeVolume and MCTradeVolume

`TradeVolume` holds the trade-volume aggregation of `get_pair_contract_trades_async` (uniswap_functions.py 1136-1237) as pure operators over a sequence of logs. A log is a record: transaction, event (Swap, Mint or Burn), and the USD amounts of its two tokens.
- `TradeUSD` is `extract_trade_volume_log`'s totalTradesUSD: the larger side for a Swap, the sum for Mint and Burn.
- `TxOrder` is the `grouped_by_tx` dict's key order.
- `TxLogs` is the `sorted(key=event, reverse=True)` of one transaction.
- `AddLog` is one pass of the inner loop; `AddTx` is one transaction with `epoch_results.Trades += abs(tx_hash_trades)`; `EpochTrades` folds the transactions.
- `Ceil` is `math.ceil`; amounts are half-dollars so that it has an effect.

Only totalTradesUSD is kept. `trade_data`'s arithmetic comes from `data_models`, which is not in the repository, and is taken as field-wise. `TxScopedTrades` is the reference the comments describe: a Burn cancels against the Mints of its own transaction. `MCTradeVolume` makes every epoch of up to three logs over two transactions and amounts 0..2 an initial state.

## The runs

| Run | Checks | Result |
|---|---|---|
| `detector` | TypeOK, ChunksPartition, NoGap, CatchesUp, FeedRefined with no faults, epochs of 1 or 2 blocks, heights up to 6 | pass, 22,800 states, about 25 s |
| `detector_faults` | NoFutureBroadcast, CheckpointMonotone | pass, 464,395 states |
| `detector_overlap` | NoBlockBroadcastTwice | violation |
| `detector_crash_gap` | NoGap with one death or signal, a restart, and every Redis SET succeeding | violation |
| `detector_fall_behind` | CatchesUp with a threshold of one epoch | violation |
| `distributor` | TypeOK, NoFinalizedReportLost, AckedFinalizedForwarded, AckedEpochFannedOut, JoinEventuallyFires | pass, about 1,000,000 states, 90 s |
| `distributor_race` | AtMostOneAggregatePerEpoch | violation |
| `rate_limiter` | TypeOK, WithinLimit, WindowEventuallyResets | pass, 346,290 states |
| `rate_limiter_outage` | FailOpenOnOutage | violation |
| `tokenprice` | MapTypeOK, CachedPriceCorrect, PriceMapCorrect, CallsTerminate, MapTerminates | pass, 543,767 states, under 2 min |
| `tokenprice_new_pair` | CachedPriceCorrect with a pair created in block 2 | violation |
| `trade_volume_burn` | BurnCancelsOwnTxMints over epochs of up to three logs | violation |

The `detector_faults` run includes:
- failed SETs;
- one regression or malformed epoch;
- deaths;
- signals that drain only part of the queue;
- two restarts.

### Passing runs

- `detector`: chunks() partitions [start, stop] into consecutive n-block ranges for every start, stop and n in range. With no faults and epochs of one or two blocks, the detector broadcasts every block the authority reports without holes, and the new blocks it broadcasts form the partitioned feed of `EpochFeed`.
- `detector_faults`: the Redis checkpoint never moves back, and nothing is broadcast above the height the authority has reported.
- `distributor`: two instances, one death with redelivery and two aggregators. No acknowledged report is lost or left unforwarded, every acknowledged epoch is fanned out, and every complete multi-project join fires.
- `rate_limiter`: two callers and two limits, with Redis outages. Admitted calls never exceed a limit within its window, and every window expires.
- `tokenprice`: a single-price caller and a price-map caller race on misses, fail at any await and retry, while a pair's liquidity changes between blocks. No price other than the chain's at that height is ever cached or put into a price map. A returned map has a price for every block of its range. Every call and every map returns or raises; this includes the nested AsyncRetrying(3) around get_token_price's own retries.

### Violation runs (findings)

- **distributor_race.** The join's ZADD, read and cleanup are separate awaits. Two instances, each with one of the two reports of an epoch, both read the full set and both publish the aggregate. No redelivery is needed. Spec section 5 asks for an atomic join.
- **detector_overlap.** `chunks(last_end, current_end, h)` starts at the last processed end block, so that block is broadcast twice. The spec partitions (last_end, current_end].
- **detector_crash_gap.** `_broadcast_epoch` puts the broadcast on the in-process queue (line 122) and then records it as processed, in memory and in Redis (lines 123-130), before the interactor thread has published it. Spec 4.1 step 6 orders it the other way: publish, then persist the checkpoint. In this run every SET succeeds. TLC's trace: chunks [3,4], [4,5] and [6,7] are queued and Redis holds [6,7]. A signal stops the interactor after [3,4] only. The process restarts from the Redis checkpoint, and blocks 5 and 6 are never broadcast. A death with the queue unsent does the same. Spec 4.1 says the transport is drained before the final state is persisted, and that the detector broadcasts every range "exactly once per range, with crash recovery".
- **detector_fall_behind.** The fall-behind branch raises instead of warning (see its TODO comment). The cleanup then joins a thread nobody stopped, and the detector hangs.
- **rate_limiter_outage.** A Redis error is re-raised, so the limiter fails closed. Spec section 4.3 says it fails open.
- **tokenprice_new_pair.** `get_pair` caches the zero address of a pair that does not exist yet, and it never expires. After the factory creates the pair, every later price of the token skips it, and the wrong price (0 here) is ZADDed and served from the zset.
- **trade_volume_burn.** The comments say a Burn is cancelled against the Mints "in a identical txHash". The test at line 1231 reads `epoch_results.Mint.trades.totalTradesUSD`, the Mint total of every transaction so far in the epoch. TLC's example: tx A mints 0.5, tx B mints 0.5 and burns 0.5. The code subtracts B's burn because of A's mint and counts $0.50 of trades (A's 0.5 plus B's 0.5 − 0.5); the comments' rule adds B's burn, because B's own mint of 0.5 is below ceil(0.5) = 1, and counts $1.50. The epoch's volume thus depends on which transactions come first. `math.ceil` also means a Mint exactly covering a fractional Burn does not cancel it.

Two further observations have no run:
- `retry_after` is 1 + TTL, one second above spec section 8's bound when the TTL equals the window. It is also formatted as a timestamp and never passed to the exception.
- `return_last_price_value` is documented to return 0 after the last retry. It is not wired into the `@retry` decorator, which re-raises.

The spec's open question says the aggregation branch is unreachable. It is
reachable: the second `if` chain routes SnapshotFinalized deliveries to
aggregation. `AckedFinalizedForwarded` holds, and its mutant `DispatchExclusive`
(one `if/elif` chain) breaks it.

## Bounds and why they are enough

- **Distributor.**
  - Two instances are the least that can race.
  - Two epochs let a cleanup of one score meet a ZADD of another.
  - A, B and C cover a waited-for project, a filtered one and one nobody waits for.
  - The unknown key covers the never-acked path.
  - One death is enough to exercise redelivery mid-handler.
- **Detector.**
  - In the `detector` run each epoch is one or two blocks, chosen per report. Span 1 makes a chunk loop's first chunk the whole last range again. Span 2 gives multi-chunk backlogs with a one-block overlap, and mixed spans change the chunk size between loops.
  - Height 6 in `detector` allows backlogs of up to five blocks, so loops of up to five one-block chunks. Height 8 at span 2 in the fault runs allows backlogs of several epochs; spans {1, 2} at height 8 are past what the liveness check finishes in minutes.
  - `detector_crash_gap` keeps every SET succeeding, so its hole can only come from the queue being behind the checkpoint.
  - Two restarts allow a death after a restart.
- **Rate limiter.**
  - Two limits with windows 1 and 3 make the earlier limit expire while a caller is still checking the later one.
  - MaxCount 4 lets a counter go past each amount.
- **Token price.**
  - Two callers are the least that can race on a miss. One of them builds price maps, so a map's own cache read races with the other caller's ZADD.
  - Two blocks let a price differ between heights: T1's WETH pair is illiquid at block 1 and liquid at block 2. They also let a pair be created after its zero address was cached.
  - Two white tokens give the loop a skip (no USDC pair) and a break.
  - Two attempts reach both a retry and the final re-raise. The map's three AsyncRetrying attempts are the code's literal `stop_after_attempt(3)`.
  - Map ranges are every from..to within the two blocks, so a map covers a single block or both blocks.
  - A prune window of 1 makes `get_eth_price_usd` drop the older height.

## Fairness

- **Detector.** The main loop (`Poll`, `BroadcastChunk`) and the publisher thread (`Publish`) are weakly fair: each is a running thread that loops with sleeps. The authority, signals and deaths are not fair.
- **Distributor.** Each instance's callback steps are weakly fair: the select loop keeps handing it ready deliveries. Deaths are not fair.
- **Rate limiter.** Only `Tick` is fair, because time passes. Callers need not call again.
- **Token price.** Each caller's `Step` is weakly fair: a running coroutine is scheduled again. Failures, new calls and new blocks are not fair. `CallsTerminate` holds because `Retry` bounds the attempts, not because failures stop. A price map's steps (`MapRead`, `MapCollect`, `MapRetry`) are weakly fair too, as they belong to the same running coroutine. `MapTerminates` relies on `MapRetry`'s bound in the same way.

## Not modelled

- **Liquidity** (`get_liquidity_of_each_token_reserve*`). It combines reserves and two token prices from the cache already modelled, and keeps no state of its own.
- **The outermost retry.** `PriceMap` models two of the three nested retry layers around a block range's prices: `AsyncRetrying(3)` and `get_token_price_at_block_height`'s `@retry`. The `@retry` of `get_pair_contract_trades_async` and the rate-limit hits these attempts use are not composed with the price caches.
- **`check_rpc_rate_limit`'s `retry_after`.** It is computed, formatted and never passed to the exception, so no caller can observe it.
- **Trade-volume fields other than totalTradesUSD**, the processed logs and the block timestamp: they are carried along and never tested.
- **Price arithmetic.** Prices are routes, not numbers.
- **The distributor's interactor** (`pooler.utils.rabbitmq_helpers`) is not in this repository. Two consequences:
  - The publish queue it keeps, behind which an ack can precede the publishing, cannot be modelled; the model publishes at enqueue.
  - Neither can what an exception out of the callback does, such as the unguarded `parse_raw` at processor_distributor.py:162. Malformed bodies that are caught return without an ack, which is the never-acked path the model has for unknown routing keys.
- **Redis key names** (`redis_keys.py`) are format strings; each key the models use is a variable.
- **Message formats, uuids and logging.**

The detector's output is not composed with the distributor: in `src` the detector publishes to the `epoch-broadcast` routing key, while the distributor consumes the `powerloom-event-detector` queue of an event detector that is not in the repository. Nothing in `src` connects the two, so a `Pipeline` module would model a link the code does not have.

## Further work

- **The single-project filter.** `config.filters.projectId not in process_unit.projectId` is a substring test (processor_distributor.py:222). The distributor model already gives each single-project config the set of ids that contain its filter. A run where one project id contains another would show a report of the wrong project forwarded, against spec section 8 ("a finalized message whose `projectId` does not match the configured filter produces no outbound publish").
- **Rate limits under retries.** Composing `RateLimiter` with `PriceMap` would count how many limiter hits one failing block costs across the nested retries. TLC can only do this with a single caller and a single limit.
- **An abstract join.** An abstract specification of the multi-project join would be atomic and fire at most once per epoch unless a delivery is redelivered. The distributor does not implement it (`distributor_race`), so it would serve only to state the race as a refinement failure.
