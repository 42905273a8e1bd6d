------------------------------ MODULE TokenPrice ------------------------------
(***************************************************************************)
(* get_token_price_at_block_height of src/uniswap_functions.py and the     *)
(* caches it reads through: the per-token price zset scored by height, the *)
(* (white token, token) -> pair address hash of get_pair, the two pair     *)
(* metadata hashes of get_pair_per_token_metadata and the ETH/USD price    *)
(* zset of get_eth_price_usd.                                              *)
(*                                                                         *)
(* Concurrent callers (coroutines of any worker sharing Redis) ask for the *)
(* price of a token at a block height.  A price is abstracted to where it  *)
(* comes from: "eth" for WETH, the white token whose pair with the token   *)
(* is the first in UNISWAP_V2_WHITELIST holding enough liquidity at that   *)
(* height, or Zero when there is none.  Every Redis call, rate-limit check *)
(* and RPC may raise; the function turns any exception into an            *)
(* RPCException, which the tenacity decorator retries up to               *)
(* RETRIAL_ATTEMPTS times and then re-raises.                              *)
(*                                                                         *)
(* The chain grows one block at a time; a pair of NewPairs may be created  *)
(* in a new block.  Blocks that exist never change.                        *)
(***************************************************************************)
EXTENDS Naturals, Sequences, FiniteSets

CONSTANTS
  Callers,        \* concurrent callers
  Tokens,         \* tokens whose price is asked for (WETH among them)
  WETH,           \* settings.CONTRACT_ADDRESSES.WETH
  Whitelist,      \* settings.UNISWAP_V2_WHITELIST, in order
  InitialPairs,   \* pairs {a, b} that exist from block 1 on
  NewPairs,       \* pairs the factory may create later
  LiquidFrom,     \* LiquidFrom[p]: first height at which p holds 2 ETH of reserves
  MaxHeight,      \* bound on the chain height
  Prune,          \* NUMBER_OF_BLOCKS_IN_EPOCH * PRUNE_PRICE_ZSET_EPOCH_MULTIPLIER
  Attempts        \* UNISWAP_FUNCTIONS.RETRIAL_ATTEMPTS

ASSUME WETH \in Tokens /\ Attempts \in Nat \ {0} /\ Prune \in Nat \ {0}

Zero == "zero"
WhiteTokens == {Whitelist[i] : i \in DOMAIN Whitelist}
Price == {Zero, "eth"} \cup WhiteTokens
Heights == 1..MaxHeight
AllPairs == InitialPairs \cup NewPairs
PairOf(a, b) == {a, b}
PairKeys == WhiteTokens \X (Tokens \ {WETH})  \* WETH never reaches get_pair

VARIABLES
  now,        \* height of the latest block
  created,    \* created[p]: block in which pair p was created, 0 if not yet
  pairMap,    \* uniswap_tokens_pair_map: "none" (no field), "zero" or "pair"
  addrCache,  \* pairs whose token-addresses hash is cached
  dataCache,  \* pairs whose token-data hash is cached
  ethCache,   \* heights in the ETH/USD price zset
  pxCache,    \* pxCache[t][h]: prices in token t's price zset at score h
  pc,         \* pc[c]: where caller c is
  tok,        \* tok[c]: the token asked for
  ht,         \* ht[c]: the block height asked for
  att,        \* att[c]: the tenacity attempt number
  w,          \* w[c]: index into the whitelist loop
  via         \* via[c]: token_eth_price so far, as the white token it came from

vars == <<now, created, pairMap, addrCache, dataCache, ethCache, pxCache,
          pc, tok, ht, att, w, via>>

chainVars == <<now, created>>
cacheVars == <<pairMap, addrCache, dataCache, ethCache, pxCache>>

Working == {"read", "pair", "meta", "white", "eth", "store"}

Exists(p) == p \in AllPairs /\ created[p] # 0

\* getReserves at height h shows enough liquidity (nothing before the pair
\* exists).
LiquidAt(p, h) == Exists(p) /\ created[p] <= h /\ LiquidFrom[p] <= h

Init ==
  /\ now = 1
  /\ created = [p \in AllPairs |-> IF p \in InitialPairs THEN 1 ELSE 0]
  /\ pairMap = [k \in PairKeys |-> "none"]
  /\ addrCache = {}
  /\ dataCache = {}
  /\ ethCache = {}
  /\ pxCache = [t \in Tokens |-> [h \in Heights |-> {}]]
  /\ pc = [c \in Callers |-> "idle"]
  /\ tok = [c \in Callers |-> WETH]
  /\ ht = [c \in Callers |-> 1]
  /\ att = [c \in Callers |-> 1]
  /\ w = [c \in Callers |-> 1]
  /\ via = [c \in Callers |-> Zero]

Goto(c, l) == pc' = [pc EXCEPT ![c] = l]

\* The call returns ("done") or raises ("raised"); its locals are gone.
Return(c, l) ==
  /\ Goto(c, l)
  /\ tok' = [tok EXCEPT ![c] = WETH]
  /\ ht' = [ht EXCEPT ![c] = 1]
  /\ w' = [w EXCEPT ![c] = 1]
  /\ via' = [via EXCEPT ![c] = Zero]
  /\ att' = [att EXCEPT ![c] = 1]

\* A new attempt runs the function from the top, with fresh locals.
Restart(c) ==
  /\ Goto(c, "read")
  /\ w' = [w EXCEPT ![c] = 1]
  /\ via' = [via EXCEPT ![c] = Zero]
  /\ UNCHANGED <<tok, ht>>

-----------------------------------------------------------------------------
\* A new block; the factory may have created some of NewPairs in it.
Advance ==
  /\ now < MaxHeight
  /\ now' = now + 1
  /\ \E S \in SUBSET {p \in NewPairs : created[p] = 0} :
       created' = [p \in AllPairs |-> IF p \in S THEN now + 1 ELSE created[p]]
  /\ UNCHANGED <<cacheVars, pc, tok, ht, att, w, via>>

\* A caller asks for the price of token t at an existing height h.
Start(c) ==
  /\ pc[c] \in {"idle", "done", "raised"}
  /\ \E t \in Tokens, h \in 1..now :
       /\ tok' = [tok EXCEPT ![c] = t]
       /\ ht' = [ht EXCEPT ![c] = h]
  /\ att' = [att EXCEPT ![c] = 1]
  /\ Goto(c, "read")
  /\ UNCHANGED <<chainVars, cacheVars, w, via>>

\* Mutant: stop_after_attempt counted one attempt too late.
RetryLate(c) ==
  IF att[c] < Attempts + 1
    THEN att' = [att EXCEPT ![c] = @ + 1] /\ Restart(c)
    ELSE Return(c, "raised")

\* Mutant: the attempt counter is never advanced.
RetryForever(c) == Restart(c) /\ UNCHANGED att

(***************************************************************************)
(* The RPCException leaves the function: tenacity calls it again from the  *)
(* top unless RETRIAL_ATTEMPTS attempts were made, and then re-raises (the *)
(* random exponential wait in between is abstracted away).                *)
(***************************************************************************)
Retry(c) ==
  IF att[c] < Attempts
    THEN att' = [att EXCEPT ![c] = @ + 1] /\ Restart(c)
    ELSE Return(c, "raised")

\* A Redis error, an RPC error or a rate-limit RPCException at any await.
Fail(c) ==
  /\ pc[c] \in Working
  /\ Retry(c)
  /\ UNCHANGED <<chainVars, cacheVars>>

\* ZRANGEBYSCORE of the token's price zset at the height: return the first
\* member on a hit; otherwise WETH goes to get_eth_price_usd and any other
\* token into the whitelist loop.
ReadPrice(c) ==
  LET t == tok[c]  cached == pxCache[t][ht[c]] IN
  /\ pc[c] = "read"
  /\ IF cached # {}
       THEN Return(c, "done")
     ELSE IF t = WETH
       THEN Goto(c, "eth") /\ UNCHANGED <<w, via, tok, ht, att>>
       ELSE Goto(c, "pair") /\ UNCHANGED <<w, via, tok, ht, att>>
  /\ UNCHANGED <<chainVars, cacheVars>>

\* The whitelist loop goes on with the next white token, or ends with
\* token_eth_price still 0 and the zero price is cached.
NextWhite(c) ==
  IF w[c] < Len(Whitelist)
    THEN w' = [w EXCEPT ![c] = @ + 1] /\ Goto(c, "pair")
    ELSE Goto(c, "store") /\ UNCHANGED w

(***************************************************************************)
(* get_pair(white, token): the cached field if any; otherwise the factory's *)
(* getPair at the latest block (after the rate-limit check), cached with   *)
(* HSET whatever it is, the zero address included.  A zero address skips  *)
(* to the next white token.                                                *)
(***************************************************************************)
GetPair(c) ==
  LET key == <<Whitelist[w[c]], tok[c]>>
      addr == IF pairMap[key] # "none" THEN pairMap[key]
              ELSE IF Exists(PairOf(key[1], key[2])) THEN "pair" ELSE "zero"
  IN
  /\ pc[c] = "pair"
  /\ pairMap' = [pairMap EXCEPT ![key] = addr]
  /\ IF addr = "zero" THEN NextWhite(c) ELSE Goto(c, "meta") /\ UNCHANGED w
  /\ UNCHANGED <<chainVars, addrCache, dataCache, ethCache, pxCache, tok, ht, att, via>>

(***************************************************************************)
(* get_pair_per_token_metadata: both hashes are read together; a missing   *)
(* token-addresses hash is fetched and HSET, then a missing token-data     *)
(* hash.  The second fetch may raise after the first HSET.                 *)
(***************************************************************************)
Meta(c) ==
  LET p == PairOf(Whitelist[w[c]], tok[c]) IN
  /\ pc[c] = "meta"
  /\ addrCache' = addrCache \cup {p}
  /\ \/ dataCache' = dataCache \cup {p} /\ Goto(c, "white") /\ UNCHANGED <<att, tok, ht, w, via>>
     \/ p \notin dataCache /\ Retry(c) /\ UNCHANGED dataCache
  /\ UNCHANGED <<chainVars, pairMap, ethCache, pxCache>>

\* Mutant: getReserves without block_identifier, i.e. at the latest block.
WhiteAtLatest(c) ==
  LET p == PairOf(Whitelist[w[c]], tok[c]) IN
  /\ pc[c] = "white"
  /\ IF LiquidAt(p, now)
       THEN via' = [via EXCEPT ![c] = Whitelist[w[c]]] /\ Goto(c, "eth") /\ UNCHANGED w
       ELSE NextWhite(c) /\ UNCHANGED via
  /\ UNCHANGED <<chainVars, cacheVars, tok, ht, att>>

(***************************************************************************)
(* get_white_token_data: the pair's reserves at the height (empty before   *)
(* the pair exists).  Under 2 ETH of white-token reserves the loop         *)
(* continues; otherwise token_eth_price is set and the loop breaks.        *)
(***************************************************************************)
White(c) ==
  LET p == PairOf(Whitelist[w[c]], tok[c]) IN
  /\ pc[c] = "white"
  /\ IF LiquidAt(p, ht[c])
       THEN via' = [via EXCEPT ![c] = Whitelist[w[c]]] /\ Goto(c, "eth") /\ UNCHANGED w
       ELSE NextWhite(c) /\ UNCHANGED via
  /\ UNCHANGED <<chainVars, cacheVars, tok, ht, att>>

(***************************************************************************)
(* get_eth_price_usd at the height: a cached price is used; otherwise the  *)
(* three stablecoin pairs' reserves are fetched and the price is ZADDed    *)
(* while, in the same gather, every height up to height - Prune is pruned. *)
(***************************************************************************)
EthPrice(c) ==
  LET h == ht[c] IN
  /\ pc[c] = "eth"
  /\ ethCache' = IF h \in ethCache THEN ethCache
                 ELSE {x \in ethCache \cup {h} : x > h - Prune}
  /\ Goto(c, "store")
  /\ UNCHANGED <<chainVars, pairMap, addrCache, dataCache, pxCache, tok, ht, att, w, via>>

\* ZADD the price at score height, and return it.
Store(c) ==
  LET p == IF tok[c] = WETH THEN "eth" ELSE via[c] IN
  /\ pc[c] = "store"
  /\ pxCache' = [pxCache EXCEPT ![tok[c]][ht[c]] = @ \cup {p}]
  /\ Return(c, "done")
  /\ UNCHANGED <<chainVars, pairMap, addrCache, dataCache, ethCache>>

Step(c) ==
  ReadPrice(c) \/ GetPair(c) \/ Meta(c) \/ White(c) \/ EthPrice(c) \/ Store(c)

Next ==
  \/ Advance
  \/ \E c \in Callers : Start(c) \/ Step(c) \/ Fail(c)

\* A running call keeps being executed; failures, new calls and new blocks
\* are not forced.
Spec == Init /\ [][Next]_vars /\ \A c \in Callers : WF_vars(Step(c))

-----------------------------------------------------------------------------
TypeOK ==
  /\ now \in Heights
  /\ pairMap \in [PairKeys -> {"none", "zero", "pair"}]
  /\ ethCache \subseteq Heights
  /\ pxCache \in [Tokens -> [Heights -> SUBSET Price]]
  /\ pc \in [Callers -> {"idle", "done", "raised"} \cup Working]
  /\ att \in [Callers -> 1..Attempts]

\* The price the chain gives token t at height h.
TruePrice(t, h) ==
  IF t = WETH THEN "eth"
  ELSE LET L == {i \in DOMAIN Whitelist : LiquidAt(PairOf(Whitelist[i], t), h)}
       IN IF L = {} THEN Zero
          ELSE Whitelist[CHOOSE i \in L : \A j \in L : i <= j]

(***************************************************************************)
(* Every price cached for a token at a height is the chain's price there:  *)
(* callers racing on a miss, failures and retries at any await, and the    *)
(* pair-address cache filled at earlier heights never put another value,   *)
(* or a zero, into the zset that later calls return without checking.      *)
(***************************************************************************)
CachedPriceCorrect ==
  \A t \in Tokens, h \in Heights : pxCache[t][h] \subseteq {TruePrice(t, h)}

(***************************************************************************)
(* Every call returns a price or raises: the whitelist loop ends and       *)
(* tenacity stops after RETRIAL_ATTEMPTS attempts however often the RPC    *)
(* fails.                                                                  *)
(***************************************************************************)
CallsTerminate == \A c \in Callers : pc[c] \in Working ~> pc[c] \in {"done", "raised"}

=============================================================================
