----------------------------- MODULE RateLimiter -----------------------------
(***************************************************************************)
(* check_rpc_rate_limit of src/uniswap_functions.py.                       *)
(*                                                                         *)
(* Callers (coroutines of any process sharing Redis) check every parsed    *)
(* limit in order with a fixed-window hit: the Lua script                  *)
(* SCRIPT_INCR_EXPIRE atomically INCRBYs the limit's key by the cost and   *)
(* sets its EXPIRE to the window when the new count equals the cost (the   *)
(* first hit of a window).  A hit passes when the count stays within the   *)
(* limit's amount (the fixed-window strategy of async_limits).  The first *)
(* failing limit ends the loop: the window stats are read in a second      *)
(* call and the caller gets an RPCException with retry_after.  A Redis     *)
(* connection, timeout or response error is re-raised.                     *)
(*                                                                         *)
(* Time is a Tick of one second that decrements every TTL; a key whose     *)
(* TTL reaches 0 is deleted.  TTL -2 stands for an absent key, -1 for a    *)
(* key without expiry, as Redis reports them.                              *)
(***************************************************************************)
EXTENDS Integers, Sequences

CONSTANTS
  Callers,       \* concurrent callers of check_rpc_rate_limit
  Limits,        \* PARSED_LIMITS: a sequence of [amount, window (seconds)]
  Cost,          \* limit_incr_by
  MaxCount,      \* bound on a key's counter (hits past it wait for expiry)
  Outages        \* TRUE when Redis may be unreachable

ASSUME Cost \in Nat \ {0} /\ MaxCount \in Nat /\ Outages \in BOOLEAN

LimitIdx == DOMAIN Limits

Absent == [count |-> 0, ttl |-> -2]

VARIABLES
  bucket,    \* bucket[k]: Redis key of limit k, [count, ttl]
  storeUp,   \* Redis reachable
  pc,        \* pc[c]: "idle", "hit", "stats" or "done"
  idx,       \* idx[c]: the limit being checked
  result,    \* result[c]: "none", "admitted", "denied" or "error"
  retry,     \* retry[c]: retry_after of the last denial, in seconds from now
  live,      \* live[c]: limits whose passing hit by c is in the current window
  admitted   \* admitted[k]: cost admitted whose hit on k is in the current window

vars == <<bucket, storeUp, pc, idx, result, retry, live, admitted>>

callerVars == <<pc, idx, result, retry>>

Init ==
  /\ bucket = [k \in LimitIdx |-> Absent]
  /\ storeUp = TRUE
  /\ pc = [c \in Callers |-> "idle"]
  /\ idx = [c \in Callers |-> 1]
  /\ result = [c \in Callers |-> "none"]
  /\ retry = [c \in Callers |-> 0]
  /\ live = [c \in Callers |-> {}]
  /\ admitted = [k \in LimitIdx |-> 0]

\* A caller enters check_rpc_rate_limit (the Lua scripts are loaded).
Start(c) ==
  /\ pc[c] \in {"idle", "done"}
  /\ pc' = [pc EXCEPT ![c] = "hit"]
  /\ idx' = [idx EXCEPT ![c] = 1]
  /\ result' = [result EXCEPT ![c] = "none"]
  /\ live' = [live EXCEPT ![c] = {}]
  /\ UNCHANGED <<bucket, storeUp, retry, admitted>>

\* Mutant: the EXPIRE call is missing from the script.
IncrExpireNoTTL(b, k) == [count |-> b.count + Cost, ttl |-> b.ttl]

\* Mutant: the window passed in milliseconds to EXPIRE.
IncrExpireMillis(b, k) ==
  LET n == b.count + Cost IN
  [count |-> n, ttl |-> IF n = Cost THEN Limits[k].window * 1000 ELSE b.ttl]

\* SCRIPT_INCR_EXPIRE on a key: INCRBY, then EXPIRE when first in window.
IncrExpire(b, k) ==
  LET n == b.count + Cost IN
  [count |-> n, ttl |-> IF n = Cost THEN Limits[k].window ELSE b.ttl]

\* Mutant: the count read before the increment is compared to the amount.
HitCheckBefore(c) ==
  LET k == idx[c]  b == IncrExpire(bucket[k], k) IN
  /\ pc[c] = "hit"
  /\ storeUp
  /\ b.count <= MaxCount
  /\ bucket' = [bucket EXCEPT ![k] = b]
  /\ IF bucket[k].count <= Limits[k].amount
       THEN /\ live' = [live EXCEPT ![c] = @ \cup {k}]
            /\ IF k = Len(Limits)
                 THEN /\ pc' = [pc EXCEPT ![c] = "done"]
                      /\ result' = [result EXCEPT ![c] = "admitted"]
                      /\ admitted' = [j \in LimitIdx |->
                                        IF j \in live'[c] THEN admitted[j] + Cost ELSE admitted[j]]
                      /\ UNCHANGED idx
                 ELSE /\ idx' = [idx EXCEPT ![c] = k + 1]
                      /\ UNCHANGED <<pc, result, admitted>>
       ELSE /\ pc' = [pc EXCEPT ![c] = "stats"]
            /\ UNCHANGED <<idx, result, live, admitted>>
  /\ UNCHANGED <<storeUp, retry>>

(***************************************************************************)
(* custom_limiter.hit on limit idx[c].  Passing the last limit admits the  *)
(* call: the cost is counted in every window whose hit is still current.  *)
(***************************************************************************)
Hit(c) ==
  LET k == idx[c]  b == IncrExpire(bucket[k], k) IN
  /\ pc[c] = "hit"
  /\ storeUp
  /\ b.count <= MaxCount
  /\ bucket' = [bucket EXCEPT ![k] = b]
  /\ IF b.count <= Limits[k].amount
       THEN /\ live' = [live EXCEPT ![c] = @ \cup {k}]
            /\ IF k = Len(Limits)
                 THEN /\ pc' = [pc EXCEPT ![c] = "done"]
                      /\ result' = [result EXCEPT ![c] = "admitted"]
                      /\ admitted' = [j \in LimitIdx |->
                                        IF j \in live'[c] THEN admitted[j] + Cost ELSE admitted[j]]
                      /\ UNCHANGED idx
                 ELSE /\ idx' = [idx EXCEPT ![c] = k + 1]
                      /\ UNCHANGED <<pc, result, admitted>>
       ELSE /\ pc' = [pc EXCEPT ![c] = "stats"]
            /\ UNCHANGED <<idx, result, live, admitted>>
  /\ UNCHANGED <<storeUp, retry>>

(***************************************************************************)
(* get_window_stats of the failing limit: reset = now + TTL, then          *)
(* retry_after = 1 + reset - int(now), so 1 + TTL whole seconds; the       *)
(* caller is refused with an RPCException.                                 *)
(***************************************************************************)
Stats(c) ==
  /\ pc[c] = "stats"
  /\ storeUp
  /\ retry' = [retry EXCEPT ![c] = 1 + bucket[idx[c]].ttl]
  /\ pc' = [pc EXCEPT ![c] = "done"]
  /\ result' = [result EXCEPT ![c] = "denied"]
  /\ UNCHANGED <<bucket, storeUp, idx, live, admitted>>

\* A Redis ConnectionError, TimeoutError or ResponseError is re-raised.
StoreError(c) ==
  /\ pc[c] \in {"hit", "stats"}
  /\ ~storeUp
  /\ pc' = [pc EXCEPT ![c] = "done"]
  /\ result' = [result EXCEPT ![c] = "error"]
  /\ UNCHANGED <<bucket, storeUp, idx, retry, live, admitted>>

\* One second passes: TTLs count down and expired keys disappear.
Tick ==
  /\ \E k \in LimitIdx : bucket[k].ttl > 0
  /\ bucket' = [k \in LimitIdx |->
                  IF bucket[k].ttl = 1 THEN Absent
                  ELSE IF bucket[k].ttl > 1 THEN [bucket[k] EXCEPT !.ttl = @ - 1]
                  ELSE bucket[k]]
  /\ live' = [c \in Callers |-> {k \in live[c] : bucket[k].ttl # 1}]
  /\ admitted' = [k \in LimitIdx |-> IF bucket[k].ttl = 1 THEN 0 ELSE admitted[k]]
  /\ UNCHANGED <<storeUp, callerVars>>

\* Redis becomes unreachable or comes back.
StoreFlip ==
  /\ Outages
  /\ storeUp' = ~storeUp
  /\ UNCHANGED <<bucket, live, admitted, callerVars>>

Next ==
  \/ \E c \in Callers : Start(c) \/ Hit(c) \/ Stats(c) \/ StoreError(c)
  \/ Tick
  \/ StoreFlip

\* Time passes; callers need not call again.
Spec == Init /\ [][Next]_vars /\ WF_vars(Tick)

-----------------------------------------------------------------------------
TypeOK ==
  /\ bucket \in [LimitIdx -> [count : 0..MaxCount, ttl : -2..MaxCount]]
  /\ pc \in [Callers -> {"idle", "hit", "stats", "done"}]
  /\ idx \in [Callers -> LimitIdx]
  /\ result \in [Callers -> {"none", "admitted", "denied", "error"}]
  /\ storeUp \in BOOLEAN

(***************************************************************************)
(* Within one window of a limit, the calls admitted after passing that     *)
(* limit cost at most its amount, however the callers' hits, the other     *)
(* limits and the window expiries interleave.                              *)
(***************************************************************************)
WithinLimit == \A k \in LimitIdx : admitted[k] <= Limits[k].amount

(***************************************************************************)
(* Every counter is eventually reset: the first hit of a window sets the   *)
(* key's expiry in the same script, so no key is left without a TTL and    *)
(* no limit stays exhausted for good.                                      *)
(***************************************************************************)
WindowEventuallyResets ==
  \A k \in LimitIdx : (bucket[k].count > 0) ~> (bucket[k].count = 0)

(***************************************************************************)
(* Spec section 4.3: when Redis is unreachable the limiter fails open and  *)
(* the call is permitted.                                                  *)
(***************************************************************************)
FailOpenOnOutage == \A c \in Callers : result[c] # "error"

=============================================================================
