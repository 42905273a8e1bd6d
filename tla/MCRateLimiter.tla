---------------------------- MODULE MCRateLimiter ----------------------------
(***************************************************************************)
(* Two limits in the order of an RPC.rate_limit string such as             *)
(* "2/second;3/3 seconds", hit by two callers at a cost of 1.              *)
(***************************************************************************)
EXTENDS RateLimiter

MCLimits == << [amount |-> 2, window |-> 1], [amount |-> 3, window |-> 3] >>

=============================================================================
