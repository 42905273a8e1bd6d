------------------------- MODULE ProcessorDistributor -------------------------
(***************************************************************************)
(* The Processor Distributor of src/pooler/processor_distributor.py.       *)
(*                                                                         *)
(* Several distributor processes (Instances) consume one broker queue     *)
(* with manual acknowledgement.  A delivery is either an EpochReleased     *)
(* broadcast, fanned out to one SnapshotProcessMessage per configured      *)
(* project, or a SnapshotFinalized report, forwarded to the payload-commit *)
(* topic and then evaluated by every aggregator config in order: a         *)
(* single-project config forwards it, a multi-project config folds it     *)
(* into a Redis sorted set scored by epochId and emits an aggregate once   *)
(* the distinct projectIds at that score equal projects_to_wait_for.       *)
(*                                                                         *)
(* Every Redis call of a handler is wrapped in run_until_complete and so   *)
(* is a step of its own: another instance may run between ZADD, ZRANGE    *)
(* and ZREMRANGEBYSCORE.  A process may die at any step; its unacked      *)
(* deliveries go back to the queue (at-least-once redelivery).            *)
(***************************************************************************)
EXTENDS Naturals, Sequences, FiniteSets, Bags, SequencesExt

CONSTANTS
  Instances,     \* distributor processes sharing the queue and Redis
  Deliveries,    \* broker delivery tags of the inbound queue
  Body,          \* Body[d]: the message carried by delivery d
  Contracts,     \* projects_config flattened, in configuration order
  Configs,       \* aggregator_config, in configuration order
  MaxCrashes,    \* bound on process deaths
  NoDelivery     \* model value: the process holds no delivery

EpochReleased     == "EpochReleased"
SnapshotFinalized == "SnapshotFinalized"
SingleProject     == "single_project"
MultiProject      == "multi_project"

\* A SnapshotFinalized message is its (epochId, projectId, snapshotCid);
\* two with the same fields serialise to the same JSON member of the zset.
FinalizedMsgs == {Body[d] : d \in {x \in Deliveries : Body[x].kind = SnapshotFinalized}}

ASSUME /\ NoDelivery \notin Deliveries
       /\ \A d \in Deliveries : Body[d].kind \in {EpochReleased, SnapshotFinalized, "Unknown"}
       /\ \A k \in DOMAIN Configs : Configs[k].mode \in {SingleProject, MultiProject}

AggTypes == {Configs[k].type : k \in DOMAIN Configs}

VARIABLES
  ready,     \* deliveries the broker may hand to a consumer
  held,      \* held[i]: delivered to i, returned from the callback unacked
  acked,     \* deliveries acknowledged (basic_ack)
  cur,       \* cur[i]: the delivery the callback of i is handling
  pc,        \* pc[i]: where the callback of i is
  idx,       \* idx[i]: loop index over Contracts or Configs
  zset,      \* zset[t]: powerloom:aggregator:<t>:events, members with score epoch
  commitQ,   \* PayloadCommitFinalizedMessages published
  workQ,     \* SnapshotProcessMessages published
  aggQ,      \* bag of messages published on CalculateAggregate.<t> topics
  crashes    \* process deaths so far

vars == <<ready, held, acked, cur, pc, idx, zset, commitQ, workQ, aggQ, crashes>>

Locations == {"idle", "fanout", "aggregate", "read", "zrem", "ack"}

Msg(i) == Body[cur[i]]

\* Move process i to location l with loop index k.
Goto(i, l, k) == pc' = [pc EXCEPT ![i] = l] /\ idx' = [idx EXCEPT ![i] = k]

\* _build_and_forward_to_payload_commit_queue: a PayloadCommitFinalizedMessage
\* wrapping the report goes to the commit-payload exchange.
ForwardToPayloadCommit(m) == commitQ' = commitQ \cup {m}

\* _send_message_for_processing of a CalculateAggregate message of type t
\* bundling the reports S (the processing-log ZADD changes no modelled state).
SendForProcessing(t, S) == aggQ' = aggQ (+) SetToBag({[type |-> t, msgs |-> S]})

Init ==
  /\ ready   = Deliveries
  /\ held    = [i \in Instances |-> {}]
  /\ acked   = {}
  /\ cur     = [i \in Instances |-> NoDelivery]
  /\ pc      = [i \in Instances |-> "idle"]
  /\ idx     = [i \in Instances |-> 0]
  /\ zset    = [t \in AggTypes |-> {}]
  /\ commitQ = {}
  /\ workQ   = {}
  /\ aggQ    = EmptyBag
  /\ crashes = 0

\* Mutant: the SnapshotFinalized guards as one if/elif chain, so a report
\* is forwarded to payload commit and acked without reaching the aggregators.
DispatchExclusive(i) ==
  /\ pc[i] = "idle"
  /\ \E d \in ready :
       /\ ready' = ready \ {d}
       /\ cur' = [cur EXCEPT ![i] = d]
       /\ CASE Body[d].kind = SnapshotFinalized ->
                 /\ ForwardToPayloadCommit(Body[d])
                 /\ Goto(i, "ack", 0)
                 /\ UNCHANGED held
            [] Body[d].kind = EpochReleased ->
                 /\ Goto(i, "fanout", 1)
                 /\ UNCHANGED <<held, commitQ>>
            [] OTHER ->
                 /\ held' = [held EXCEPT ![i] = @ \cup {d}]
                 /\ Goto(i, "idle", 0)
                 /\ UNCHANGED commitQ
  /\ UNCHANGED <<acked, zset, workQ, aggQ, crashes>>

(***************************************************************************)
(* _distribute_callbacks: the broker hands delivery d to process i.  A     *)
(* SnapshotFinalized key first goes through                                *)
(* _build_and_forward_to_payload_commit_queue and then, by the second if   *)
(* chain, to _distribute_callbacks_aggregate; EpochReleased goes to        *)
(* _distribute_callbacks_snapshotting (cache warm-up is best effort and    *)
(* changes nothing here); any other key is logged and left unacked.       *)
(***************************************************************************)
Dispatch(i) ==
  /\ pc[i] = "idle"
  /\ \E d \in ready :
       /\ ready' = ready \ {d}
       /\ cur' = [cur EXCEPT ![i] = d]
       /\ CASE Body[d].kind = SnapshotFinalized ->
                 /\ ForwardToPayloadCommit(Body[d])
                 /\ Goto(i, "aggregate", 1)
                 /\ UNCHANGED held
            [] Body[d].kind = EpochReleased ->
                 /\ Goto(i, "fanout", 1)
                 /\ UNCHANGED <<held, commitQ>>
            [] OTHER ->
                 /\ held' = [held EXCEPT ![i] = @ \cup {d}]
                 /\ Goto(i, "idle", 0)
                 /\ UNCHANGED commitQ
  /\ UNCHANGED <<acked, zset, workQ, aggQ, crashes>>

\* Mutant: the fan-out loop stops one contract early.
FanOutShort(i) ==
  /\ pc[i] = "fanout"
  /\ IF idx[i] < Len(Contracts)
       THEN /\ workQ' = workQ \cup {[epoch |-> Msg(i).epoch, contract |-> Contracts[idx[i]]]}
            /\ Goto(i, "fanout", idx[i] + 1)
       ELSE /\ Goto(i, "ack", 0)
            /\ UNCHANGED workQ
  /\ UNCHANGED <<ready, held, acked, cur, zset, commitQ, aggQ, crashes>>

(***************************************************************************)
(* One turn of the loop over projects_config: publish the                  *)
(* SnapshotProcessMessage of one contract and log it                       *)
(* (_send_message_for_processing).  The loop ends at the basic_ack.       *)
(***************************************************************************)
FanOut(i) ==
  /\ pc[i] = "fanout"
  /\ IF idx[i] <= Len(Contracts)
       THEN /\ workQ' = workQ \cup {[epoch |-> Msg(i).epoch, contract |-> Contracts[idx[i]]]}
            /\ Goto(i, "fanout", idx[i] + 1)
       ELSE /\ Goto(i, "ack", 0)
            /\ UNCHANGED workQ
  /\ UNCHANGED <<ready, held, acked, cur, zset, commitQ, aggQ, crashes>>

(***************************************************************************)
(* One turn of the loop over aggregator_config up to the ZADD.  A         *)
(* single-project config forwards the message when its filter is a        *)
(* substring of the projectId (Configs[k].projects lists those ids); a     *)
(* multi-project config skips a project it does not wait for, else ZADDs  *)
(* the message at score epochId.                                           *)
(***************************************************************************)
Aggregate(i) ==
  LET k == idx[i]  m == Msg(i) IN
  /\ pc[i] = "aggregate"
  /\ IF k > Len(Configs)
       THEN Goto(i, "ack", 0) /\ UNCHANGED <<zset, aggQ>>
     ELSE IF m.project \notin Configs[k].projects
       THEN Goto(i, "aggregate", k + 1) /\ UNCHANGED <<zset, aggQ>>
     ELSE IF Configs[k].mode = SingleProject
       THEN /\ SendForProcessing(Configs[k].type, {m})
            /\ Goto(i, "aggregate", k + 1)
            /\ UNCHANGED zset
       ELSE /\ zset' = [zset EXCEPT ![Configs[k].type] = @ \cup {m}]
            /\ Goto(i, "read", k)
            /\ UNCHANGED aggQ
  /\ UNCHANGED <<ready, held, acked, cur, commitQ, workQ, crashes>>

\* ZRANGEBYSCORE key epochId epochId
EventsAt(t, e) == {m \in zset[t] : m.epoch = e}

ProjectIds(S) == {m.project : m \in S}

\* Mutant: set(...) dropped around projects_to_wait_for; a set never
\* equals a list, so the join check always fails.
ReadJoinNoSet(i) ==
  LET k == idx[i] IN
  /\ pc[i] = "read"
  /\ Goto(i, "aggregate", k + 1)
  /\ UNCHANGED <<ready, held, acked, cur, zset, commitQ, workQ, aggQ, crashes>>

(***************************************************************************)
(* ZRANGEBYSCORE at the message's epochId, then the join check: when the   *)
(* distinct projectIds equal projects_to_wait_for, publish an aggregate    *)
(* bundling every event read and go on to the cleanup; otherwise (or when  *)
(* nothing is left at that score) go on to the next config.                *)
(***************************************************************************)
ReadJoin(i) ==
  LET k == idx[i]  t == Configs[k].type  events == EventsAt(t, Msg(i).epoch) IN
  /\ pc[i] = "read"
  /\ IF events # {} /\ ProjectIds(events) = Configs[k].projects
       THEN /\ SendForProcessing(t, events)
            /\ Goto(i, "zrem", k)
       ELSE /\ Goto(i, "aggregate", k + 1)
            /\ UNCHANGED aggQ
  /\ UNCHANGED <<ready, held, acked, cur, zset, commitQ, workQ, crashes>>

\* Mutant: ZREMRANGEBYSCORE key -inf epochId, clearing earlier epochs too.
CleanupUpTo(i) ==
  LET k == idx[i]  t == Configs[k].type IN
  /\ pc[i] = "zrem"
  /\ zset' = [zset EXCEPT ![t] = {m \in @ : m.epoch > Msg(i).epoch}]
  /\ Goto(i, "aggregate", k + 1)
  /\ UNCHANGED <<ready, held, acked, cur, commitQ, workQ, aggQ, crashes>>

\* ZREMRANGEBYSCORE key epochId epochId
Cleanup(i) ==
  LET k == idx[i]  t == Configs[k].type IN
  /\ pc[i] = "zrem"
  /\ zset' = [zset EXCEPT ![t] = {m \in @ : m.epoch # Msg(i).epoch}]
  /\ Goto(i, "aggregate", k + 1)
  /\ UNCHANGED <<ready, held, acked, cur, commitQ, workQ, aggQ, crashes>>

\* basic_ack at the end of either handler.
Ack(i) ==
  /\ pc[i] = "ack"
  /\ acked' = acked \cup {cur[i]}
  /\ cur' = [cur EXCEPT ![i] = NoDelivery]
  /\ Goto(i, "idle", 0)
  /\ UNCHANGED <<ready, held, zset, commitQ, workQ, aggQ, crashes>>

\* Mutant: the dead process's empty slot is requeued with its deliveries.
CrashRequeueSlot(i) ==
  /\ crashes < MaxCrashes
  /\ cur[i] # NoDelivery \/ held[i] # {}
  /\ ready' = ready \cup held[i] \cup {cur[i]}
  /\ held' = [held EXCEPT ![i] = {}]
  /\ cur' = [cur EXCEPT ![i] = NoDelivery]
  /\ Goto(i, "idle", 0)
  /\ crashes' = crashes + 1
  /\ UNCHANGED <<acked, zset, commitQ, workQ, aggQ>>

(***************************************************************************)
(* Process i dies and is restarted: its channel closes, so the broker      *)
(* requeues every delivery it had not acked.  Redis and published          *)
(* messages survive.                                                       *)
(***************************************************************************)
Crash(i) ==
  /\ crashes < MaxCrashes
  /\ cur[i] # NoDelivery \/ held[i] # {}
  /\ ready' = ready \cup held[i] \cup ({cur[i]} \ {NoDelivery})
  /\ held' = [held EXCEPT ![i] = {}]
  /\ cur' = [cur EXCEPT ![i] = NoDelivery]
  /\ Goto(i, "idle", 0)
  /\ crashes' = crashes + 1
  /\ UNCHANGED <<acked, zset, commitQ, workQ, aggQ>>

\* Every delivery is settled and every process waits for the next one.
Quiescent == ready = {} /\ \A i \in Instances : pc[i] = "idle"

Done == Quiescent /\ UNCHANGED vars

Step(i) == Dispatch(i) \/ FanOut(i) \/ Aggregate(i) \/ ReadJoin(i) \/ Cleanup(i) \/ Ack(i)

Next == \/ \E i \in Instances : Step(i) \/ Crash(i)
        \/ Done

\* Each process keeps running its callback and the broker keeps handing
\* it deliveries while any are ready; deaths are not fair.
Fairness == \A i \in Instances : WF_vars(Step(i))

Spec == Init /\ [][Next]_vars /\ Fairness

-----------------------------------------------------------------------------
TypeOK ==
  /\ ready \subseteq Deliveries
  /\ acked \subseteq Deliveries
  /\ held \in [Instances -> SUBSET Deliveries]
  /\ cur \in [Instances -> Deliveries \cup {NoDelivery}]
  /\ pc \in [Instances -> Locations]
  /\ idx \in [Instances -> 0..(Len(Contracts) + Len(Configs) + 1)]
  /\ zset \in [AggTypes -> SUBSET FinalizedMsgs]
  /\ crashes \in 0..MaxCrashes

MultiConfigs == {k \in DOMAIN Configs : Configs[k].mode = MultiProject}

Epochs == {m.epoch : m \in FinalizedMsgs}

Published == BagToSet(aggQ)

\* The (projectId, epochId) pairs bundled in aggregates of type t so far.
Bundled(t) == UNION {{<<m.project, m.epoch>> : m \in a.msgs} : a \in {x \in Published : x.type = t}}

AckedFinalized == {Body[d] : d \in {x \in acked : Body[x].kind = SnapshotFinalized}}

(***************************************************************************)
(* No finalized report is lost by a multi-project join: once a             *)
(* SnapshotFinalized delivery of a project the aggregator waits for is     *)
(* acknowledged, that project's report for that epoch is still in the      *)
(* correlation zset or was bundled in an aggregate.  Breaking it takes a   *)
(* ZREMRANGEBYSCORE of one process landing between the ZADD and the        *)
(* ZRANGEBYSCORE of another on a different score, or a join that fires     *)
(* early and cleans up a report it never bundled.                          *)
(***************************************************************************)
NoFinalizedReportLost ==
  \A k \in MultiConfigs : \A m \in AckedFinalized :
    m.project \in Configs[k].projects =>
      <<m.project, m.epoch>> \in Bundled(Configs[k].type)
                                 \cup {<<x.project, x.epoch>> : x \in zset[Configs[k].type]}

(***************************************************************************)
(* An acknowledged SnapshotFinalized delivery went through both guards of  *)
(* _distribute_callbacks: it was forwarded to the payload-commit topic and *)
(* to every single-project aggregator whose filter it matches, before the  *)
(* basic_ack.  The two guards on the same routing key must both fire.      *)
(***************************************************************************)
AckedFinalizedForwarded ==
  \A m \in AckedFinalized :
    /\ m \in commitQ
    /\ \A k \in DOMAIN Configs :
         Configs[k].mode = SingleProject /\ m.project \in Configs[k].projects =>
           [type |-> Configs[k].type, msgs |-> {m}] \in Published

(***************************************************************************)
(* An acknowledged EpochReleased delivery was fanned out to every contract *)
(* of projects_config: a process that dies in the middle of the fan-out    *)
(* has not acked, so the broker redelivers and the fan-out is redone.      *)
(***************************************************************************)
AckedEpochFannedOut ==
  \A d \in acked : Body[d].kind = EpochReleased =>
    \A c \in ToSet(Contracts) : [epoch |-> Body[d].epoch, contract |-> c] \in workQ

\* Aggregates of multi-project config k that bundle reports of epoch e.
AggregatesOf(k, e) ==
  {a \in Published : a.type = Configs[k].type /\ \E m \in a.msgs : m.epoch = e}

(***************************************************************************)
(* Every multi-project join whose finalized reports all reach the queue    *)
(* eventually fires: an aggregate bundling that epoch is published, in     *)
(* spite of processes racing on the zset, dying and being redelivered to.  *)
(***************************************************************************)
JoinEventuallyFires ==
  \A k \in MultiConfigs : \A e \in Epochs :
    (\A p \in Configs[k].projects : \E m \in FinalizedMsgs : m.project = p /\ m.epoch = e)
      => <>(AggregatesOf(k, e) # {})

(***************************************************************************)
(* At most one aggregate is published per (aggregator, epoch): spec        *)
(* section 5 requires the join to be made of atomic store operations so    *)
(* that two instances cannot both fire it; only a redelivery after the     *)
(* join fired may repeat it.                                               *)
(***************************************************************************)
AtMostOneAggregatePerEpoch ==
  \A k \in MultiConfigs : \A e \in Epochs :
    \A a \in AggregatesOf(k, e) : AggregatesOf(k, e) = {a} /\ CopiesIn(a, aggQ) = 1

=============================================================================
