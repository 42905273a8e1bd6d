---------------------------- MODULE EpochDetector ----------------------------
(***************************************************************************)
(* The Epoch Detector of src/system_epoch_detector.py.                     *)
(*                                                                         *)
(* The main thread polls the epoch authority for the current epoch         *)
(* [begin, end] and, from the last processed epoch (kept in memory and     *)
(* checkpointed in Redis under SystemEpochDetector:lastProcessedEpoch),    *)
(* cuts the new block range into chunks of one epoch's span.  Each chunk   *)
(* is put on an in-process queue.Queue, then recorded as the last         *)
(* processed epoch in memory and in Redis; a second thread                 *)
(* (RabbitmqThreadedSelectLoopInteractor) drains the queue to the broker. *)
(*                                                                         *)
(* Blocks are numbered from 1; a broadcast is the record [begin, end] (its *)
(* broadcast_id is a fresh uuid, so every broadcast is distinct).          *)
(***************************************************************************)
EXTENDS Naturals, Sequences, SequencesExt, EpochChunks

CONSTANTS
  EpochSpans,    \* epoch sizes the authority may report (any, as the code
                 \* recomputes epoch_height from every report)
  MaxHeight,     \* the authority's end height never passes this bound
  Threshold,     \* CONSENSUS.FALL_BEHIND_RESET_NUM_BLOCKS
  MaxRegress,    \* bound on the authority misreporting (earlier or malformed epoch)
  MaxRestarts,   \* bound on process deaths followed by a restart
  StoreFails,    \* whether a Redis SET may fail (it is logged and passed over)
  NoEpoch        \* model value: no epoch recorded

ASSUME EpochSpans \subseteq Nat \ {0} /\ MaxHeight \in Nat /\ Threshold \in Nat
ASSUME StoreFails \in BOOLEAN

Epoch == [begin : 1..MaxHeight, end : 1..MaxHeight]

VARIABLES
  net,       \* the epoch the authority currently reports
  maxNet,    \* highest end the authority has reported (history)
  regress,   \* times the authority misreported (environment bound)
  mem,       \* self._last_processed_epoch
  store,     \* Redis SystemEpochDetector:lastProcessedEpoch
  todo,      \* chunks of the current for loop not yet broadcast
  pubq,      \* self._rabbitmq_queue, drained by the interactor thread
  broker,    \* broadcasts published on the epoch-broadcast topic, in order
  status,    \* "running", "hung" (joined on a thread never stopped), "down"
  restarts   \* process restarts so far

vars == <<net, maxNet, regress, mem, store, todo, pubq, broker, status, restarts>>

envVars == <<net, maxNet, regress>>

Init ==
  /\ \E s \in EpochSpans : net = [begin |-> 1, end |-> s]
  /\ maxNet = net.end
  /\ regress = 0
  /\ mem = NoEpoch
  /\ store = NoEpoch
  /\ todo = <<>>
  /\ pubq = <<>>
  /\ broker = <<>>
  /\ status = "running"
  /\ restarts = 0

-----------------------------------------------------------------------------
(* The epoch authority, an external endpoint.                             *)

AuthorityAdvance ==
  /\ \E s \in EpochSpans :
       /\ net.end + s <= MaxHeight
       /\ net' = [begin |-> net.end + 1, end |-> net.end + s]
  /\ maxNet' = IF net'.end > maxNet THEN net'.end ELSE maxNet
  /\ UNCHANGED regress
  /\ UNCHANGED <<mem, store, todo, pubq, broker, status, restarts>>

\* A tracker restart or a reorg misreport: the previous epoch again.
AuthorityRegress ==
  /\ regress < MaxRegress
  /\ \E s \in EpochSpans :
       /\ net.begin > s
       /\ net' = [begin |-> net.begin - s, end |-> net.begin - 1]
  /\ regress' = regress + 1
  /\ UNCHANGED maxNet
  /\ UNCHANGED <<mem, store, todo, pubq, broker, status, restarts>>

(***************************************************************************)
(* A malformed report: the next end with a begin past it.  EpochInfo and  *)
(* EpochBase check only that both are ints, so epoch_height = end - begin *)
(* + 1 is 0 or negative.                                                   *)
(***************************************************************************)
AuthorityMalformed ==
  /\ regress < MaxRegress
  /\ net.end + 3 <= MaxHeight
  /\ \E d \in {0, 1} : net' = [begin |-> net.end + 2 + d, end |-> net.end + 1]
  /\ maxNet' = IF net'.end > maxNet THEN net'.end ELSE maxNet
  /\ regress' = regress + 1
  /\ UNCHANGED <<mem, store, todo, pubq, broker, status, restarts>>

-----------------------------------------------------------------------------
(***************************************************************************)
(* _broadcast_epoch(e): queue the broadcast for the interactor thread,     *)
(* record e in memory, then SET it in Redis; a failed SET is logged and    *)
(* the in-memory epoch still advances.                                     *)
(***************************************************************************)
Broadcast(e) ==
  /\ pubq' = Append(pubq, e)
  /\ mem' = e
  /\ store' \in IF StoreFails THEN {e, store} ELSE {e}

\* Mutant: Redis is never read back; only memory counts.
CheckpointMemOnly == mem

\* The last processed epoch as the loop sees it: Redis is read only when
\* nothing is held in memory.
Checkpoint == IF mem = NoEpoch THEN store ELSE mem

\* No last processed epoch anywhere: broadcast the current epoch as is.
PollFirstEpoch ==
  /\ Checkpoint = NoEpoch
  /\ Broadcast(net)
  /\ UNCHANGED <<todo, status>>

\* The last processed end equals the current end: sleep and poll again.
PollNoNewEpoch ==
  /\ Checkpoint # NoEpoch
  /\ Checkpoint.end = net.end
  /\ mem' = Checkpoint
  /\ UNCHANGED <<store, todo, pubq, status>>

\* Mutant: the regression test written with >=, equal ends taken as one.
PollFatalOnEqual ==
  /\ Checkpoint # NoEpoch
  /\ net.end - Checkpoint.end > Threshold \/ Checkpoint.end >= net.end
  /\ mem' = Checkpoint
  /\ status' = "hung"
  /\ UNCHANGED <<store, todo, pubq>>

(***************************************************************************)
(* Fallen behind by more than the threshold, or the authority's end below *)
(* the last processed end: raise GenericExitOnSignal.  The wrapper then    *)
(* joins the interactor thread, which nobody has told to stop.            *)
(***************************************************************************)
PollFatal ==
  /\ Checkpoint # NoEpoch
  /\ Checkpoint.end # net.end
  /\ net.end - Checkpoint.end > Threshold \/ Checkpoint.end > net.end
  /\ mem' = Checkpoint
  /\ status' = "hung"
  /\ UNCHANGED <<store, todo, pubq>>

\* Mutant: the range is cut from the current epoch's begin, not the last end.
PollNewBlocksFromNet ==
  LET n == net.end - net.begin + 1 IN
  /\ Checkpoint # NoEpoch
  /\ Checkpoint.end < net.end
  /\ net.end - Checkpoint.end <= Threshold
  /\ mem' = Checkpoint
  /\ todo' = IF n > 0 THEN Chunks(net.begin, net.end, n) ELSE <<>>
  /\ status' = IF n = 0 THEN "hung" ELSE status
  /\ UNCHANGED <<store, pubq>>

(***************************************************************************)
(* New blocks: cut chunks(last end, current end, epoch_height).  With a    *)
(* negative epoch_height range() is empty and nothing is broadcast; with   *)
(* 0 it raises ValueError, which the wrapper only logs before sys.exit(0)  *)
(* in the main thread, while the non-daemon interactor thread keeps the    *)
(* process up: the loop is dead and nothing is saved, as when hung.        *)
(***************************************************************************)
PollNewBlocks ==
  LET n == net.end - net.begin + 1 IN
  /\ Checkpoint # NoEpoch
  /\ Checkpoint.end < net.end
  /\ net.end - Checkpoint.end <= Threshold
  /\ mem' = Checkpoint
  /\ todo' = IF n > 0 THEN Chunks(Checkpoint.end, net.end, n) ELSE <<>>
  /\ status' = IF n = 0 THEN "hung" ELSE status
  /\ UNCHANGED <<store, pubq>>

\* One iteration of the while loop of run() after a successful fetch (a
\* failed fetch only sleeps).
Poll ==
  /\ status = "running"
  /\ todo = <<>>
  /\ \/ PollFirstEpoch
     \/ PollNoNewEpoch
     \/ PollFatal
     \/ PollNewBlocks
  /\ UNCHANGED <<envVars, broker, restarts>>

\* One turn of the for loop over the chunks (the sleep between chunks is
\* where the authority, the thread and signals interleave).
BroadcastChunk ==
  /\ status = "running"
  /\ todo # <<>>
  /\ Broadcast(Head(todo))
  /\ todo' = Tail(todo)
  /\ UNCHANGED <<envVars, broker, status, restarts>>

\* The interactor thread publishes the oldest queued broadcast.
Publish ==
  /\ status \in {"running", "hung"}
  /\ pubq # <<>>
  /\ broker' = Append(broker, Head(pubq))
  /\ pubq' = Tail(pubq)
  /\ UNCHANGED <<envVars, mem, store, todo, status, restarts>>

(***************************************************************************)
(* rabbitmq_and_redis_cleanup: on GenericExitOnSignal the wrapper joins    *)
(* the interactor thread and, if an epoch is held in memory, SETs it; a    *)
(* failed SET is logged.  A detector hung in the join saves nothing.       *)
(***************************************************************************)
SaveOnExit ==
  store' \in IF status = "running" /\ mem # NoEpoch
                THEN IF StoreFails THEN {mem, store} ELSE {mem}
                ELSE {store}

(***************************************************************************)
(* SIGINT/SIGTERM/SIGQUIT: stop the interactor and raise in the main       *)
(* thread.  Stopping publishes some prefix of the queue.  Running, the     *)
(* wrapper joins the thread and SETs the in-memory epoch (a failure is     *)
(* logged); hung in the join, the exception escapes it and nothing is      *)
(* saved.  The process then exits.                                         *)
(***************************************************************************)
Signal ==
  /\ status \in {"running", "hung"}
  /\ restarts < MaxRestarts
  /\ \E k \in 0..Len(pubq) : broker' = broker \o SubSeq(pubq, 1, k)
  /\ SaveOnExit
  /\ status' = "down"
  /\ UNCHANGED <<envVars, mem, todo, pubq, restarts>>

\* The process is killed: memory and the unsent queue are gone.
Crash ==
  /\ status \in {"running", "hung"}
  /\ restarts < MaxRestarts
  /\ status' = "down"
  /\ UNCHANGED <<envVars, mem, store, todo, pubq, broker, restarts>>

\* A new EpochDetectorProcess starts: nothing in memory, an empty queue.
Restart ==
  /\ status = "down"
  /\ restarts < MaxRestarts
  /\ status' = "running"
  /\ mem' = NoEpoch
  /\ todo' = <<>>
  /\ pubq' = <<>>
  /\ restarts' = restarts + 1
  /\ UNCHANGED <<envVars, store, broker>>

Detector == Poll \/ BroadcastChunk \/ Publish

Next ==
  \/ AuthorityAdvance \/ AuthorityRegress \/ AuthorityMalformed
  \/ Detector
  \/ Signal \/ Crash \/ Restart

\* The main loop and the interactor thread both keep running; the authority,
\* signals and deaths are not fair.
Fairness == WF_vars(Poll) /\ WF_vars(BroadcastChunk) /\ WF_vars(Publish)

Spec == Init /\ [][Next]_vars /\ Fairness

-----------------------------------------------------------------------------
TypeOK ==
  /\ net \in Epoch
  /\ mem \in Epoch \cup {NoEpoch}
  /\ store \in Epoch \cup {NoEpoch}
  /\ todo \in Seq(Epoch)
  /\ pubq \in Seq(Epoch)
  /\ broker \in Seq(Epoch)
  /\ status \in {"running", "hung", "down"}
  /\ restarts \in 0..MaxRestarts

Blocks(e) == e.begin..e.end

Published == {broker[n] : n \in 1..Len(broker)}

HighestPublished == IF broker = <<>> THEN 0
                    ELSE CHOOSE h \in {e.end : e \in Published} : \A e \in Published : e.end <= h

(***************************************************************************)
(* No block range is skipped: every block from the first broadcast up to   *)
(* the highest one published lies in some published broadcast.  A chunk    *)
(* loop that steps too far, a checkpoint that runs ahead of what reaches   *)
(* the broker, or a restart that resumes past the backlog leaves a hole.   *)
(***************************************************************************)
NoGap ==
  broker # <<>> =>
    \A h \in broker[1].begin..HighestPublished : \E e \in Published : h \in Blocks(e)

(***************************************************************************)
(* Nothing is broadcast beyond what the authority has reported: the last   *)
(* chunk is truncated at the current end, and a regressed authority stops  *)
(* the detector instead of being chunked against.                          *)
(***************************************************************************)
NoFutureBroadcast == \A e \in Published : e.end <= maxNet

(***************************************************************************)
(* The Redis checkpoint never moves back, across store failures, signals,  *)
(* deaths and restarts that reload it and an authority that regresses.     *)
(***************************************************************************)
CheckpointMonotone ==
  [][store # NoEpoch /\ store' # NoEpoch => store'.end >= store.end]_store

(***************************************************************************)
(* Every block the authority reports is eventually broadcast.              *)
(***************************************************************************)
CatchesUp ==
  \A h \in 1..MaxHeight : (maxNet >= h) ~> (\E e \in Published : e.end >= h)

(***************************************************************************)
(* Spec section 4.1 step 6 and section 8: the new range (checkpoint end,   *)
(* network end] is partitioned, so no block is in two broadcasts.          *)
(***************************************************************************)
NoBlockBroadcastTwice ==
  \A n1, n2 \in 1..Len(broker) : n1 < n2 => Blocks(broker[n1]) \cap Blocks(broker[n2]) = {}

-----------------------------------------------------------------------------
(***************************************************************************)
(* What a consumer learns from the broker: each broadcast trimmed to the   *)
(* blocks no earlier broadcast reached, and one that brings no new block   *)
(* dropped.  Re-sent blocks are what detector_overlap is about; the feed   *)
(* of new blocks is what the spec's partition of the chain promises.      *)
(***************************************************************************)
\* One broadcast added to what the consumer has: trimmed, or dropped.
AddNew(acc, last, r) ==
  IF r.end <= last THEN acc
  ELSE Append(acc, [begin |-> IF r.begin > last THEN r.begin ELSE last + 1, end |-> r.end])

RECURSIVE TrimFrom(_, _, _)
TrimFrom(acc, last, seq) ==
  IF seq = <<>> THEN acc
  ELSE TrimFrom(AddNew(acc, last, Head(seq)),
                IF Head(seq).end > last THEN Head(seq).end ELSE last, Tail(seq))

NewRanges(seq) == TrimFrom(<<>>, 0, seq)

\* The authority's highest reported end is the chain's height.
Feed == INSTANCE EpochFeed WITH height <- maxNet, feed <- NewRanges(broker)

(***************************************************************************)
(* The detector implements the epoch feed: every Publish of the            *)
(* interactor thread either re-sends old blocks only or brings new blocks  *)
(* that start right after the last one seen, with no hole, within the      *)
(* reported height; and the polling loop, chunk loop and publisher thread  *)
(* together keep the feed up with the authority, whatever epoch sizes it   *)
(* reports, a one-block epoch whose first chunk re-sends the whole last    *)
(* range included.                                                         *)
(***************************************************************************)
FeedRefined == Feed!Spec

=============================================================================
