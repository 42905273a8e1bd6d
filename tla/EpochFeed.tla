----------------------------- MODULE EpochFeed -----------------------------
(***************************************************************************)
(* What the epoch-broadcast topic promises its consumers (spec sections 1  *)
(* and 5), independent of how the detector polls, chunks and queues.      *)
(*                                                                         *)
(* The chain's reported height only grows.  The feed is a sequence of     *)
(* block ranges that partition the chain from the first one on: each      *)
(* starts one past the end of the one before (spec 4.1 step 6: the new    *)
(* range is split into consecutive chunks) and ends at or below the       *)
(* height reported so far.  The feed                                      *)
(* keeps up: while blocks are reported that no range covers, a range is   *)
(* eventually added.                                                       *)
(***************************************************************************)
EXTENDS Naturals, Sequences

CONSTANT MaxHeight

VARIABLES
  height,  \* highest end block reported by the chain
  feed     \* block ranges [begin, end] published, in order

vars == <<height, feed>>

Range == [begin : 1..MaxHeight, end : 1..MaxHeight]

LastEnd == IF feed = <<>> THEN 0 ELSE feed[Len(feed)].end

Init ==
  /\ height \in 1..MaxHeight
  /\ feed = <<>>

\* The chain reports a higher block.
Grow ==
  /\ \E h \in (height + 1)..MaxHeight : height' = h
  /\ UNCHANGED feed

\* A range is published: it starts right after the last one and stays
\* within the reported height.
Emit ==
  /\ \E r \in Range :
       /\ r.begin <= r.end
       /\ feed # <<>> => r.begin = LastEnd + 1
       /\ r.end <= height
       /\ feed' = Append(feed, r)
  /\ UNCHANGED height

Next == Grow \/ Emit

Spec == Init /\ [][Next]_vars /\ WF_vars(Emit)

=============================================================================
