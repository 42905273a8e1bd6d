--------------------------- MODULE MCEpochDetector ---------------------------
(***************************************************************************)
(* The Epoch Detector for TLC: epochs of one or two blocks, heights up to  *)
(* 8 or 12; and chunks() against its partition reference for every range  *)
(* up to the largest height and chunk sizes up to MaxSpan.                 *)
(***************************************************************************)
EXTENDS EpochDetector

\* Largest chunk size tried against the reference.
MaxSpan == 5

(***************************************************************************)
(* chunks(start, stop, n) partitions [start, stop] into consecutive        *)
(* n-block ranges, the last cut at stop, for every start, stop and n up to *)
(* MaxSpan and every start and stop up to the height reported so far, so  *)
(* every range the loop could be handed as the chain grows.              *)
(***************************************************************************)
ChunksPartition ==
  \A s \in 1..maxNet, t \in 0..maxNet, n \in 1..MaxSpan :
    IsPartition(Chunks(s, t, n), s, t, n)

=============================================================================
