----------------------------- MODULE EpochChunks -----------------------------
(***************************************************************************)
(* chunks() of src/system_epoch_detector.py, the generator that cuts a     *)
(* block range into epochs, as a pure operator.                            *)
(***************************************************************************)
EXTENDS Naturals, Sequences

Lesser(a, b) == IF a <= b THEN a ELSE b

\* Mutant: the loop steps one block too far, skipping a block per chunk.
RECURSIVE ChunksSkip(_, _, _)
ChunksSkip(s, t, n) ==
  IF s > t THEN <<>>
  ELSE <<[begin |-> s, end |-> Lesser(s + n - 1, t)]>> \o ChunksSkip(s + n + 1, t, n)

\* Mutant: the last chunk is not truncated at stop_idx.
RECURSIVE ChunksUncapped(_, _, _)
ChunksUncapped(s, t, n) ==
  IF s > t THEN <<>>
  ELSE <<[begin |-> s, end |-> s + n - 1]>> \o ChunksUncapped(s + n, t, n)

(***************************************************************************)
(* chunks(start_idx, stop_idx, n): the generator, for n > 0.  range(start, *)
(* stop + 1, n) never reaches stop + 1, so its early return never fires.   *)
(***************************************************************************)
RECURSIVE Chunks(_, _, _)
Chunks(s, t, n) ==
  IF s > t THEN <<>>
  ELSE <<[begin |-> s, end |-> Lesser(s + n - 1, t)]>> \o Chunks(s + n, t, n)

-----------------------------------------------------------------------------
(***************************************************************************)
(* Reference (spec section 8): for start <= stop and n >= 1 the chunks are *)
(* consecutive, ascending, cover [start, stop] exactly once, all but the   *)
(* last span n blocks and the last ends at stop; an empty range gives no   *)
(* chunk.                                                                  *)
(***************************************************************************)
IsPartition(c, s, t, n) ==
  IF s > t THEN c = <<>>
  ELSE /\ c # <<>>
       /\ c[1].begin = s
       /\ c[Len(c)].end = t
       /\ \A i \in 1..Len(c) : c[i].begin <= c[i].end /\ c[i].end - c[i].begin < n
       /\ \A i \in 1..(Len(c) - 1) : c[i + 1].begin = c[i].end + 1 /\ c[i].end - c[i].begin = n - 1

=============================================================================
