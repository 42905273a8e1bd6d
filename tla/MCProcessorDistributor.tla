----------------------- MODULE MCProcessorDistributor -----------------------
(***************************************************************************)
(* A small deployment of the Processor Distributor for TLC.                *)
(*                                                                         *)
(* Projects A and B feed the multi-project aggregator "pairAgg"; the       *)
(* single-project aggregator "tradeAgg" has a filter that is a substring   *)
(* of the projectIds A and C; C is waited for by nobody.  The queue holds  *)
(* one EpochReleased, the reports of A and B for epochs 1 and 2, a report  *)
(* of C and one delivery under an unknown routing key.                     *)
(***************************************************************************)
EXTENDS ProcessorDistributor

CONSTANTS A, B, C, ER1, A1, B1, A2, B2, C1, X1

Fin(e, p) == [kind |-> SnapshotFinalized, epoch |-> e, project |-> p, cid |-> "cid"]

MCBody ==
  [d \in {ER1, A1, B1, A2, B2, C1, X1} |->
     CASE d = ER1 -> [kind |-> EpochReleased, epoch |-> 1, project |-> "none", cid |-> "none"]
       [] d = A1  -> Fin(1, A)
       [] d = B1  -> Fin(1, B)
       [] d = A2  -> Fin(2, A)
       [] d = B2  -> Fin(2, B)
       [] d = C1  -> Fin(1, C)
       [] d = X1  -> [kind |-> "Unknown", epoch |-> 1, project |-> "none", cid |-> "none"]]

MCContracts == <<"0xpairOne", "0xpairTwo">>

MCConfigs ==
  << [type |-> "tradeAgg", mode |-> SingleProject, projects |-> {A, C}],
     [type |-> "pairAgg",  mode |-> MultiProject,  projects |-> {A, B}] >>

=============================================================================
