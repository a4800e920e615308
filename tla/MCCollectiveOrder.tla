------------------------- MODULE MCCollectiveOrder -------------------------
(* Instances of CollectiveOrder: which configurations are run.             *)
EXTENDS CollectiveOrder

KeptInWorkloads == {w \in Workload : Built(w) /\ KeptIn(w)}

\* evaluate and predict of an EvolveGCN node task: the replay of the splits
\* starts from a reset state.
ReplayWorkloads ==
    {w \in Workload : /\ Built(w) /\ ~w.training /\ w.mode = "snapshot"
                      /\ w.task = "node" /\ w.state = "model_recurrent"
                      /\ w.commit_state}
=============================================================================
