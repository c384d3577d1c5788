------------------------------- MODULE MCHost -------------------------------
(* The values of the constants of HostPlan a cfg cannot write down.        *)
EXTENDS HostPlan

(* Every input recommends its own value for every key outside Backlog.     *)
MCTuned == [i \in Inputs |-> [k \in Keys \ Backlog |-> i]]

(* Without a file verify expects what every input recommends.              *)
MCBuiltin ==
  [k \in {j \in Keys \ Backlog : \A a, b \in Inputs : MCTuned[a][j] = MCTuned[b][j]}
     |-> MCTuned[CHOOSE i \in Inputs : TRUE][k]]
=============================================================================
