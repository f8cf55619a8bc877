---------------------------- MODULE MCPipelineLive ----------------------------
(***************************************************************************)
(* Records for the liveness of Pipeline: close together, and one that      *)
(* arrives behind everything the engine retains of the other.              *)
(***************************************************************************)
EXTENDS Pipeline

MCEventTime    == 1 :> 6 @@ 2 :> 7 @@ 3 :> 7
MCDeploymentOf == [r \in 1..3 |-> 1]

MCLateEventTime == 1 :> 6 @@ 2 :> 11

=============================================================================
