------------------------------ MODULE MCPipeline ------------------------------
(***************************************************************************)
(* Records of one deployment for model-checking Pipeline.                  *)
(***************************************************************************)
EXTENDS Pipeline

\* Two contributors, either of which may be late, a record whose id another
\* replica used first, and one the engine cannot identify.
MCEventTime    == 1 :> 9 @@ 2 :> 10 @@ 3 :> 10 @@ 4 :> 10
MCDeploymentOf == [r \in 1..4 |-> 1]

=============================================================================
