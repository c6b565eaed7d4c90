------------------------------ MODULE MCPipeline ------------------------------
(* Instances of Pipeline for TLC. *)
EXTENDS Pipeline, TLC

CONSTANTS s1, s2, s3, s4

DistinctIds == (s1 :> 1) @@ (s2 :> 2) @@ (s3 :> 3) @@ (s4 :> 4)
=============================================================================
