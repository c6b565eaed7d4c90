------------------------------ MODULE MCShutdown ------------------------------
(* An instance of Shutdown for TLC. *)
EXTENDS Shutdown, TLC

CONSTANTS s1, s2, s3

DistinctIds == (s1 :> 1) @@ (s2 :> 2) @@ (s3 :> 3)
=============================================================================
