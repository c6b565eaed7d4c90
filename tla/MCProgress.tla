------------------------------ MODULE MCProgress ------------------------------
(* Instances of Progress for TLC. *)
EXTENDS Progress, TLC

CONSTANTS s1, s2, r1, r2

(* Two jobs whose ids start at the same entry of a registry of two; both   *)
(* streams want the first.                                                 *)
CollidingIds == (s1 :> 1) @@ (s2 :> 3)
BothWantFirst == (r1 :> 1) @@ (r2 :> 1)
=============================================================================
