------------------------------- MODULE MCLogins -------------------------------
(* An instance of Logins for TLC. *)
EXTENDS Logins, TLC

CONSTANTS l1, l2, l3, l4, ann, ben

(* Two people log in twice each. *)
TwiceEach == (l1 :> ann) @@ (l2 :> ann) @@ (l3 :> ben) @@ (l4 :> ben)

(* Tokens that fit everywhere, in a cookie only, and nowhere. *)
MCLengths == {(ann :> 1) @@ (ben :> 2), (ann :> 1) @@ (ben :> 4)}
MCRooms == [header |-> 1, cookie |-> 2]
=============================================================================
